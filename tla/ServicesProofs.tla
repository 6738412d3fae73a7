--------------------------- MODULE ServicesProofs ---------------------------
(***************************************************************************)
(* Proofs about the services the agents share: the accounts, the queue in  *)
(* front of the local model, and the conversation engine with its reviews. *)
(***************************************************************************)
EXTENDS QueueProxy, Accounts, Livestream, Conversation, FiniteSetTheorems, SequenceTheorems, TLAPS

-----------------------------------------------------------------------------
(* The accounts.                                                           *)
AccountRows == [exists : BOOLEAN, balance : Int, earned : Int, spent : Int, sent : Int]
EntryRows == [allocation : Int, cost : Int, transfer : Int]
Transactions ==
    [step : {"none", "debit", "credit", "commit", "pay"}, row : Rows, from : Rows, to : Rows,
     amount : Nat, holds : SUBSET Payers, todo : SUBSET Payers]

(* A row and its entries agree; a row that does not exist has none.        *)
RowBalances(row, e) ==
    LET first == IF row.exists THEN Share ELSE 0 IN
    /\ row.balance >= 0
    /\ row.balance = first + row.earned - row.spent - row.sent
    /\ row.balance = first + e.allocation + e.transfer - e.cost
    /\ ~row.exists => row = NoAccount /\ e = NoEntries

(* A payment that was charged holds the row of its payer until it commits, *)
(* whose balance covers it, and it credits, as the weekly allocation does, *)
(* only rows that exist.                                                   *)
PaymentFits(t, acct) ==
    /\ t.step # "none" => t.from \in Payers /\ t.to # t.from
    /\ t.step # "pay"
    /\ t.step = "debit" => t.row = t.from
    /\ t.step \in {"credit", "commit"} =>
          t.from \in t.holds /\ acct[t.from].exists /\ acct[t.from].balance >= t.amount
    /\ t.step = "credit" => t.to \in Payers /\ t.row = t.to
    /\ t.step = "commit" /\ t.to # Payday => t.to \in Payers /\ acct[t.to].exists

WeekFits(t, acct) ==
    /\ \A b \in t.holds \cup t.todo : acct[b].exists
    /\ t.step = "pay" => t.row \in Payers /\ acct[t.row].exists

(* No row is locked twice: a statement waits until the row is free.        *)
LocksApart == \A c, d \in Clients : c # d => tx[c].holds \cap tx[d].holds = {}

AccountInv ==
    /\ account \in [Payers -> AccountRows] /\ entries \in [Payers -> EntryRows]
    /\ tx \in [Clients -> Transactions]
    /\ \A a \in Payers : RowBalances(account[a], entries[a])
    /\ \A s \in Sessions : PaymentFits(tx[s], account)
    /\ WeekFits(tx[Payday], account)
    /\ LocksApart

LEMMA AccountStart == AccountInit => AccountInv
<1> SUFFICES ASSUME AccountInit PROVE AccountInv
  OBVIOUS
<1>1. NoAccount \in AccountRows /\ NoEntries \in EntryRows /\ NoTx \in Transactions
  BY DEF NoAccount, AccountRows, NoEntries, EntryRows, NoTx, Transactions, Rows
<1>2. /\ account \in [Payers -> AccountRows] /\ entries \in [Payers -> EntryRows]
      /\ tx \in [Clients -> Transactions]
  BY <1>1 DEF AccountInit
<1>3. RowBalances(NoAccount, NoEntries)
  BY DEF RowBalances, NoAccount, NoEntries
<1>4. PaymentFits(NoTx, account)
  BY DEF PaymentFits, NoTx
<1>5. WeekFits(NoTx, account)
  BY DEF WeekFits, NoTx
<1>6. /\ \A a \in Payers : account[a] = NoAccount /\ entries[a] = NoEntries
      /\ \A c \in Clients : tx[c] = NoTx
  BY DEF AccountInit
<1>7. LocksApart
  BY <1>6 DEF LocksApart, NoTx
<1> QED
  BY <1>2, <1>3, <1>4, <1>5, <1>6, <1>7 DEF AccountInv, Clients

(* A client keeps its locks, lets go of them or takes a free row.          *)
Locks(c, t) == t.holds \in {{}, tx[c].holds} \/ (RowFree(c) /\ t.holds = Locked(c))

LEMMA LocksStep ==
    ASSUME AccountInv, NEW c \in Clients, NEW t, Becomes(c, t), Locks(c, t)
    PROVE  LocksApart'
<1>1. \A d \in Clients : tx'[d] = IF d = c THEN t ELSE tx[d]
  BY DEF AccountInv, Becomes
<1>2. \A d \in Clients : d # c => t.holds \cap tx[d].holds = {}
  BY DEF AccountInv, LocksApart, Locks, RowFree, WaitsFor, Locked
<1> QED
  BY <1>1, <1>2 DEF AccountInv, LocksApart

(* A step of one client: rows are only added, and nobody lowers a balance  *)
(* without holding its row.                                                *)
LEMMA ClientStep ==
    ASSUME AccountInv, NEW c \in Clients, NEW t \in Transactions, Becomes(c, t), Locks(c, t),
           account' \in [Payers -> AccountRows], entries' \in [Payers -> EntryRows],
           \A b \in Payers : RowBalances(account'[b], entries'[b]),
           \A b \in Payers : account[b].exists => account'[b].exists,
           \A b \in Payers : b \notin tx[c].holds => account[b].balance <= account'[b].balance,
           c \in Sessions => PaymentFits(t, account'),
           c = Payday => WeekFits(t, account')
    PROVE  AccountInv'
<1>1. /\ tx' \in [Clients -> Transactions] /\ tx'[c] = t
      /\ \A d \in Clients : d # c => tx'[d] = tx[d]
  BY DEF Becomes, AccountInv
<1>2. ASSUME NEW s \in Sessions PROVE PaymentFits(tx'[s], account')
  <2>1. CASE s = c
    BY <1>1, <2>1
  <2>2. CASE s # c
    <3> DEFINE u == tx[s]
    <3>1. /\ PaymentFits(u, account) /\ u \in Transactions /\ tx'[s] = u
          /\ u.holds \cap tx[c].holds = {}
      BY <1>1, <2>2 DEF AccountInv, Clients, LocksApart
    <3> HIDE DEF u
    <3>2. u.amount \in Nat /\ u.step # "none" => u.from \in Payers
      BY <3>1 DEF PaymentFits, Transactions
    <3>3. ASSUME u.step \in {"credit", "commit"}
          PROVE  u.from \in u.holds /\ account'[u.from].exists /\ account'[u.from].balance >= u.amount
      <4>1. /\ u.from \in u.holds /\ u.from \in Payers /\ u.amount \in Nat
            /\ account[u.from].exists /\ account[u.from].balance >= u.amount
        BY <3>1, <3>3 DEF PaymentFits, Transactions
      <4>2. account[u.from].balance <= account'[u.from].balance /\ account'[u.from].exists
        BY <3>1, <4>1
      <4>3. account[u.from].balance \in Int /\ account'[u.from].balance \in Int
        BY <4>1 DEF AccountInv, AccountRows
      <4> QED
        BY <4>1, <4>2, <4>3
    <3>4. u.step = "commit" /\ u.to # Payday => u.to \in Payers /\ account'[u.to].exists
      BY <3>1 DEF PaymentFits
    <3>5. PaymentFits(u, account')
      BY <3>1, <3>3, <3>4 DEF PaymentFits
    <3> QED
      BY <3>1, <3>5
  <2> QED
    BY <2>1, <2>2
<1>3. WeekFits(tx'[Payday], account')
  <2>1. CASE c = Payday
    BY <1>1, <2>1
  <2>2. CASE c # Payday
    <3>1. WeekFits(tx[Payday], account) /\ tx'[Payday] = tx[Payday] /\ tx[Payday] \in Transactions
      BY <1>1, <2>2 DEF AccountInv, Clients
    <3>2. tx[Payday].holds \subseteq Payers /\ tx[Payday].todo \subseteq Payers
      BY <3>1 DEF Transactions
    <3> QED
      BY <3>1, <3>2 DEF WeekFits
  <2> QED
    BY <2>1, <2>2
<1>4. LocksApart'
  BY LocksStep
<1> QED
  BY <1>1, <1>2, <1>3, <1>4 DEF AccountInv

(* A statement that changes no row yet.                                    *)
LEMMA StatementStep ==
    ASSUME AccountInv, NEW c \in Clients, NEW t \in Transactions, Becomes(c, t), Locks(c, t),
           UNCHANGED <<account, entries>>,
           c \in Sessions => PaymentFits(t, account),
           c = Payday => WeekFits(t, account)
    PROVE  AccountInv'
<1>1. /\ account' \in [Payers -> AccountRows] /\ entries' \in [Payers -> EntryRows]
      /\ \A b \in Payers : RowBalances(account'[b], entries'[b])
  BY DEF AccountInv
<1>2. \A b \in Payers : account[b].balance <= account'[b].balance
  BY DEF AccountInv, AccountRows
<1> QED
  BY <1>1, <1>2, ClientStep

(* What the commits do to a row and its entries.                           *)
LEMMA CostKeepsBalance ==
    ASSUME NEW row \in AccountRows, NEW e \in EntryRows, NEW amount \in Nat,
           RowBalances(row, e), row.exists, row.balance >= amount
    PROVE  /\ Debited(row, amount, TRUE) \in AccountRows
           /\ [e EXCEPT !.cost = @ + amount] \in EntryRows
           /\ Debited(row, amount, TRUE).exists
           /\ RowBalances(Debited(row, amount, TRUE), [e EXCEPT !.cost = @ + amount])
<1> DEFINE new == Debited(row, amount, TRUE)
           f == [e EXCEPT !.cost = @ + amount]
<1>1. /\ new \in AccountRows /\ new.exists /\ new.balance = row.balance - amount
      /\ new.earned = row.earned /\ new.spent = row.spent + amount /\ new.sent = row.sent + 0
  <2>1. /\ row \in AccountRows /\ row.exists /\ row.balance - amount \in Int
        /\ row.spent + amount \in Int /\ row.spent + 0 \in Int
        /\ row.sent + amount \in Int /\ row.sent + 0 \in Int
    BY DEF AccountRows
  <2>2. new = [[[row EXCEPT !.balance = row.balance - amount] EXCEPT !.spent = row.spent + amount]
                EXCEPT !.sent = row.sent + 0]
    BY DEF AccountRows, Debited
  <2> HIDE DEF new
  <2> QED
    BY <2>1, <2>2 DEF AccountRows
<1>2. f \in EntryRows /\ f.cost = e.cost + amount /\ f.allocation = e.allocation /\ f.transfer = e.transfer
  BY DEF EntryRows
<1>3. /\ row.balance \in Int /\ row.earned \in Int /\ row.spent \in Int /\ row.sent \in Int
      /\ e.allocation \in Int /\ e.cost \in Int /\ e.transfer \in Int /\ Share \in Int
  BY AccountAssumption DEF AccountRows, EntryRows
<1>4. /\ row.balance = Share + row.earned - row.spent - row.sent
      /\ row.balance = Share + e.allocation + e.transfer - e.cost
  BY DEF RowBalances
<1> HIDE DEF new, f
<1>5. new.balance >= 0
  BY <1>1, <1>3
<1>6. new.balance = Share + new.earned - new.spent - new.sent
  BY <1>1, <1>3, <1>4
<1>7. new.balance = Share + f.allocation + f.transfer - f.cost
  BY <1>2, <1>1, <1>3, <1>4
<1>8. RowBalances(new, f)
  BY <1>1, <1>5, <1>6, <1>7 DEF RowBalances
<1> QED
  BY <1>1, <1>2, <1>8 DEF new, f

LEMMA TransferKeepsBalance ==
    ASSUME NEW row \in AccountRows, NEW e \in EntryRows, NEW amount \in Nat,
           RowBalances(row, e), row.exists, row.balance >= amount
    PROVE  /\ Debited(row, amount, FALSE) \in AccountRows
           /\ [e EXCEPT !.transfer = @ - amount] \in EntryRows
           /\ Debited(row, amount, FALSE).exists
           /\ RowBalances(Debited(row, amount, FALSE), [e EXCEPT !.transfer = @ - amount])
<1> DEFINE new == Debited(row, amount, FALSE)
           f == [e EXCEPT !.transfer = @ - amount]
<1>1. /\ new \in AccountRows /\ new.exists /\ new.balance = row.balance - amount
      /\ new.earned = row.earned /\ new.spent = row.spent + 0 /\ new.sent = row.sent + amount
  <2>1. /\ row \in AccountRows /\ row.exists /\ row.balance - amount \in Int
        /\ row.spent + amount \in Int /\ row.spent + 0 \in Int
        /\ row.sent + amount \in Int /\ row.sent + 0 \in Int
    BY DEF AccountRows
  <2>2. new = [[[row EXCEPT !.balance = row.balance - amount] EXCEPT !.spent = row.spent + 0]
                EXCEPT !.sent = row.sent + amount]
    BY DEF AccountRows, Debited
  <2> HIDE DEF new
  <2> QED
    BY <2>1, <2>2 DEF AccountRows
<1>2. f \in EntryRows /\ f.transfer = e.transfer - amount /\ f.allocation = e.allocation /\ f.cost = e.cost
  BY DEF EntryRows
<1>3. /\ row.balance \in Int /\ row.earned \in Int /\ row.spent \in Int /\ row.sent \in Int
      /\ e.allocation \in Int /\ e.cost \in Int /\ e.transfer \in Int /\ Share \in Int
  BY AccountAssumption DEF AccountRows, EntryRows
<1>4. /\ row.balance = Share + row.earned - row.spent - row.sent
      /\ row.balance = Share + e.allocation + e.transfer - e.cost
  BY DEF RowBalances
<1> HIDE DEF new, f
<1>5. new.balance >= 0
  BY <1>1, <1>3
<1>6. new.balance = Share + new.earned - new.spent - new.sent
  BY <1>1, <1>3, <1>4
<1>7. new.balance = Share + f.allocation + f.transfer - f.cost
  BY <1>2, <1>1, <1>3, <1>4
<1>8. RowBalances(new, f)
  BY <1>1, <1>5, <1>6, <1>7 DEF RowBalances
<1> QED
  BY <1>1, <1>2, <1>8 DEF new, f

LEMMA CreditKeepsBalance ==
    ASSUME NEW row \in AccountRows, NEW e \in EntryRows, NEW amount \in Nat,
           RowBalances(row, e), row.exists
    PROVE  /\ Credited(row, amount) \in AccountRows
           /\ [e EXCEPT !.transfer = @ + amount] \in EntryRows
           /\ [e EXCEPT !.allocation = @ + amount] \in EntryRows
           /\ Credited(row, amount).exists /\ row.balance <= Credited(row, amount).balance
           /\ RowBalances(Credited(row, amount), [e EXCEPT !.transfer = @ + amount])
           /\ RowBalances(Credited(row, amount), [e EXCEPT !.allocation = @ + amount])
<1> DEFINE new == Credited(row, amount)
           f == [e EXCEPT !.transfer = @ + amount]
           g == [e EXCEPT !.allocation = @ + amount]
<1>1. /\ new \in AccountRows /\ new.exists /\ new.balance = row.balance + amount
      /\ new.earned = row.earned + amount /\ new.spent = row.spent /\ new.sent = row.sent
  <2>1. /\ row \in AccountRows /\ row.exists /\ row.balance + amount \in Int
        /\ row.earned + amount \in Int
    BY DEF AccountRows
  <2>2. new = [[row EXCEPT !.balance = row.balance + amount] EXCEPT !.earned = row.earned + amount]
    BY DEF AccountRows, Credited
  <2> HIDE DEF new
  <2> QED
    BY <2>1, <2>2 DEF AccountRows
<1>2. /\ f \in EntryRows /\ f.transfer = e.transfer + amount
      /\ f.allocation = e.allocation /\ f.cost = e.cost
  BY DEF EntryRows
<1>3. /\ g \in EntryRows /\ g.allocation = e.allocation + amount
      /\ g.transfer = e.transfer /\ g.cost = e.cost
  BY DEF EntryRows
<1>4. /\ row.balance \in Int /\ row.earned \in Int /\ row.spent \in Int /\ row.sent \in Int
      /\ e.allocation \in Int /\ e.cost \in Int /\ e.transfer \in Int /\ Share \in Int
  BY AccountAssumption DEF AccountRows, EntryRows
<1>5. /\ row.balance = Share + row.earned - row.spent - row.sent /\ row.balance >= 0
      /\ row.balance = Share + e.allocation + e.transfer - e.cost
  BY DEF RowBalances
<1> HIDE DEF new, f, g
<1>6. /\ new.balance >= 0 /\ row.balance <= new.balance
      /\ new.balance = Share + new.earned - new.spent - new.sent
  BY <1>1, <1>4, <1>5
<1>7. /\ new.balance = Share + f.allocation + f.transfer - f.cost
      /\ new.balance = Share + g.allocation + g.transfer - g.cost
  BY <1>1, <1>2, <1>3, <1>4, <1>5
<1>8. RowBalances(new, f) /\ RowBalances(new, g)
  BY <1>1, <1>6, <1>7 DEF RowBalances
<1> QED
  BY <1>1, <1>2, <1>3, <1>6, <1>8 DEF new, f, g

(* One step per action.                                                    *)
LEMMA AccountKept == AccountInv /\ [AccountNext]_accountVars => AccountInv'
<1> SUFFICES ASSUME AccountInv, [AccountNext]_accountVars PROVE AccountInv'
  OBVIOUS
<1>t. /\ account \in [Payers -> AccountRows] /\ entries \in [Payers -> EntryRows]
      /\ tx \in [Clients -> Transactions]
      /\ Payday \in Clients /\ Sessions \subseteq Clients /\ Payday \notin Payers /\ Payday \notin Sessions
      /\ Rows = Payers \cup {Payday}
  BY AccountAssumption DEF AccountInv, Clients, Rows
<1>f. \A a \in Payers : /\ RowBalances(account[a], entries[a])
                        /\ account[a] \in AccountRows /\ entries[a] \in EntryRows
  BY <1>t DEF AccountInv
<1>g. \A s \in Sessions : PaymentFits(tx[s], account) /\ tx[s] \in Transactions
  BY <1>t DEF AccountInv
<1>n. /\ NoTx \in Transactions /\ PaymentFits(NoTx, account) /\ WeekFits(NoTx, account)
      /\ \A c \in Clients : Locks(c, NoTx)
  BY DEF NoTx, Transactions, Rows, PaymentFits, WeekFits, Locks
<1>o. ASSUME NEW c \in Clients, Over(c), UNCHANGED <<account, entries>> PROVE AccountInv'
  BY <1>n, <1>o, StatementStep DEF Over
<1>1. ASSUME NEW a \in Payers, CreateAccount(a) PROVE AccountInv'
  <2> DEFINE row == [NoAccount EXCEPT !.exists = TRUE, !.balance = Share]
  <2>1. /\ ~account[a].exists /\ account' = [account EXCEPT ![a] = row]
        /\ UNCHANGED <<entries, tx>>
    BY <1>1 DEF CreateAccount
  <2>2. /\ NoAccount \in AccountRows /\ NoAccount.earned = 0 /\ NoAccount.spent = 0
        /\ NoAccount.sent = 0 /\ NoAccount.balance = 0
    BY DEF NoAccount, AccountRows
  <2>3. /\ row \in AccountRows /\ row.exists /\ row.balance = Share
        /\ row.earned = 0 /\ row.spent = 0 /\ row.sent = 0
    <3>1. Share \in Int
      BY AccountAssumption
    <3>2. row \in AccountRows
      BY <2>2, <3>1 DEF AccountRows
    <3>3. /\ row.exists = TRUE /\ row.balance = Share /\ row.earned = NoAccount.earned
          /\ row.spent = NoAccount.spent /\ row.sent = NoAccount.sent
      BY <2>2 DEF AccountRows
    <3> HIDE DEF row
    <3> QED
      BY <2>2, <3>2, <3>3
  <2>4. account[a] = NoAccount /\ entries[a] = NoEntries
    BY <1>f, <2>1 DEF RowBalances
  <2> HIDE DEF row
  <2>5. RowBalances(row, NoEntries)
    BY <2>3, AccountAssumption DEF RowBalances, NoEntries
  <2>6. /\ account' \in [Payers -> AccountRows] /\ account'[a] = row
        /\ \A b \in Payers : b # a => account'[b] = account[b]
    BY <1>t, <2>1, <2>3
  <2>7. \A b \in Payers : RowBalances(account'[b], entries'[b])
    BY <1>f, <2>1, <2>4, <2>5, <2>6
  <2>8. tx' = [tx EXCEPT ![Payday] = tx[Payday]] /\ tx[Payday] \in Transactions
    BY <1>t, <2>1
  <2>9. \A b \in Payers : /\ account[b].exists => account'[b].exists
                          /\ account[b].balance <= account'[b].balance
    <3>1. account[a].balance = 0 /\ 0 <= Share
      BY <2>4, AccountAssumption DEF NoAccount
    <3>2. \A b \in Payers : account[b].balance \in Int
      BY <1>f DEF AccountRows
    <3> QED
      BY <2>3, <2>6, <3>1, <3>2
  <2>10. WeekFits(tx[Payday], account')
    <3>1. tx[Payday].holds \subseteq Payers /\ tx[Payday].todo \subseteq Payers
      BY <2>8 DEF Transactions
    <3> QED
      BY <2>9, <3>1 DEF AccountInv, WeekFits
  <2>11. Locks(Payday, tx[Payday])
    BY DEF Locks
  <2> QED
    BY <1>t, <2>1, <2>6, <2>7, <2>8, <2>9, <2>10, <2>11, ClientStep DEF Becomes
<1>2. ASSUME NEW s \in Sessions, BeginPayment(s) PROVE AccountInv'
  <2>1. PICK from \in Payers, to \in Rows, amount \in Amounts :
           /\ to # from
           /\ Becomes(s, [NoTx EXCEPT !.step = "debit", !.row = from, !.from = from, !.to = to,
                                      !.amount = amount])
    BY <1>2 DEF BeginPayment
  <2> DEFINE t == [NoTx EXCEPT !.step = "debit", !.row = from, !.from = from, !.to = to,
                               !.amount = amount]
  <2>2. NoTx \in Transactions /\ NoTx.holds = {}
    BY <1>n DEF NoTx
  <2>3. amount \in Nat
    BY AccountAssumption
  <2>4. /\ t \in Transactions /\ t.step = "debit" /\ t.row = from /\ t.from = from /\ t.to = to
        /\ t.holds = {}
    BY <1>t, <2>2, <2>3 DEF Transactions
  <2> HIDE DEF t
  <2>5. PaymentFits(t, account) /\ Locks(s, t)
    BY <2>1, <2>4 DEF PaymentFits, Locks
  <2>6. UNCHANGED <<account, entries>>
    BY <1>2 DEF BeginPayment
  <2> QED
    BY <1>t, <2>1, <2>4, <2>5, <2>6, StatementStep DEF t
<1>3. ASSUME NEW s \in Sessions, Debit(s) PROVE AccountInv'
  <2>1. tx[s].step = "debit" /\ RowFree(s) /\ UNCHANGED <<account, entries>>
    BY <1>3 DEF Debit, Within
  <2>2. CASE Covered(s)
    <3> DEFINE t == [tx[s] EXCEPT !.step = IF tx[s].to = Payday THEN "commit" ELSE "credit",
                                  !.row = tx[s].to, !.holds = Locked(s)]
    <3>1. Becomes(s, t)
      BY <1>3, <2>2 DEF Debit, Charge
    <3>2. /\ tx[s].row = tx[s].from /\ tx[s].from \in Payers /\ tx[s].to # tx[s].from
          /\ tx[s] \in Transactions
          /\ account[tx[s].from].exists /\ account[tx[s].from].balance >= tx[s].amount
      BY <1>g, <2>1, <2>2 DEF PaymentFits, Covered
    <3>3. Locked(s) \in SUBSET Payers /\ tx[s].from \in Locked(s) /\ tx[s].to \in Rows
      BY <3>2 DEF Locked, Transactions
    <3>4. /\ t \in Transactions /\ t.from = tx[s].from /\ t.to = tx[s].to /\ t.row = tx[s].to
          /\ t.amount = tx[s].amount /\ t.holds = Locked(s)
          /\ t.step = IF tx[s].to = Payday THEN "commit" ELSE "credit"
      BY <3>2, <3>3 DEF Transactions
    <3> HIDE DEF t
    <3>5. PaymentFits(t, account) /\ Locks(s, t)
      BY <1>t, <2>1, <3>2, <3>3, <3>4 DEF PaymentFits, Locks
    <3> QED
      BY <1>t, <2>1, <3>1, <3>4, <3>5, StatementStep
  <2>3. CASE ~Covered(s)
    <3>1. Over(s)
      BY <1>3, <2>3 DEF Debit
    <3> QED
      BY <1>o, <1>t, <2>1, <3>1
  <2> QED
    BY <2>2, <2>3
<1>4. ASSUME NEW s \in Sessions, Credit(s) PROVE AccountInv'
  <2>1. tx[s].step = "credit" /\ RowFree(s) /\ UNCHANGED <<account, entries>>
    BY <1>4 DEF Credit, Within
  <2>2. CASE account[tx[s].to].exists
    <3> DEFINE t == [tx[s] EXCEPT !.step = "commit", !.row = Payday, !.holds = Locked(s)]
    <3>1. Becomes(s, t)
      BY <1>4, <2>2 DEF Credit
    <3>2. /\ tx[s].row = tx[s].to /\ tx[s].to # tx[s].from /\ tx[s].to \in Payers
          /\ tx[s] \in Transactions /\ tx[s].from \in tx[s].holds /\ tx[s].from \in Payers
          /\ account[tx[s].from].exists /\ account[tx[s].from].balance >= tx[s].amount
      BY <1>g, <2>1 DEF PaymentFits
    <3>3. Locked(s) \in SUBSET Payers /\ tx[s].from \in Locked(s)
      BY <3>2 DEF Locked, Transactions
    <3>4. /\ t \in Transactions /\ t.from = tx[s].from /\ t.to = tx[s].to
          /\ t.amount = tx[s].amount /\ t.step = "commit" /\ t.holds = Locked(s)
      BY <1>t, <3>2, <3>3 DEF Transactions
    <3> HIDE DEF t
    <3>5. PaymentFits(t, account) /\ Locks(s, t)
      BY <2>1, <2>2, <3>2, <3>3, <3>4 DEF PaymentFits, Locks
    <3> QED
      BY <1>t, <2>1, <3>1, <3>4, <3>5, StatementStep
  <2>3. CASE ~account[tx[s].to].exists
    <3>1. Over(s)
      BY <1>4, <2>3 DEF Credit
    <3> QED
      BY <1>o, <1>t, <2>1, <3>1
  <2> QED
    BY <2>2, <2>3
<1>5. ASSUME NEW s \in Sessions, CommitCost(s) PROVE AccountInv'
  <2> DEFINE from == tx[s].from
             row == Debited(account[from], tx[s].amount, TRUE)
             e == [entries[from] EXCEPT !.cost = @ + tx[s].amount]
  <2>1. /\ tx[s].step = "commit" /\ Becomes(s, NoTx)
        /\ account' = [account EXCEPT ![from] = row]
        /\ entries' = [entries EXCEPT ![from].cost = @ + tx[s].amount]
    BY <1>5 DEF CommitCost, Within, Over
  <2>2. /\ from \in Payers /\ from \in tx[s].holds /\ tx[s].amount \in Nat
        /\ account[from].exists /\ account[from].balance >= tx[s].amount
    BY <1>g, <2>1 DEF PaymentFits, Transactions
  <2>3. row \in AccountRows /\ e \in EntryRows /\ row.exists /\ RowBalances(row, e)
    BY <1>f, <2>2, CostKeepsBalance
  <2>4. entries' = [entries EXCEPT ![from] = e]
    BY <1>t, <2>1
  <2> HIDE DEF row, e, from
  <2>5. /\ account' \in [Payers -> AccountRows] /\ account'[from] = row
        /\ \A b \in Payers : b # from => account'[b] = account[b]
        /\ entries' \in [Payers -> EntryRows] /\ entries'[from] = e
        /\ \A b \in Payers : b # from => entries'[b] = entries[b]
    BY <1>t, <2>1, <2>2, <2>3, <2>4
  <2>6. /\ \A b \in Payers : RowBalances(account'[b], entries'[b])
        /\ \A b \in Payers : account[b].exists => account'[b].exists
    BY <1>f, <2>3, <2>5
  <2>7. \A b \in Payers : b \notin tx[s].holds => account[b].balance <= account'[b].balance
    BY <1>f, <2>2, <2>5 DEF AccountRows
  <2>8. PaymentFits(NoTx, account')
    BY DEF PaymentFits, NoTx
  <2> QED
    BY <1>t, <1>n, <2>1, <2>5, <2>6, <2>7, <2>8, ClientStep
<1>6. ASSUME NEW s \in Sessions, CommitTransfer(s) PROVE AccountInv'
  <2> DEFINE from == tx[s].from
             to == tx[s].to
             sum == tx[s].amount
             paid == Debited(account[from], sum, FALSE)
             gained == Credited(account[to], sum)
             e == [entries[from] EXCEPT !.transfer = @ - sum]
             f == [entries[to] EXCEPT !.transfer = @ + sum]
  <2>1. /\ tx[s].step = "commit" /\ to # Payday /\ Becomes(s, NoTx)
        /\ account' = [account EXCEPT ![from] = paid, ![to] = Credited(@, sum)]
        /\ entries' = [entries EXCEPT ![from].transfer = @ - sum, ![to].transfer = @ + sum]
    BY <1>6 DEF CommitTransfer, Within, Over
  <2>2. /\ from \in Payers /\ from \in tx[s].holds /\ account[from].exists
        /\ account[from].balance >= sum /\ sum \in Nat
        /\ to \in Payers /\ account[to].exists /\ to # from
    BY <1>g, <2>1 DEF PaymentFits, Transactions
  <2>3. paid \in AccountRows /\ e \in EntryRows /\ paid.exists /\ RowBalances(paid, e)
    BY <1>f, <2>2, TransferKeepsBalance
  <2>4. /\ gained \in AccountRows /\ f \in EntryRows /\ gained.exists /\ RowBalances(gained, f)
        /\ account[to].balance <= gained.balance
    BY <1>f, <2>2, CreditKeepsBalance
  <2>5. account' = [[account EXCEPT ![from] = paid] EXCEPT ![to] = gained]
    BY <1>t, <2>1, <2>2
  <2>6. entries' = [[entries EXCEPT ![from] = e] EXCEPT ![to] = f]
    BY <1>t, <2>1, <2>2
  <2> HIDE DEF paid, gained, e, f, to, from, sum
  <2>7. /\ account' \in [Payers -> AccountRows] /\ account'[from] = paid /\ account'[to] = gained
        /\ \A b \in Payers : b # from /\ b # to => account'[b] = account[b]
    BY <1>t, <2>2, <2>3, <2>4, <2>5
  <2>8. /\ entries' \in [Payers -> EntryRows] /\ entries'[from] = e /\ entries'[to] = f
        /\ \A b \in Payers : b # from /\ b # to => entries'[b] = entries[b]
    BY <1>t, <2>2, <2>3, <2>4, <2>6
  <2>9. /\ \A b \in Payers : RowBalances(account'[b], entries'[b])
        /\ \A b \in Payers : account[b].exists => account'[b].exists
    BY <1>f, <2>3, <2>4, <2>7, <2>8
  <2>10. \A b \in Payers : b \notin tx[s].holds => account[b].balance <= account'[b].balance
    <3>1. \A b \in Payers : account[b].balance <= account[b].balance
      BY <1>f DEF AccountRows
    <3> QED
      BY <2>2, <2>4, <2>7, <3>1
  <2>11. PaymentFits(NoTx, account')
    BY DEF PaymentFits, NoTx
  <2> QED
    BY <1>t, <1>n, <2>1, <2>7, <2>8, <2>9, <2>10, <2>11, ClientStep
<1>w. ASSUME NEW s \in Transactions, NEW t \in NextRow(s), WeekFits([s EXCEPT !.step = "none"], account),
             Locks(Payday, s), Becomes(Payday, t), UNCHANGED <<account, entries>>
      PROVE  AccountInv'
  <2>1. s.holds \subseteq Payers /\ s.todo \subseteq Payers
    BY DEF Transactions
  <2>2. \A b \in s.holds \cup s.todo : account[b].exists
    BY <1>w DEF WeekFits, Transactions
  <2>3. CASE s.todo = {}
    <3>1. t = [s EXCEPT !.step = "commit", !.row = Payday]
      BY <1>w, <2>3 DEF NextRow
    <3>2. t \in Transactions /\ t.step = "commit" /\ t.holds = s.holds /\ t.todo = s.todo
      BY <1>t, <3>1 DEF Transactions
    <3>3. WeekFits(t, account) /\ Locks(Payday, t)
      BY <1>w, <2>2, <3>2 DEF WeekFits, Locks
    <3> QED
      BY <1>t, <1>w, <3>2, <3>3, StatementStep
  <2>4. CASE s.todo # {}
    <3>1. PICK b \in s.todo : t = [s EXCEPT !.step = "pay", !.row = b, !.todo = @ \ {b}]
      BY <1>w, <2>4 DEF NextRow
    <3>2. /\ t \in Transactions /\ t.step = "pay" /\ t.row = b /\ t.holds = s.holds
          /\ t.todo = s.todo \ {b}
      BY <1>t, <2>1, <3>1 DEF Transactions
    <3>3. WeekFits(t, account) /\ Locks(Payday, t)
      BY <1>w, <2>1, <2>2, <3>2 DEF WeekFits, Locks
    <3> QED
      BY <1>t, <1>w, <3>2, <3>3, StatementStep
  <2> QED
    BY <2>3, <2>4
<1>7. CASE BeginWeek
  <2> DEFINE s == [NoTx EXCEPT !.todo = {a \in Payers : account[a].exists}]
  <2>1. PICK t \in NextRow(s) : Becomes(Payday, t)
    BY <1>7 DEF BeginWeek
  <2>2. NoTx.holds = {} /\ NoTx.step = "none"
    BY DEF NoTx
  <2>3. /\ s \in Transactions /\ s.holds = {} /\ s.todo = {a \in Payers : account[a].exists}
    BY <1>n, <2>2 DEF Transactions
  <2> HIDE DEF s
  <2>4. WeekFits([s EXCEPT !.step = "none"], account) /\ Locks(Payday, s)
    BY <2>3 DEF WeekFits, Transactions, Locks
  <2>5. UNCHANGED <<account, entries>>
    BY <1>7 DEF BeginWeek
  <2> QED
    BY <1>w, <2>1, <2>3, <2>4, <2>5
<1>8. CASE PayRow
  <2> DEFINE s == [tx[Payday] EXCEPT !.holds = Locked(Payday)]
  <2>1. PICK t \in NextRow(s) : Becomes(Payday, t)
    BY <1>8 DEF PayRow
  <2>2. tx[Payday].step = "pay" /\ RowFree(Payday) /\ UNCHANGED <<account, entries>>
    BY <1>8 DEF PayRow, Within
  <2>3. WeekFits(tx[Payday], account) /\ tx[Payday] \in Transactions
    BY <1>t DEF AccountInv
  <2>4. Locked(Payday) \subseteq Payers /\ \A b \in Locked(Payday) \cup tx[Payday].todo : account[b].exists
    BY <2>2, <2>3 DEF WeekFits, Locked, Transactions
  <2>5. s \in Transactions /\ s.holds = Locked(Payday) /\ s.todo = tx[Payday].todo
    BY <2>3, <2>4 DEF Transactions
  <2> HIDE DEF s
  <2>6. WeekFits([s EXCEPT !.step = "none"], account) /\ Locks(Payday, s)
    BY <2>2, <2>4, <2>5 DEF WeekFits, Transactions, Locks
  <2> QED
    BY <1>w, <2>1, <2>2, <2>5, <2>6
<1>9. CASE CommitWeek
  <2> DEFINE paid == tx[Payday].holds
  <2>1. /\ Becomes(Payday, NoTx)
        /\ account' = [a \in Payers |-> IF a \in paid THEN Credited(account[a], Share) ELSE account[a]]
        /\ entries' = [a \in Payers |-> IF a \in paid THEN [entries[a] EXCEPT !.allocation = @ + Share]
                                        ELSE entries[a]]
    BY <1>9 DEF CommitWeek, Over
  <2>2. \A b \in paid : account[b].exists
    BY DEF AccountInv, WeekFits
  <2> HIDE DEF paid
  <2>3. ASSUME NEW b \in Payers
        PROVE  /\ account'[b] \in AccountRows /\ entries'[b] \in EntryRows
               /\ RowBalances(account'[b], entries'[b])
               /\ account[b].exists => account'[b].exists
               /\ account[b].balance <= account'[b].balance
    <3>1. CASE b \in paid
      <4>1. account'[b] = Credited(account[b], Share) /\ entries'[b] = [entries[b] EXCEPT !.allocation = @ + Share]
        BY <2>1, <3>1
      <4>2. Share \in Nat
        BY AccountAssumption
      <4>3. /\ account[b] \in AccountRows /\ entries[b] \in EntryRows /\ account[b].exists
            /\ RowBalances(account[b], entries[b])
        BY <1>f, <2>2, <3>1
      <4>4. /\ Credited(account[b], Share) \in AccountRows /\ Credited(account[b], Share).exists
            /\ [entries[b] EXCEPT !.allocation = @ + Share] \in EntryRows
            /\ account[b].balance <= Credited(account[b], Share).balance
            /\ RowBalances(Credited(account[b], Share), [entries[b] EXCEPT !.allocation = @ + Share])
        BY <4>2, <4>3, CreditKeepsBalance
      <4> QED
        BY <4>1, <4>4
    <3>2. CASE b \notin paid
      <4>1. account'[b] = account[b] /\ entries'[b] = entries[b]
        BY <2>1, <3>2
      <4>2. account[b].balance <= account[b].balance
        BY <1>f DEF AccountRows
      <4> QED
        BY <1>f, <4>1, <4>2
    <3> QED
      BY <3>1, <3>2
  <2>4. account' \in [Payers -> AccountRows] /\ entries' \in [Payers -> EntryRows]
    <3>1. account' = [b \in Payers |-> account'[b]] /\ entries' = [b \in Payers |-> entries'[b]]
      BY <2>1
    <3> QED
      BY <2>3, <3>1
  <2>5. WeekFits(NoTx, account')
    BY DEF WeekFits, NoTx
  <2> QED
    BY <1>t, <1>n, <2>1, <2>3, <2>4, <2>5, ClientStep
<1>10. ASSUME NEW c \in Clients, Abort(c) \/ DeadlockVictim(c) PROVE AccountInv'
  <2>1. Over(c) /\ UNCHANGED <<account, entries>>
    BY <1>10 DEF Abort, DeadlockVictim
  <2> QED
    BY <1>o, <2>1
<1>11. CASE UNCHANGED accountVars
  BY <1>11 DEF accountVars, AccountInv, LocksApart
<1> QED
  BY <1>1, <1>2, <1>3, <1>4, <1>5, <1>6, <1>7, <1>8, <1>9, <1>10, <1>11 DEF AccountNext, Pays, PaysWeek

LEMMA AccountInvHolds == AccountSpec => []AccountInv
<1> QED
  BY AccountStart, AccountKept, PTL DEF AccountSpec

(* Money is neither made nor lost: whatever payments overlap, are rolled   *)
(* back or are the victims of a deadlock, no account is overdrawn, and     *)
(* every balance is what its totals and its transactions say.              *)
THEOREM BalancesAreKept == AccountSpec => []AccountsBalance
<1>1. AccountInv => AccountsBalance
  BY DEF AccountInv, RowBalances, AccountsBalance
<1> QED
  BY <1>1, AccountInvHolds, PTL

(* No row of an account is locked by two transactions at once, whatever    *)
(* payments and weekly allocations overlap.                                *)
THEOREM AccountTypesCorrect == AccountSpec => []AccountTypeOK
<1>1. AccountInv => AccountTypeOK
  BY DEF AccountInv, LocksApart, AccountTypeOK, AccountRows, Transactions
<1> QED
  BY <1>1, AccountInvHolds, PTL

-----------------------------------------------------------------------------
(* The queue in front of the model.                                        *)
BusySteps == {"starting", "forwarding", "completing", "failing", "closing", "dying"}
CountedSteps == {"completing", "failing", "closing", "dying"}
WorkerSteps == BusySteps \cup {"getting", "lost", "dead", "stopped"}

WorkerRows == [step : WorkerSteps, jobs : SUBSET ProxyJobs, attempt : Nat]
ProxyCounts == [{"enqueued", "running", "completed", "failed"} -> Nat]
HandlerSteps == {"new", "announcing", "waiting", "answered", "dropped"}

At(ws, steps) == {w \in Workers : ws[w].step \in steps}
AnsweredIn(h) == {j \in ProxyJobs : h[j] = "answered"}

ProxyTypes ==
    /\ queued \subseteq ProxyJobs
    /\ handler \in [ProxyJobs -> HandlerSteps]
    /\ worker \in [Workers -> WorkerRows]
    /\ stats \in [{"enqueued", "running", "completed", "failed"} -> Nat]
    /\ writeErrors \in Nat

(* A worker at work, or lost, has one job, and any other has none.         *)
OneJob(c) ==
    /\ c.step \in BusySteps \cup {"lost"} => \E j \in ProxyJobs : c.jobs = {j}
    /\ c.step \notin BusySteps \cup {"lost"} => c.jobs = {}

(* Who waits is in one place.                                              *)
InOnePlace(q, ws, h) ==
    /\ \A j \in ProxyJobs : h[j] = "waiting" <=> j \in q \/ \E w \in Workers : j \in ws[w].jobs
    /\ \A w \in Workers : ws[w].jobs \cap q = {}
    /\ \A v, w \in Workers : v # w => ws[v].jobs \cap ws[w].jobs = {}

Done(h, ws) == Cardinality(AnsweredIn(h)) + Cardinality(At(ws, CountedSteps))

CountsFit(st, h, ws, errors) ==
    /\ st["running"] = Cardinality(At(ws, BusySteps \cup {"lost"}))
    /\ Done(h, ws) <= st["completed"] + st["failed"]
    /\ st["completed"] + st["failed"] <= Done(h, ws) + errors

ProxyInv ==
    /\ ProxyTypes
    /\ \A w \in Workers : OneJob(worker[w])
    /\ InOnePlace(queued, worker, handler)
    /\ CountsFit(stats, handler, worker, writeErrors)

LEMMA AtIsFinite == ASSUME NEW ws, NEW steps PROVE IsFiniteSet(At(ws, steps)) /\ Cardinality(At(ws, steps)) \in Nat
<1>1. At(ws, steps) \in SUBSET Workers
  BY DEF At
<1>2. IsFiniteSet(At(ws, steps))
  BY <1>1, ProxyAssumption, FS_Subset
<1> QED
  BY <1>2, FS_CardinalityType

(* One worker moves.                                                       *)
LEMMA OneMoves ==
    ASSUME NEW ws, NEW xs, NEW steps, NEW w \in Workers,
           \A v \in Workers : v # w => xs[v].step = ws[v].step
    PROVE  /\ (ws[w].step \in steps <=> xs[w].step \in steps) =>
                  Cardinality(At(xs, steps)) = Cardinality(At(ws, steps))
           /\ ws[w].step \notin steps /\ xs[w].step \in steps =>
                  Cardinality(At(xs, steps)) = Cardinality(At(ws, steps)) + 1
           /\ ws[w].step \in steps /\ xs[w].step \notin steps =>
                  Cardinality(At(ws, steps)) = Cardinality(At(xs, steps)) + 1
<1> DEFINE A == At(ws, steps)
           B == At(xs, steps)
<1>1. IsFiniteSet(A) /\ IsFiniteSet(B)
  BY AtIsFinite
<1>2. ASSUME ws[w].step \in steps <=> xs[w].step \in steps PROVE A = B
  BY <1>2 DEF At
<1>3. ASSUME ws[w].step \notin steps, xs[w].step \in steps PROVE B = A \cup {w} /\ w \notin A
  BY <1>3 DEF At
<1>4. ASSUME ws[w].step \in steps, xs[w].step \notin steps PROVE A = B \cup {w} /\ w \notin B
  BY <1>4 DEF At
<1> HIDE DEF A, B
<1>5. ASSUME NEW S, NEW T, IsFiniteSet(S), T = S \cup {w}, w \notin S
      PROVE  Cardinality(T) = Cardinality(S) + 1
  BY <1>5, FS_AddElement
<1>6. ws[w].step \notin steps /\ xs[w].step \in steps => Cardinality(B) = Cardinality(A) + 1
  BY <1>1, <1>3, <1>5
<1>7. ws[w].step \in steps /\ xs[w].step \notin steps => Cardinality(A) = Cardinality(B) + 1
  BY <1>1, <1>4, <1>5
<1>8. (ws[w].step \in steps <=> xs[w].step \in steps) => Cardinality(B) = Cardinality(A)
  BY <1>2
<1> QED
  BY <1>6, <1>7, <1>8 DEF A, B

LEMMA ProxyStart == ProxyInit => ProxyInv
<1> SUFFICES ASSUME ProxyInit PROVE ProxyInv
  OBVIOUS
<1>1. Getting \in WorkerRows /\ Getting.step = "getting" /\ Getting.jobs = {}
  BY DEF Getting, WorkerRows, WorkerSteps
<1>2. \A w \in Workers : worker[w] = Getting
  BY DEF ProxyInit
<1>3. ProxyTypes
  <2>1. stats \in [{"enqueued", "running", "completed", "failed"} -> Nat]
    BY DEF ProxyInit
  <2> QED
    BY <1>1, <2>1 DEF ProxyInit, ProxyTypes, HandlerSteps
<1>4. \A w \in Workers : OneJob(worker[w])
  BY <1>1, <1>2 DEF OneJob, BusySteps
<1>5. InOnePlace(queued, worker, handler)
  BY <1>1, <1>2 DEF InOnePlace, ProxyInit
<1>6. /\ At(worker, BusySteps \cup {"lost"}) = {} /\ At(worker, CountedSteps) = {}
      /\ AnsweredIn(handler) = {}
  BY <1>1, <1>2 DEF At, BusySteps, CountedSteps, AnsweredIn, ProxyInit
<1>7. CountsFit(stats, handler, worker, writeErrors)
  <2>1. /\ stats["running"] = 0 /\ stats["completed"] = 0 /\ stats["failed"] = 0 /\ writeErrors = 0
    BY DEF ProxyInit
  <2>2. Cardinality({}) = 0
    BY FS_EmptySet
  <2> QED
    BY <1>6, <2>1, <2>2 DEF CountsFit, Done
<1> QED
  BY <1>3, <1>4, <1>5, <1>7 DEF ProxyInv

LEMMA DoneIsNat == ASSUME NEW h, NEW ws PROVE Done(h, ws) \in Nat /\ Cardinality(AnsweredIn(h)) \in Nat
<1>1. AnsweredIn(h) \in SUBSET ProxyJobs
  BY DEF AnsweredIn
<1>2. IsFiniteSet(AnsweredIn(h))
  BY <1>1, ProxyAssumption, FS_Subset
<1>3. Cardinality(AnsweredIn(h)) \in Nat
  BY <1>2, FS_CardinalityType
<1>4. Cardinality(At(ws, CountedSteps)) \in Nat
  BY AtIsFinite
<1> QED
  BY <1>3, <1>4 DEF Done

(* A worker goes on with its job.                                          *)
LEMMA SameJob ==
    ASSUME ProxyInv, NEW w \in Workers, NEW c \in WorkerRows, worker' = [worker EXCEPT ![w] = c],
           c.jobs = worker[w].jobs,
           worker[w].step \in BusySteps \cup {"lost"}, c.step \in BusySteps \cup {"lost"},
           worker[w].step \in CountedSteps => c.step \in CountedSteps,
           UNCHANGED <<queued, handler>>,
           stats' \in ProxyCounts, stats'["running"] = stats["running"],
           writeErrors' \in Nat,
           worker[w].step \in CountedSteps \/ c.step \notin CountedSteps =>
               /\ stats["completed"] + stats["failed"] <= stats'["completed"] + stats'["failed"]
               /\ stats'["completed"] + stats'["failed"] + writeErrors
                      <= stats["completed"] + stats["failed"] + writeErrors',
           worker[w].step \notin CountedSteps /\ c.step \in CountedSteps =>
               /\ stats'["completed"] + stats'["failed"] = stats["completed"] + stats["failed"] + 1
               /\ writeErrors <= writeErrors'
    PROVE  ProxyInv'
<1>1. /\ worker \in [Workers -> WorkerRows] /\ worker' \in [Workers -> WorkerRows] /\ worker'[w] = c
      /\ \A v \in Workers : v # w => worker'[v] = worker[v]
  BY DEF ProxyInv, ProxyTypes
<1>2. ProxyTypes'
  BY <1>1 DEF ProxyInv, ProxyTypes, ProxyCounts
<1>3. ASSUME NEW v \in Workers PROVE OneJob(worker'[v])
  BY <1>1 DEF ProxyInv, OneJob
<1>4. \A v \in Workers : worker'[v].jobs = worker[v].jobs
  BY <1>1
<1>5. InOnePlace(queued', worker', handler')
  BY <1>4 DEF ProxyInv, InOnePlace
<1> DEFINE xs == [worker EXCEPT ![w] = c]
<1>o. \A v \in Workers : v # w => xs[v].step = worker[v].step
  BY <1>1
<1>p. xs[w].step = c.step /\ worker' = xs
  BY <1>1
<1> HIDE DEF xs
<1>m. ASSUME NEW steps
      PROVE  /\ (worker[w].step \in steps <=> xs[w].step \in steps) =>
                    Cardinality(At(xs, steps)) = Cardinality(At(worker, steps))
             /\ worker[w].step \notin steps /\ xs[w].step \in steps =>
                    Cardinality(At(xs, steps)) = Cardinality(At(worker, steps)) + 1
  BY <1>o, OneMoves, SMTT(30)
<1>6. Cardinality(At(xs, BusySteps \cup {"lost"})) = Cardinality(At(worker, BusySteps \cup {"lost"}))
  BY <1>m, <1>p
<1>7. CountsFit(stats', handler', worker', writeErrors')
  <2> DEFINE new == IF worker[w].step \notin CountedSteps /\ c.step \in CountedSteps THEN 1 ELSE 0
             n == Cardinality(At(worker, CountedSteps))
             m == Cardinality(At(xs, CountedSteps))
             k == Cardinality(AnsweredIn(handler))
  <2>1. m = n + new
    <3>1. /\ (worker[w].step \in CountedSteps <=> xs[w].step \in CountedSteps) => m = n
          /\ worker[w].step \notin CountedSteps /\ xs[w].step \in CountedSteps => m = n + 1
      BY <1>m
    <3>2. n \in Nat
      BY AtIsFinite
    <3> QED
      BY <1>p, <3>1, <3>2
  <2>2. /\ k + n <= stats["completed"] + stats["failed"]
        /\ stats["completed"] + stats["failed"] <= k + n + writeErrors
        /\ stats["running"] = Cardinality(At(worker, BusySteps \cup {"lost"}))
    BY DEF ProxyInv, CountsFit, Done
  <2>3. /\ n \in Nat /\ k \in Nat /\ new \in {0, 1}
        /\ stats["completed"] \in Nat /\ stats["failed"] \in Nat
        /\ stats'["completed"] \in Nat /\ stats'["failed"] \in Nat
        /\ writeErrors \in Nat /\ writeErrors' \in Nat
    <3>1. k \in Nat /\ n \in Nat
      BY DoneIsNat, AtIsFinite
    <3> QED
      BY <3>1 DEF ProxyInv, ProxyTypes, ProxyCounts
  <2>4. /\ stats["completed"] + stats["failed"] + new <= stats'["completed"] + stats'["failed"]
        /\ stats'["completed"] + stats'["failed"] + writeErrors
               <= stats["completed"] + stats["failed"] + new + writeErrors'
    BY <2>3
  <2> HIDE DEF new, n, m, k
  <2>5. /\ k + m <= stats'["completed"] + stats'["failed"]
        /\ stats'["completed"] + stats'["failed"] <= k + m + writeErrors'
    BY <2>1, <2>2, <2>3, <2>4
  <2> QED
    BY <1>6, <1>p, <2>2, <2>5 DEF CountsFit, Done, m, k
<1> QED
  BY <1>2, <1>3, <1>5, <1>7 DEF ProxyInv

(* What the counters become.                                               *)
LEMMA CountsUp ==
    ASSUME stats \in ProxyCounts, NEW names, Counts(names)
    PROVE  /\ stats' \in ProxyCounts
           /\ \A n \in {"enqueued", "running", "completed", "failed"} :
                 stats'[n] = IF n \in names THEN stats[n] + 1 ELSE stats[n]
<1>1. stats' = [n \in {"enqueued", "running", "completed", "failed"} |->
                   IF n \in names THEN stats[n] + 1 ELSE stats[n]]
  BY DEF Counts, ProxyCounts
<1>2. \A n \in {"enqueued", "running", "completed", "failed"} : stats[n] \in Nat
  BY DEF ProxyCounts
<1> QED
  BY <1>1, <1>2 DEF ProxyCounts

(* A job moves before or after its time with a worker.                     *)
LEMMA HandlerMoves ==
    ASSUME ProxyInv, NEW j \in ProxyJobs, NEW step \in HandlerSteps, step # "answered",
           handler[j] \in {"new", "announcing"},
           handler' = [handler EXCEPT ![j] = step],
           step = "waiting" => queued' = queued \cup {j}, step # "waiting" => queued' = queued,
           worker' = worker, stats' \in ProxyCounts, writeErrors' \in Nat, writeErrors <= writeErrors',
           \A n \in {"running", "completed", "failed"} : stats'[n] = stats[n]
    PROVE  ProxyInv'
<1>1. /\ handler \in [ProxyJobs -> HandlerSteps] /\ handler' \in [ProxyJobs -> HandlerSteps]
      /\ handler'[j] = step /\ \A i \in ProxyJobs : i # j => handler'[i] = handler[i]
  BY DEF ProxyInv, ProxyTypes
<1>2. ProxyTypes'
  BY <1>1 DEF ProxyInv, ProxyTypes, ProxyCounts
<1>3. AnsweredIn(handler') = AnsweredIn(handler)
  BY <1>1 DEF AnsweredIn
<1>4. CountsFit(stats', handler', worker', writeErrors')
  <2>1. Done(handler', worker') = Done(handler, worker)
    BY <1>3 DEF Done
  <2>2. writeErrors \in Nat /\ stats["completed"] \in Nat /\ stats["failed"] \in Nat
    BY DEF ProxyInv, ProxyTypes
  <2>3. Done(handler, worker) \in Nat
    BY DoneIsNat
  <2> QED
    BY <2>1, <2>2, <2>3 DEF ProxyInv, CountsFit
<1>5. InOnePlace(queued', worker', handler')
  <2>1. handler[j] # "waiting"
    OBVIOUS
  <2>2. j \notin queued /\ \A w \in Workers : j \notin worker[w].jobs
    BY <2>1 DEF ProxyInv, InOnePlace
  <2> QED
    BY <1>1, <2>2 DEF ProxyInv, InOnePlace
<1> QED
  BY <1>2, <1>4, <1>5 DEF ProxyInv

LEMMA JobTaken ==
    ASSUME ProxyInv, NEW w \in Workers, NEW j \in queued, worker[w].step = "getting",
           queued' = queued \ {j},
           worker' = [worker EXCEPT ![w] = [step |-> "starting", jobs |-> {j}, attempt |-> 0]],
           Counts({"running"}), UNCHANGED <<handler, writeErrors>>
    PROVE  ProxyInv'
<1> DEFINE c == [step |-> "starting", jobs |-> {j}, attempt |-> 0]
           xs == [worker EXCEPT ![w] = c]
<1>t. /\ queued \subseteq ProxyJobs /\ worker \in [Workers -> WorkerRows]
      /\ stats \in ProxyCounts /\ writeErrors \in Nat
  BY DEF ProxyInv, ProxyTypes, ProxyCounts
<1>1. c \in WorkerRows /\ c.step = "starting" /\ c.jobs = {j} /\ j \in ProxyJobs
  BY <1>t DEF WorkerRows, WorkerSteps, BusySteps
<1> HIDE DEF c
<1>2. /\ xs \in [Workers -> WorkerRows] /\ xs[w] = c
      /\ \A v \in Workers : v # w => xs[v] = worker[v]
  BY <1>t, <1>1
<1>3. worker' = xs
  BY DEF c
<1> HIDE DEF xs
<1>4. /\ stats' \in ProxyCounts /\ stats'["running"] = stats["running"] + 1
      /\ stats'["completed"] = stats["completed"] /\ stats'["failed"] = stats["failed"]
  BY <1>t, CountsUp
<1>5. ProxyTypes'
  BY <1>2, <1>3, <1>4 DEF ProxyInv, ProxyTypes, ProxyCounts
<1>6. ASSUME NEW v \in Workers PROVE OneJob(worker'[v])
  BY <1>1, <1>2, <1>3 DEF ProxyInv, OneJob, BusySteps
<1>7. worker[w].jobs = {}
  BY DEF ProxyInv, OneJob, BusySteps
<1>8. \A v \in Workers : v # w => j \notin worker[v].jobs
  BY DEF ProxyInv, InOnePlace
<1>9. InOnePlace(queued', worker', handler')
  <2>1. ASSUME NEW i \in ProxyJobs
        PROVE  handler[i] = "waiting" <=> i \in queued \ {j} \/ \E v \in Workers : i \in xs[v].jobs
    <3>1. handler[i] = "waiting" <=> i \in queued \/ \E v \in Workers : i \in worker[v].jobs
      BY DEF ProxyInv, InOnePlace
    <3>2. (\E v \in Workers : i \in xs[v].jobs) <=> i = j \/ \E v \in Workers : i \in worker[v].jobs
      BY <1>1, <1>2, <1>7
    <3> QED
      BY <3>1, <3>2
  <2>2. ASSUME NEW v \in Workers PROVE xs[v].jobs \cap (queued \ {j}) = {}
    BY <1>1, <1>2 DEF ProxyInv, InOnePlace
  <2>3. ASSUME NEW u \in Workers, NEW v \in Workers, u # v PROVE xs[u].jobs \cap xs[v].jobs = {}
    <3>1. worker[u].jobs \cap worker[v].jobs = {}
      BY <2>3 DEF ProxyInv, InOnePlace
    <3> QED
      BY <1>1, <1>2, <1>8, <2>3, <3>1
  <2> QED
    BY <1>3, <2>1, <2>2, <2>3 DEF InOnePlace
<1>10. CountsFit(stats', handler', worker', writeErrors')
  <2>o. \A v \in Workers : v # w => xs[v].step = worker[v].step
    BY <1>2
  <2>m. ASSUME NEW steps
        PROVE  /\ (worker[w].step \in steps <=> xs[w].step \in steps) =>
                      Cardinality(At(xs, steps)) = Cardinality(At(worker, steps))
               /\ worker[w].step \notin steps /\ xs[w].step \in steps =>
                      Cardinality(At(xs, steps)) = Cardinality(At(worker, steps)) + 1
    BY <2>o, OneMoves
  <2>1. xs[w].step = "starting"
    BY <1>1, <1>2
  <2>2. Cardinality(At(xs, CountedSteps)) = Cardinality(At(worker, CountedSteps))
    BY <2>m, <2>1 DEF CountedSteps
  <2>3. Cardinality(At(xs, BusySteps \cup {"lost"})) = Cardinality(At(worker, BusySteps \cup {"lost"})) + 1
    BY <2>m, <2>1 DEF BusySteps
  <2>4. Done(handler, xs) = Done(handler, worker)
    BY <2>2 DEF Done
  <2> QED
    BY <1>3, <1>4, <2>3, <2>4 DEF ProxyInv, CountsFit
<1> QED
  BY <1>5, <1>6, <1>9, <1>10 DEF ProxyInv

(* A worker without a job stops.                                           *)
LEMMA WorkerStops ==
    ASSUME ProxyInv, NEW w \in Workers, worker[w].step = "getting",
           worker' = [worker EXCEPT ![w].step = "stopped"],
           UNCHANGED <<queued, handler, stats, writeErrors>>
    PROVE  ProxyInv'
<1> DEFINE xs == [worker EXCEPT ![w].step = "stopped"]
<1>t. worker \in [Workers -> WorkerRows]
  BY DEF ProxyInv, ProxyTypes
<1>1. /\ xs \in [Workers -> WorkerRows] /\ xs[w].step = "stopped" /\ xs[w].jobs = worker[w].jobs
      /\ \A v \in Workers : v # w => xs[v] = worker[v]
  BY <1>t DEF WorkerRows, WorkerSteps
<1>2. worker' = xs
  OBVIOUS
<1> HIDE DEF xs
<1>3. ProxyTypes'
  BY <1>1, <1>2 DEF ProxyInv, ProxyTypes
<1>4. ASSUME NEW v \in Workers PROVE OneJob(worker'[v])
  BY <1>1, <1>2 DEF ProxyInv, OneJob, BusySteps
<1>5. \A v \in Workers : xs[v].jobs = worker[v].jobs
  BY <1>1
<1>6. InOnePlace(queued', worker', handler')
  BY <1>2, <1>5 DEF ProxyInv, InOnePlace
<1>o. \A v \in Workers : v # w => xs[v].step = worker[v].step
  BY <1>1
<1>m. ASSUME NEW steps, "getting" \notin steps, "stopped" \notin steps
      PROVE  Cardinality(At(xs, steps)) = Cardinality(At(worker, steps))
  <2>1. worker[w].step \notin steps /\ xs[w].step \notin steps
    BY <1>1, <1>m
  <2> QED
    BY <1>o, <2>1, OneMoves
<1>7. /\ Cardinality(At(xs, CountedSteps)) = Cardinality(At(worker, CountedSteps))
      /\ Cardinality(At(xs, BusySteps \cup {"lost"})) = Cardinality(At(worker, BusySteps \cup {"lost"}))
  <2>1. "getting" \notin CountedSteps /\ "stopped" \notin CountedSteps
    BY DEF CountedSteps
  <2>2. "getting" \notin BusySteps \cup {"lost"} /\ "stopped" \notin BusySteps \cup {"lost"}
    BY DEF BusySteps
  <2> QED
    BY <1>m, <2>1, <2>2
<1>8. CountsFit(stats', handler', worker', writeErrors')
  BY <1>2, <1>7 DEF ProxyInv, CountsFit, Done
<1> QED
  BY <1>3, <1>4, <1>6, <1>8 DEF ProxyInv

(* The finally of a worker.                                                *)
LEMMA JobAnswered ==
    ASSUME ProxyInv, NEW w \in Workers, Finish(w) PROVE ProxyInv'
<1> DEFINE c == [Getting EXCEPT !.step = IF worker[w].step = "dying" THEN "dead" ELSE "getting"]
           xs == [worker EXCEPT ![w] = c]
           hs == [j \in ProxyJobs |-> IF j \in worker[w].jobs THEN "answered" ELSE handler[j]]
<1>t. /\ queued \subseteq ProxyJobs /\ worker \in [Workers -> WorkerRows]
      /\ handler \in [ProxyJobs -> HandlerSteps]
      /\ stats \in ProxyCounts /\ writeErrors \in Nat
  BY DEF ProxyInv, ProxyTypes, ProxyCounts
<1>1. /\ worker[w].step \in {"closing", "dying"} /\ handler' = hs /\ worker' = xs
      /\ stats' = [stats EXCEPT !.running = IF @ > 0 THEN @ - 1 ELSE 0]
      /\ UNCHANGED <<queued, writeErrors>>
  BY DEF Finish
<1>2. PICK j \in ProxyJobs : worker[w].jobs = {j}
  BY <1>1 DEF ProxyInv, OneJob, BusySteps
<1>3. c \in WorkerRows /\ c.jobs = {} /\ c.step \in {"getting", "dead"}
  <2>1. Getting \in WorkerRows /\ Getting.jobs = {}
    BY DEF Getting, WorkerRows, WorkerSteps
  <2> QED
    BY <2>1 DEF WorkerRows, WorkerSteps
<1> HIDE DEF c
<1>4. /\ xs \in [Workers -> WorkerRows] /\ xs[w] = c
      /\ \A v \in Workers : v # w => xs[v] = worker[v]
  BY <1>t, <1>3
<1>5. /\ hs \in [ProxyJobs -> HandlerSteps] /\ hs[j] = "answered"
      /\ \A i \in ProxyJobs : i # j => hs[i] = handler[i]
  BY <1>t, <1>2 DEF HandlerSteps
<1> HIDE DEF xs, hs
<1>6. handler[j] = "waiting" /\ j \notin queued /\ \A v \in Workers : v # w => j \notin worker[v].jobs
  BY <1>2 DEF ProxyInv, InOnePlace
<1>o. \A v \in Workers : v # w => xs[v].step = worker[v].step
  BY <1>4
<1>m. ASSUME NEW steps, worker[w].step \in steps, xs[w].step \notin steps
      PROVE  Cardinality(At(worker, steps)) = Cardinality(At(xs, steps)) + 1
  BY <1>o, <1>m, OneMoves
<1>7. /\ Cardinality(At(worker, CountedSteps)) = Cardinality(At(xs, CountedSteps)) + 1
      /\ Cardinality(At(worker, BusySteps \cup {"lost"})) = Cardinality(At(xs, BusySteps \cup {"lost"})) + 1
  <2>1. worker[w].step \in CountedSteps /\ xs[w].step \notin CountedSteps
    BY <1>1, <1>3, <1>4 DEF CountedSteps
  <2>2. worker[w].step \in BusySteps \cup {"lost"} /\ xs[w].step \notin BusySteps \cup {"lost"}
    BY <1>1, <1>3, <1>4 DEF BusySteps
  <2> QED
    BY <1>m, <2>1, <2>2
<1>8. Cardinality(AnsweredIn(hs)) = Cardinality(AnsweredIn(handler)) + 1
  <2>1. AnsweredIn(hs) = AnsweredIn(handler) \cup {j} /\ j \notin AnsweredIn(handler)
    BY <1>5, <1>6 DEF AnsweredIn
  <2>2. AnsweredIn(handler) \in SUBSET ProxyJobs
    BY DEF AnsweredIn
  <2>3. IsFiniteSet(AnsweredIn(handler))
    BY <2>2, ProxyAssumption, FS_Subset
  <2> QED
    BY <2>1, <2>3, FS_AddElement
<1>9. /\ stats' \in ProxyCounts /\ stats'["completed"] = stats["completed"]
      /\ stats'["failed"] = stats["failed"]
      /\ stats'["running"] = Cardinality(At(xs, BusySteps \cup {"lost"}))
  <2>1. /\ stats["running"] = Cardinality(At(xs, BusySteps \cup {"lost"})) + 1
        /\ Cardinality(At(xs, BusySteps \cup {"lost"})) \in Nat
    BY <1>7, AtIsFinite DEF ProxyInv, CountsFit
  <2>2. stats["running"] \in Nat /\ stats["running"] > 0
    BY <2>1
  <2>3. stats' = [stats EXCEPT !["running"] = stats["running"] - 1]
    BY <1>t, <1>1, <2>2 DEF ProxyCounts
  <2>4. stats["running"] - 1 \in Nat /\ stats["running"] - 1 = Cardinality(At(xs, BusySteps \cup {"lost"}))
    BY <2>1
  <2> QED
    BY <1>t, <2>3, <2>4 DEF ProxyCounts
<1>10. ProxyTypes'
  BY <1>1, <1>4, <1>5, <1>9 DEF ProxyInv, ProxyTypes, ProxyCounts
<1>11. ASSUME NEW v \in Workers PROVE OneJob(worker'[v])
  BY <1>1, <1>3, <1>4 DEF ProxyInv, OneJob, BusySteps
<1>12. InOnePlace(queued', worker', handler')
  <2>1. ASSUME NEW i \in ProxyJobs
        PROVE  hs[i] = "waiting" <=> i \in queued \/ \E v \in Workers : i \in xs[v].jobs
    <3>1. handler[i] = "waiting" <=> i \in queued \/ \E v \in Workers : i \in worker[v].jobs
      BY DEF ProxyInv, InOnePlace
    <3>2. i # j => ((\E v \in Workers : i \in xs[v].jobs) <=> \E v \in Workers : i \in worker[v].jobs)
      BY <1>2, <1>3, <1>4
    <3>3. \A v \in Workers : j \notin xs[v].jobs
      BY <1>3, <1>4, <1>6
    <3> QED
      BY <1>5, <1>6, <3>1, <3>2, <3>3
  <2>2. ASSUME NEW v \in Workers PROVE xs[v].jobs \subseteq worker[v].jobs
    BY <1>3, <1>4
  <2>3. \A v \in Workers : xs[v].jobs \cap queued = {}
    BY <2>2 DEF ProxyInv, InOnePlace
  <2>4. \A u, v \in Workers : u # v => xs[u].jobs \cap xs[v].jobs = {}
    BY <2>2 DEF ProxyInv, InOnePlace
  <2> QED
    BY <1>1, <2>1, <2>3, <2>4 DEF InOnePlace
<1>13. CountsFit(stats', handler', worker', writeErrors')
  <2>1. Done(hs, xs) = Done(handler, worker)
    <3>1. /\ Cardinality(AnsweredIn(handler)) \in Nat /\ Cardinality(At(xs, CountedSteps)) \in Nat
      BY DoneIsNat, AtIsFinite
    <3> QED
      BY <1>7, <1>8, <3>1 DEF Done
  <2> QED
    BY <1>1, <1>9, <2>1 DEF ProxyInv, CountsFit
<1> QED
  BY <1>10, <1>11, <1>12, <1>13 DEF ProxyInv

(* One step per action.                                                    *)
LEMMA ProxyKept == ProxyInv /\ [ProxyNext]_proxyVars => ProxyInv'
<1> SUFFICES ASSUME ProxyInv, [ProxyNext]_proxyVars PROVE ProxyInv'
  OBVIOUS
<1>t. /\ queued \subseteq ProxyJobs /\ worker \in [Workers -> WorkerRows]
      /\ handler \in [ProxyJobs -> HandlerSteps]
      /\ stats \in ProxyCounts /\ writeErrors \in Nat
      /\ stats["completed"] \in Nat /\ stats["failed"] \in Nat
  BY DEF ProxyInv, ProxyTypes, ProxyCounts
<1>e. ASSUME WriteRaises PROVE writeErrors' = writeErrors + 1 /\ writeErrors' \in Nat
  BY <1>t, <1>e DEF WriteRaises
<1>s. ASSUME NEW w \in Workers, NEW s \in WorkerSteps
      PROVE  LET c == [worker[w] EXCEPT !.step = s] IN
             c \in WorkerRows /\ c.step = s /\ c.jobs = worker[w].jobs
  BY <1>t DEF WorkerRows
<1>m. ASSUME NEW w \in Workers, NEW s, Moves(w, s)
      PROVE  worker' = [worker EXCEPT ![w] = [worker[w] EXCEPT !.step = s]]
  BY <1>t, <1>m DEF Moves
<1>1. CASE StopProxy
  BY <1>1 DEF StopProxy, ProxyInv, ProxyTypes
<1>2. ASSUME NEW j \in ProxyJobs, Enqueue(j) PROVE ProxyInv'
  <2>1. /\ stats' \in ProxyCounts /\ \A n \in {"running", "completed", "failed"} : stats'[n] = stats[n]
    BY <1>t, <1>2, CountsUp DEF Enqueue
  <2>2. "announcing" \in HandlerSteps /\ "announcing" \notin {"answered", "waiting"}
    BY DEF HandlerSteps
  <2>3. /\ handler[j] \in {"new", "announcing"} /\ handler' = [handler EXCEPT ![j] = "announcing"]
        /\ queued' = queued /\ worker' = worker
    BY <1>2 DEF Enqueue
  <2>4. writeErrors' \in Nat /\ writeErrors <= writeErrors'
    BY <1>t, <1>2 DEF Enqueue
  <2> QED
    BY <2>1, <2>2, <2>3, <2>4, HandlerMoves
<1>3. ASSUME NEW j \in ProxyJobs, Put(j) PROVE ProxyInv'
  <2>1. "waiting" \in HandlerSteps /\ "waiting" # "answered"
    BY DEF HandlerSteps
  <2>2. /\ handler[j] \in {"new", "announcing"} /\ handler' = [handler EXCEPT ![j] = "waiting"]
        /\ queued' = queued \cup {j} /\ worker' = worker
    BY <1>3 DEF Put
  <2>3. writeErrors' \in Nat /\ writeErrors <= writeErrors'
    BY <1>t, <1>3 DEF Put
  <2>4. /\ stats' \in ProxyCounts
        /\ \A n \in {"running", "completed", "failed"} : stats'[n] = stats[n]
    BY <1>t, <1>3 DEF Put
  <2> QED
    BY <2>1, <2>2, <2>3, <2>4, HandlerMoves
<1>4. ASSUME NEW j \in ProxyJobs, EnqueueFails(j) PROVE ProxyInv'
  <2>1. "dropped" \in HandlerSteps
    BY DEF HandlerSteps
  <2>2. writeErrors' \in Nat /\ writeErrors <= writeErrors'
    BY <1>t, <1>e, <1>4 DEF EnqueueFails
  <2> QED
    BY <1>t, <1>4, <2>1, <2>2, HandlerMoves DEF EnqueueFails
<1>5. ASSUME NEW w \in Workers, Take(w) PROVE ProxyInv'
  <2>1. CASE \E j \in queued : /\ queued' = queued \ {j}
                               /\ worker' = [worker EXCEPT ![w] = [step |-> "starting", jobs |-> {j}, attempt |-> 0]]
                               /\ Counts({"running"})
    BY <1>5, <2>1, JobTaken DEF Take
  <2>2. CASE UNCHANGED <<queued, stats>> /\ Moves(w, "stopped")
    BY <1>5, <2>2, WorkerStops DEF Take, Moves
  <2> QED
    BY <1>5, <2>1, <2>2 DEF Take
<1>6. ASSUME NEW w \in Workers, Started(w) \/ StartedFails(w) PROVE ProxyInv'
  <2>1. PICK s \in {"forwarding", "lost"} :
           /\ worker' = [worker EXCEPT ![w] = [worker[w] EXCEPT !.step = s]]
           /\ worker[w].step = "starting" /\ UNCHANGED <<queued, handler, stats>>
           /\ writeErrors' \in Nat /\ writeErrors <= writeErrors'
    BY <1>t, <1>e, <1>m, <1>6 DEF Started, StartedFails
  <2> DEFINE c == [worker[w] EXCEPT !.step = s]
  <2>2. c \in WorkerRows /\ c.step = s /\ c.jobs = worker[w].jobs
    BY <1>s DEF WorkerSteps, BusySteps
  <2>0. worker' = [worker EXCEPT ![w] = c]
    BY <2>1
  <2> HIDE DEF c
  <2>3. worker[w].step \notin CountedSteps /\ c.step \notin CountedSteps
    BY <2>1, <2>2 DEF CountedSteps
  <2>4. worker[w].step \in BusySteps \cup {"lost"} /\ c.step \in BusySteps \cup {"lost"}
    BY <2>1, <2>2 DEF BusySteps
  <2>5. /\ stats' \in ProxyCounts /\ stats'["running"] = stats["running"]
        /\ stats["completed"] + stats["failed"] <= stats'["completed"] + stats'["failed"]
        /\ stats'["completed"] + stats'["failed"] + writeErrors
               <= stats["completed"] + stats["failed"] + writeErrors'
    BY <1>t, <2>1
  <2> QED
    BY <2>0, <2>1, <2>2, <2>3, <2>4, <2>5, SameJob
<1>7. ASSUME NEW w \in Workers, Retry(w) PROVE ProxyInv'
  <2> DEFINE c == [worker[w] EXCEPT !.attempt = @ + 1]
  <2>1. /\ worker' = [worker EXCEPT ![w] = c] /\ worker[w].step = "forwarding"
        /\ UNCHANGED <<queued, handler, stats, writeErrors>>
    BY <1>t, <1>7 DEF Retry
  <2>2. c \in WorkerRows /\ c.step = worker[w].step /\ c.jobs = worker[w].jobs
    BY <1>t DEF WorkerRows
  <2>0. worker' = [worker EXCEPT ![w] = c]
    BY <2>1
  <2> HIDE DEF c
  <2>3. worker[w].step \notin CountedSteps /\ worker[w].step \in BusySteps \cup {"lost"}
    BY <2>1 DEF CountedSteps, BusySteps
  <2>4. /\ stats' \in ProxyCounts /\ stats'["running"] = stats["running"] /\ writeErrors' \in Nat
        /\ stats["completed"] + stats["failed"] <= stats'["completed"] + stats'["failed"]
        /\ stats'["completed"] + stats'["failed"] + writeErrors
               <= stats["completed"] + stats["failed"] + writeErrors'
    BY <1>t, <2>1
  <2> QED
    BY <2>0, <2>1, <2>2, <2>3, <2>4, SameJob
<1>8. ASSUME NEW w \in Workers, Forwarded(w) \/ ForwardFails(w) PROVE ProxyInv'
  <2>1. PICK s \in {"completing", "failing"}, n \in {"completed", "failed"} :
           /\ worker' = [worker EXCEPT ![w] = [worker[w] EXCEPT !.step = s]] /\ Counts({n})
           /\ worker[w].step = "forwarding" /\ UNCHANGED <<queued, handler, writeErrors>>
    BY <1>m, <1>8 DEF Forwarded, ForwardFails
  <2> DEFINE c == [worker[w] EXCEPT !.step = s]
  <2>2. c \in WorkerRows /\ c.step = s /\ c.jobs = worker[w].jobs
    BY <1>s DEF WorkerSteps, BusySteps
  <2>0. worker' = [worker EXCEPT ![w] = c]
    BY <2>1
  <2> HIDE DEF c
  <2>3. worker[w].step \notin CountedSteps /\ c.step \in CountedSteps
    BY <2>1, <2>2 DEF CountedSteps
  <2>4. worker[w].step \in BusySteps \cup {"lost"} /\ c.step \in BusySteps \cup {"lost"}
    BY <2>1, <2>2 DEF BusySteps
  <2>5. /\ stats' \in ProxyCounts /\ stats'["running"] = stats["running"]
        /\ stats'["completed"] + stats'["failed"] = stats["completed"] + stats["failed"] + 1
    BY <1>t, <2>1, CountsUp
  <2>6. writeErrors' \in Nat /\ writeErrors <= writeErrors'
    BY <1>t, <2>1
  <2>7. worker[w].step \in CountedSteps =>
           /\ stats["completed"] + stats["failed"] <= stats'["completed"] + stats'["failed"]
           /\ stats'["completed"] + stats'["failed"] + writeErrors
                  <= stats["completed"] + stats["failed"] + writeErrors'
    BY <2>3
  <2> QED
    BY <2>0, <2>1, <2>2, <2>3, <2>4, <2>5, <2>6, <2>7, SameJob
<1>9. ASSUME NEW w \in Workers, ReportFails(w) PROVE ProxyInv'
  <2>1. /\ worker' = [worker EXCEPT ![w] = [worker[w] EXCEPT !.step = "failing"]] /\ Counts({"failed"})
        /\ worker[w].step \in {"forwarding", "completing"} /\ UNCHANGED <<queued, handler>>
        /\ writeErrors' = writeErrors + 1 /\ writeErrors' \in Nat
    BY <1>e, <1>m, <1>9 DEF ReportFails
  <2> DEFINE c == [worker[w] EXCEPT !.step = "failing"]
  <2>2. c \in WorkerRows /\ c.step = "failing" /\ c.jobs = worker[w].jobs
    BY <1>s DEF WorkerSteps, BusySteps
  <2>0. worker' = [worker EXCEPT ![w] = c]
    BY <2>1
  <2> HIDE DEF c
  <2>3. c.step \in CountedSteps
    BY <2>2 DEF CountedSteps
  <2>4. worker[w].step \in BusySteps \cup {"lost"} /\ c.step \in BusySteps \cup {"lost"}
    BY <2>1, <2>2 DEF BusySteps
  <2>5. /\ stats' \in ProxyCounts /\ stats'["running"] = stats["running"]
        /\ stats'["completed"] + stats'["failed"] = stats["completed"] + stats["failed"] + 1
    BY <1>t, <2>1, CountsUp
  <2>6. writeErrors' \in Nat /\ writeErrors <= writeErrors'
    BY <1>t, <2>1
  <2>7. worker[w].step \in CountedSteps =>
           /\ stats["completed"] + stats["failed"] <= stats'["completed"] + stats'["failed"]
           /\ stats'["completed"] + stats'["failed"] + writeErrors
                  <= stats["completed"] + stats["failed"] + writeErrors'
    BY <1>t, <2>1, <2>5
  <2> QED
    BY <2>0, <2>1, <2>2, <2>3, <2>4, <2>5, <2>6, <2>7, SameJob
<1>10. ASSUME NEW w \in Workers, Reported(w) \/ FailureReportFails(w) PROVE ProxyInv'
  <2>1. PICK s \in {"closing", "dying"} :
           /\ worker' = [worker EXCEPT ![w] = [worker[w] EXCEPT !.step = s]]
           /\ worker[w].step \in {"completing", "failing"} /\ UNCHANGED <<queued, handler, stats>>
           /\ writeErrors' \in Nat /\ writeErrors <= writeErrors'
    BY <1>t, <1>e, <1>m, <1>10 DEF Reported, FailureReportFails
  <2> DEFINE c == [worker[w] EXCEPT !.step = s]
  <2>2. c \in WorkerRows /\ c.step = s /\ c.jobs = worker[w].jobs
    BY <1>s DEF WorkerSteps, BusySteps
  <2>0. worker' = [worker EXCEPT ![w] = c]
    BY <2>1
  <2> HIDE DEF c
  <2>3. worker[w].step \in CountedSteps /\ c.step \in CountedSteps
    BY <2>1, <2>2 DEF CountedSteps
  <2>4. worker[w].step \in BusySteps \cup {"lost"} /\ c.step \in BusySteps \cup {"lost"}
    BY <2>1, <2>2 DEF BusySteps
  <2>5. /\ stats' \in ProxyCounts /\ stats'["running"] = stats["running"]
        /\ stats["completed"] + stats["failed"] <= stats'["completed"] + stats'["failed"]
        /\ stats'["completed"] + stats'["failed"] + writeErrors
               <= stats["completed"] + stats["failed"] + writeErrors'
    BY <1>t, <2>1
  <2> QED
    BY <2>0, <2>1, <2>2, <2>3, <2>4, <2>5, SameJob
<1>11. CASE UNCHANGED proxyVars
  BY <1>11 DEF proxyVars, ProxyInv, ProxyTypes
<1> QED
  BY <1>1, <1>2, <1>3, <1>4, <1>5, <1>6, <1>7, <1>8, <1>9, <1>10, <1>11, JobAnswered
     DEF ProxyNext, WorkerStep

LEMMA ProxyInvHolds == ProxySpec => []ProxyInv
<1> QED
  BY ProxyStart, ProxyKept, PTL DEF ProxySpec

(* Whatever telemetry writes raise and whatever workers die: a request     *)
(* that waits is in one place, and the counters of the proxy are exact but *)
(* for the writes that raised.                                             *)
THEOREM NoJobIsLost == ProxySpec => []JobsAccounted
<1>1. ProxyInv => JobsAccounted
  <2> SUFFICES ASSUME ProxyInv PROVE JobsAccounted
    OBVIOUS
  <2>t. /\ stats["completed"] \in Nat /\ stats["failed"] \in Nat /\ writeErrors \in Nat
        /\ queued \subseteq ProxyJobs /\ worker \in [Workers -> WorkerRows]
    BY DEF ProxyInv, ProxyTypes
  <2>j. \A w \in Workers : worker[w].jobs \subseteq ProxyJobs
    BY <2>t DEF WorkerRows
  <2>1. RunningIsExact
    <3>1. {w \in Workers : Holding(w)} \cup LostWorkers = At(worker, BusySteps \cup {"lost"})
      BY DEF Holding, LostWorkers, At, BusySteps
    <3> QED
      BY <3>1 DEF RunningIsExact, ProxyInv, CountsFit
  <2>2. {j \in ProxyJobs : handler[j] = "waiting"} = queued \cup UNION {worker[w].jobs : w \in Workers}
    BY <2>t, <2>j DEF ProxyInv, InOnePlace
  <2>3. queued \cap UNION {worker[w].jobs : w \in Workers} = {}
    BY DEF ProxyInv, InOnePlace
  <2>4. \A v, w \in Workers : v # w => worker[v].jobs \cap worker[w].jobs = {}
    BY DEF ProxyInv, InOnePlace
  <2>5. {j \in ProxyJobs : handler[j] = "answered"} = AnsweredIn(handler)
    BY DEF AnsweredIn
  <2>6. {w \in Workers : worker[w].step \in {"completing", "failing", "closing", "dying"}} = At(worker, CountedSteps)
    BY DEF At, CountedSteps
  <2>7. stats["completed"] + stats["failed"] \in Done(handler, worker) .. (Done(handler, worker) + writeErrors)
    <3>1. Done(handler, worker) \in Nat
      BY DoneIsNat
    <3> QED
      BY <2>t, <3>1 DEF ProxyInv, CountsFit
  <2> QED
    BY <2>1, <2>2, <2>3, <2>4, <2>5, <2>6, <2>7 DEF JobsAccounted, Done
<1> QED
  BY <1>1, ProxyInvHolds, PTL

-----------------------------------------------------------------------------
(* The conversation engine.  A review past its screening may still let a   *)
(* line of its agent pass.                                                 *)
MayPass(f) == f.pc = "ask" \/ (f.pc = "done" /\ f.severity = 0)
Passing(rv, a) == {r \in Reviewers : rv[r].agent = a /\ MayPass(rv[r])}

Frames == [pc : {"idle", "screen", "ask", "rejected", "kill", "done", "raised"},
           agent : Agents \cup {Someone}, severity : Severities \cup {0}]

(* Only what is enforced mutes; a reviewer that raised is counted; of a    *)
(* muted agent, the lines spoken since and those that may still pass leave *)
(* the reviewer out that muted it.                                         *)
ReviewInv ==
    /\ review \in [Reviewers -> Frames] /\ late \in [Agents -> Nat] /\ raised \in Nat
    /\ muted \subseteq Agents
    /\ policy # "enforce" => muted = {}
    /\ \A r \in Reviewers :
          review[r].pc \in {"rejected", "kill"} => policy = "enforce" /\ review[r].severity # 0
    /\ \A r \in Reviewers : review[r].pc # "idle" => review[r].agent \in Agents
    /\ raised = 0 => \A r \in Reviewers : review[r].pc # "raised"
    /\ \A a \in Agents \ muted : late[a] = 0
    /\ \A a \in muted : late[a] + Cardinality(Passing(review, a)) + 1 <= Cardinality(Reviewers)

BeforeEnd == {"generate", "review", "next", "log", "end", "close", "off"}
Ending == {"recall", "journal", "record"}

TalkSet == [pc : {"idle"} \cup BeforeEnd \cup Ending, id : Nat, group : SUBSET Agents, turn : Int,
            ticks : Nat, lively : BOOLEAN, line : {"opening", "turn", "closing", "none"},
            who : Agents \cup {Someone}, tries : Nat, rounds : Nat, left : SUBSET Agents,
            skipped : BOOLEAN]

RowSet == [closed : BOOLEAN, count : Int, said : Nat, lost : BOOLEAN,
           recalls : [Agents -> Nat], journals : [Agents -> Nat]]

TalkShape(t) ==
    /\ t.pc = "idle" => t.id = 0
    /\ t.pc \notin {"idle", "off"} => t.id # 0
    /\ t.id # 0 => t.group # {}
    /\ t.pc \in {"generate", "review"} => t.line # "none" /\ t.who \in Agents
    /\ t.pc \in {"recall", "journal"} => t.left # {} /\ t.left \subseteq t.group

Exact(d, n) == d = "phase" \/ n = 0
Base(d, n) == IF d = "phase" THEN 0 ELSE n
Marks(S) == [a \in Agents |-> IF a \in S THEN 1 ELSE 0]

(* The row of a conversation that is over, for a driver and a number of    *)
(* awaits that raised;                                                     *)
OverRow(row, d, n) ==
    /\ Exact(d, n) /\ row.closed => row.count = row.said
    /\ n = 0 => row.closed \/ row.said = 0
    /\ \A a \in Agents : row.recalls[a] <= Base(d, n) + 1 /\ row.journals[a] <= Base(d, n) + 1
    /\ n = 0 /\ row.closed /\ ~row.lost =>
          row.recalls = row.journals /\ \E a \in Agents : row.recalls[a] = 1

(* and of the one that goes on: what was said,                             *)
SaidRow(row, t) ==
    /\ t.pc \in Ending => row.closed /\ row.count = row.said
    /\ t.pc \in BeforeEnd =>
          /\ ~row.closed
          /\ row.said = IF t.pc \in {"generate", "review"} /\ t.line = "turn" THEN t.turn - 1 ELSE t.turn
    /\ t.pc \in {"generate", "review"} /\ t.line = "opening" => t.turn = 0

(* and how often it is remembered.                                         *)
RecallRow(row, t, b) ==
    \A a \in Agents :
        /\ row.recalls[a] <= b + 1 /\ row.journals[a] <= b + 1
        /\ t.pc \in BeforeEnd \/ (t.pc = "recall" /\ a \in t.left) => row.recalls[a] <= b
        /\ t.pc \in BeforeEnd \cup {"recall"} \/ (t.pc = "journal" /\ a \in t.left) => row.journals[a] <= b

MarkedRow(row, t) ==
    /\ t.pc = "recall" => row.recalls = Marks(t.group \ t.left)
    /\ t.pc \in {"journal", "record"} => row.recalls = Marks(t.group)
    /\ t.pc = "journal" => row.journals = Marks(t.group \ t.left)
    /\ t.pc = "record" => row.journals = Marks(t.group)

ActiveRow(row, t, d, n) ==
    /\ Exact(d, n) => SaidRow(row, t)
    /\ RecallRow(row, t, Base(d, n))
    /\ n = 0 /\ ~row.lost => MarkedRow(row, t)

TalkInv ==
    /\ ReviewInv
    /\ driver \in {"loop", "phase"}
    /\ talk \in TalkSet /\ TalkShape(talk)
    /\ rows \in Seq(RowSet) /\ talk.id <= Len(rows)
    /\ \A c \in 1 .. Len(rows) :
          IF c = talk.id THEN ActiveRow(rows[c], talk, driver, raised) ELSE OverRow(rows[c], driver, raised)

LEMMA PassingCount ==
    ASSUME NEW rv, NEW xs, NEW r \in Reviewers, \A q \in Reviewers : q # r => xs[q] = rv[q],
           NEW a
    PROVE  /\ Cardinality(Reviewers) \in Nat /\ Cardinality(Passing(rv, a)) \in Nat
           /\ Cardinality(Passing(xs, a)) \in Nat
           /\ (r \in Passing(xs, a) => r \in Passing(rv, a)) =>
                  Cardinality(Passing(xs, a)) <= Cardinality(Passing(rv, a))
           /\ r \in Passing(rv, a) /\ r \notin Passing(xs, a) =>
                  Cardinality(Passing(rv, a)) = Cardinality(Passing(xs, a)) + 1
           /\ r \notin Passing(xs, a) => Cardinality(Passing(xs, a)) + 1 <= Cardinality(Reviewers)
<1> DEFINE A == Passing(rv, a)
           B == Passing(xs, a)
<1>1. IsFiniteSet(Reviewers) /\ A \subseteq Reviewers /\ B \subseteq Reviewers
  <2>1. IsFiniteSet(BotReviewers \cup {Engine})
    BY ManagementAssumption, FS_AddElement
  <2> QED
    BY <2>1 DEF Passing, Reviewers
<1>2. IsFiniteSet(A) /\ IsFiniteSet(B)
  BY <1>1, FS_Subset
<1>3. A \subseteq B \cup {r} /\ B \subseteq A \cup {r}
  BY DEF Passing
<1> HIDE DEF A, B
<1>4. Cardinality(Reviewers) \in Nat /\ Cardinality(A) \in Nat /\ Cardinality(B) \in Nat
  BY <1>1, <1>2, FS_CardinalityType
<1>5. ASSUME r \in B => r \in A PROVE Cardinality(B) <= Cardinality(A)
  <2>1. B \subseteq A
    BY <1>3, <1>5
  <2> QED
    BY <1>2, <2>1, FS_Subset
<1>6. ASSUME r \in A, r \notin B PROVE Cardinality(A) = Cardinality(B) + 1
  <2>1. A = B \cup {r}
    BY <1>3, <1>6
  <2> QED
    BY <1>2, <1>6, <2>1, FS_AddElement
<1>7. ASSUME r \notin B PROVE Cardinality(B) + 1 <= Cardinality(Reviewers)
  <2>1. B \cup {r} \subseteq Reviewers
    BY <1>1
  <2>2. Cardinality(B \cup {r}) <= Cardinality(Reviewers)
    BY <1>1, <2>1, FS_Subset
  <2>3. Cardinality(B \cup {r}) = Cardinality(B) + 1
    BY <1>2, <1>7, FS_AddElement
  <2> QED
    BY <2>2, <2>3
<1> QED
  BY <1>4, <1>5, <1>6, <1>7 DEF A, B

(* A review moves and nobody speaks.                                       *)
LEMMA ReviewMoves ==
    ASSUME ReviewInv, NEW r \in Reviewers, review' \in [Reviewers -> Frames],
           \A q \in Reviewers : q # r => review'[q] = review[q],
           UNCHANGED <<policy, muted, late>>, raised' \in Nat, raised <= raised',
           review'[r].pc \in {"rejected", "kill"} => policy = "enforce" /\ review'[r].severity # 0,
           review'[r].pc # "idle" => review'[r].agent \in Agents,
           review'[r].pc = "raised" => raised' # 0,
           MayPass(review'[r]) /\ review'[r].agent \in muted =>
               MayPass(review[r]) /\ review[r].agent = review'[r].agent
    PROVE  ReviewInv'
<1>1. PICK xs : xs = review'
  OBVIOUS
<1>2. \A q \in Reviewers : q # r => xs[q] = review[q]
  BY <1>1
<1>3. ASSUME NEW a \in muted
      PROVE  late[a] + Cardinality(Passing(xs, a)) + 1 <= Cardinality(Reviewers)
  <2>1. r \in Passing(xs, a) => r \in Passing(review, a)
    BY <1>1 DEF Passing
  <2>2. Cardinality(Passing(xs, a)) <= Cardinality(Passing(review, a))
    BY <1>2, <2>1, PassingCount
  <2>3. /\ Cardinality(Passing(xs, a)) \in Nat /\ Cardinality(Passing(review, a)) \in Nat
        /\ Cardinality(Reviewers) \in Nat
    BY <1>2, PassingCount
  <2>4. late[a] \in Nat /\ late[a] + Cardinality(Passing(review, a)) + 1 <= Cardinality(Reviewers)
    BY DEF ReviewInv
  <2> QED
    BY <2>2, <2>3, <2>4
<1>4. \A a \in muted' : late'[a] + Cardinality(Passing(review', a)) + 1 <= Cardinality(Reviewers)
  BY <1>1, <1>3
<1>5. raised' = 0 => \A q \in Reviewers : review'[q].pc # "raised"
  BY DEF ReviewInv
<1> QED
  BY <1>4, <1>5 DEF ReviewInv

(* An agent speaks a line whose review let it pass.                        *)
LEMMA LineSaid ==
    ASSUME ReviewInv, NEW r \in Reviewers, Said(r), Delivered(r)
    PROVE  ReviewInv'
<1> DEFINE who == review[r].agent
<1>1. PICK xs : xs = review'
  OBVIOUS
<1>2. /\ xs = [review EXCEPT ![r] = Unasked] /\ UNCHANGED <<policy, muted, raised>>
      /\ review[r].pc = "done" /\ review[r].severity = 0
      /\ late' = [late EXCEPT ![who] = IF who \in muted THEN @ + 1 ELSE @]
  BY <1>1 DEF Said, Delivered, Reviewing
<1>3. Unasked \in Frames /\ Unasked.pc = "idle"
  BY DEF Unasked, Frames
<1>4. /\ xs \in [Reviewers -> Frames] /\ xs[r] = Unasked
      /\ \A q \in Reviewers : q # r => xs[q] = review[q]
  BY <1>2, <1>3 DEF ReviewInv
<1>5. /\ late' \in [Agents -> Nat] /\ \A a \in Agents \ muted : late'[a] = 0
      /\ \A a \in muted : late'[a] = IF a = who THEN late[a] + 1 ELSE late[a]
  <2> DEFINE v == IF who \in muted THEN late[who] + 1 ELSE late[who]
  <2>1. late' = [late EXCEPT ![who] = v] /\ late \in [Agents -> Nat] /\ muted \subseteq Agents
    BY <1>2 DEF ReviewInv
  <2>2. who \in Agents => v \in Nat
    BY <2>1
  <2>3. /\ who \in muted => v = late[who] + 1
        /\ who \notin muted => v = late[who]
    OBVIOUS
  <2> HIDE DEF v
  <2>4. late' \in [Agents -> Nat] /\ \A a \in Agents : late'[a] = IF a = who THEN v ELSE late[a]
    BY <2>1, <2>2
  <2> QED
    BY <2>1, <2>3, <2>4 DEF ReviewInv
<1>6. ASSUME NEW a \in muted
      PROVE  late'[a] + Cardinality(Passing(xs, a)) + 1 <= Cardinality(Reviewers)
  <2>1. r \notin Passing(xs, a) /\ (a = who => r \in Passing(review, a))
    BY <1>2, <1>3, <1>4 DEF Passing, MayPass
  <2>2. /\ Cardinality(Passing(xs, a)) <= Cardinality(Passing(review, a))
        /\ a = who => Cardinality(Passing(review, a)) = Cardinality(Passing(xs, a)) + 1
    BY <1>4, <2>1, PassingCount
  <2>3. /\ Cardinality(Passing(xs, a)) \in Nat /\ Cardinality(Passing(review, a)) \in Nat
        /\ Cardinality(Reviewers) \in Nat
    BY <1>4, PassingCount
  <2>4. late[a] \in Nat /\ late[a] + Cardinality(Passing(review, a)) + 1 <= Cardinality(Reviewers)
    BY DEF ReviewInv
  <2> QED
    BY <1>5, <2>2, <2>3, <2>4
<1>7. \A a \in muted' : late'[a] + Cardinality(Passing(review', a)) + 1 <= Cardinality(Reviewers)
  BY <1>1, <1>2, <1>6
<1>8. /\ review' \in [Reviewers -> Frames] /\ raised' \in Nat /\ muted' \subseteq Agents
      /\ policy' # "enforce" => muted' = {}
  BY <1>1, <1>2, <1>4 DEF ReviewInv
<1>9. \A q \in Reviewers : review'[q] = review[q] \/ review'[q].pc = "idle"
  BY <1>1, <1>3, <1>4
<1>10. /\ raised' = 0 => \A q \in Reviewers : review'[q].pc # "raised"
       /\ \A q \in Reviewers :
             review'[q].pc \in {"rejected", "kill"} => policy' = "enforce" /\ review'[q].severity # 0
       /\ \A q \in Reviewers : review'[q].pc # "idle" => review'[q].agent \in Agents
  BY <1>2, <1>9 DEF ReviewInv
<1> HIDE DEF who
<1>11. late' \in [Agents -> Nat] /\ \A a \in Agents \ muted' : late'[a] = 0
  BY <1>2, <1>5
<1> QED
  BY <1>7, <1>8, <1>10, <1>11 DEF ReviewInv

LEMMA Mutes == ASSUME ReviewInv, NEW r \in Reviewers, Mute(r) PROVE ReviewInv'
<1> DEFINE who == review[r].agent
<1>1. PICK xs : xs = review'
  OBVIOUS
<1>2. /\ xs = [review EXCEPT ![r].pc = "kill"] /\ UNCHANGED <<policy, raised>>
      /\ review[r].pc = "rejected" /\ review[r].severity = 5
      /\ muted' = muted \cup {who}
      /\ late' = [late EXCEPT ![who] = IF who \in muted THEN late[who] ELSE 0]
  BY <1>1 DEF Mute, Turns, Reviewing, ReviewInv
<1>3. /\ xs \in [Reviewers -> Frames] /\ xs[r].pc = "kill" /\ xs[r].severity = 5
      /\ xs[r].agent = who /\ \A q \in Reviewers : q # r => xs[q] = review[q]
  BY <1>2 DEF ReviewInv, Frames
<1>4. policy = "enforce" /\ who \in Agents
  BY <1>2 DEF ReviewInv
<1> HIDE DEF who
<1>5. /\ late' \in [Agents -> Nat]
      /\ \A a \in Agents : late'[a] = IF a = who /\ who \notin muted THEN 0 ELSE late[a]
  BY <1>2 DEF ReviewInv
<1>6. \A a \in Agents \ muted' : late'[a] = 0
  BY <1>2, <1>5 DEF ReviewInv
<1>7. ASSUME NEW a \in muted'
      PROVE  late'[a] + Cardinality(Passing(xs, a)) + 1 <= Cardinality(Reviewers)
  <2>1. r \notin Passing(xs, a)
    BY <1>3 DEF Passing, MayPass
  <2>2. /\ Cardinality(Passing(xs, a)) <= Cardinality(Passing(review, a))
        /\ Cardinality(Passing(xs, a)) + 1 <= Cardinality(Reviewers)
        /\ Cardinality(Passing(xs, a)) \in Nat /\ Cardinality(Passing(review, a)) \in Nat
        /\ Cardinality(Reviewers) \in Nat
    BY <1>3, <2>1, PassingCount
  <2>3. a \in muted => late[a] \in Nat /\ late'[a] = late[a]
                       /\ late[a] + Cardinality(Passing(review, a)) + 1 <= Cardinality(Reviewers)
    BY <1>5 DEF ReviewInv
  <2>4. a \notin muted => late'[a] = 0
    BY <1>2, <1>4, <1>5
  <2> QED
    BY <2>2, <2>3, <2>4
<1>8. muted' \subseteq Agents /\ raised' \in Nat
      /\ policy' = "enforce"
  BY <1>2, <1>4 DEF ReviewInv
<1>9. /\ raised' = 0 => \A q \in Reviewers : xs[q].pc # "raised"
      /\ \A q \in Reviewers : xs[q].pc \in {"rejected", "kill"} => xs[q].severity # 0
      /\ \A q \in Reviewers : xs[q].pc # "idle" => xs[q].agent \in Agents
  BY <1>2, <1>3, <1>4 DEF ReviewInv
<1> QED
  BY <1>1, <1>3, <1>5, <1>6, <1>7, <1>8, <1>9 DEF ReviewInv

LEMMA Unmutes == ASSUME ReviewInv, Unmute PROVE ReviewInv'
<1>1. PICK who \in muted : muted' = muted \ {who} /\ late' = [late EXCEPT ![who] = 0]
  BY DEF Unmute
<1>2. UNCHANGED <<policy, review, raised>>
  BY DEF Unmute
<1>3. /\ late' \in [Agents -> Nat] /\ muted' \subseteq Agents
      /\ \A a \in Agents : late'[a] = IF a = who THEN 0 ELSE late[a]
  BY <1>1 DEF ReviewInv
<1>4. \A a \in Agents \ muted' : late'[a] = 0
  BY <1>1, <1>3 DEF ReviewInv
<1>5. \A a \in muted' : late'[a] + Cardinality(Passing(review', a)) + 1 <= Cardinality(Reviewers)
  BY <1>1, <1>2, <1>3 DEF ReviewInv
<1>6. policy # "enforce" => muted' = {}
  BY <1>1 DEF ReviewInv
<1> QED
  BY <1>2, <1>3, <1>4, <1>5, <1>6 DEF ReviewInv

(* What a verdict leaves.                                                  *)
LEMMA VerdictLeaves ==
    ASSUME ReviewInv, NEW r \in Reviewers, review[r].pc # "idle", NEW severity \in Severities \cup {0},
           Verdict(r, severity)
    PROVE  /\ review' \in [Reviewers -> Frames]
           /\ \A q \in Reviewers : q # r => review'[q] = review[q]
           /\ review'[r].agent = review[r].agent /\ review'[r].agent \in Agents
           /\ review'[r].pc \in {"rejected", "done"}
           /\ review'[r].pc = "rejected" => policy = "enforce" /\ review'[r].severity # 0
           /\ MayPass(review'[r]) => policy # "enforce" \/ severity = 0
<1> DEFINE s == IF policy = "enforce" THEN severity ELSE 0
           p == IF policy = "enforce" /\ severity > 0 THEN "rejected" ELSE "done"
<1>1. review' = [review EXCEPT ![r].severity = s, ![r].pc = p]
  BY DEF Verdict
<1>2. /\ s \in Severities \cup {0} /\ p \in {"rejected", "done"}
      /\ p = "rejected" => policy = "enforce" /\ s # 0
      /\ p = "done" /\ s = 0 => policy # "enforce" \/ severity = 0
  BY DEF Severities
<1>3. review \in [Reviewers -> Frames] /\ review[r] \in Frames
  BY DEF ReviewInv
<1> HIDE DEF s, p
<1>4. /\ \A q \in Reviewers : q # r => review'[q] = review[q]
      /\ review' \in [Reviewers -> Frames]
      /\ review'[r].severity = s /\ review'[r].pc = p /\ review'[r].agent = review[r].agent
  BY <1>1, <1>2, <1>3 DEF Frames
<1>5. review[r].agent \in Agents
  BY DEF ReviewInv
<1> QED
  BY <1>2, <1>4, <1>5 DEF MayPass

(* What a step within a review leaves.                                     *)
LEMMA TurnLeaves ==
    ASSUME ReviewInv, NEW r \in Reviewers, review[r].pc # "idle",
           NEW pc \in {"ask", "kill", "done", "raised"}, Turns(r, pc)
    PROVE  /\ review' \in [Reviewers -> Frames]
           /\ \A q \in Reviewers : q # r => review'[q] = review[q]
           /\ review'[r].agent = review[r].agent /\ review'[r].agent \in Agents
           /\ review'[r].pc = pc /\ review'[r].severity = review[r].severity
<1>1. review' = [review EXCEPT ![r].pc = pc] /\ review \in [Reviewers -> Frames] /\ review[r] \in Frames
  BY DEF Turns, ReviewInv
<1>2. review[r].agent \in Agents
  BY DEF ReviewInv
<1> QED
  BY <1>1, <1>2 DEF Frames

(* What the start of a review leaves, and its end.                         *)
LEMMA BeginLeaves ==
    ASSUME ReviewInv, NEW r \in Reviewers, NEW a \in Agents, BeginReview(r, a)
    PROVE  /\ review' \in [Reviewers -> Frames]
           /\ \A q \in Reviewers : q # r => review'[q] = review[q]
           /\ review'[r].agent = a /\ review'[r].pc \in {"done", "screen"}
           /\ MayPass(review'[r]) => policy # "enforce"
<1> DEFINE p == IF policy = "off" THEN "done" ELSE "screen"
           f == [pc |-> p, agent |-> a, severity |-> 0]
<1>1. review' = [review EXCEPT ![r] = f] /\ review \in [Reviewers -> Frames]
  BY DEF BeginReview, ReviewInv
<1>2. f \in Frames /\ f.agent = a /\ f.pc \in {"done", "screen"} /\ (f.pc = "done" => policy = "off")
  BY DEF Frames
<1> HIDE DEF f
<1> QED
  BY <1>1, <1>2 DEF MayPass

LEMMA DeliveryKeeps ==
    ASSUME ReviewInv, NEW r \in Reviewers, Delivered(r), late' = late PROVE ReviewInv'
<1>1. Unasked \in Frames /\ Unasked.pc = "idle"
  BY DEF Unasked, Frames
<1>2. /\ review' \in [Reviewers -> Frames] /\ review'[r] = Unasked
      /\ \A q \in Reviewers : q # r => review'[q] = review[q]
  BY <1>1 DEF Delivered, ReviewInv
<1>3. UNCHANGED <<policy, muted, late>> /\ raised' \in Nat /\ raised <= raised'
  BY DEF Delivered, ReviewInv
<1>4. ~MayPass(review'[r]) /\ review'[r].pc = "idle"
  BY <1>1, <1>2 DEF MayPass
<1> QED
  BY <1>2, <1>3, <1>4, ReviewMoves

LEMMA ManagementKept == ReviewInv /\ ManagementNext => ReviewInv'
<1> SUFFICES ASSUME ReviewInv, ManagementNext PROVE ReviewInv'
  OBVIOUS
<1>t. raised \in Nat
  BY DEF ReviewInv
<1>e. policy # "enforce" => muted = {}
  BY DEF ReviewInv
<1>1. ASSUME NEW r \in Reviewers, Screen(r) PROVE ReviewInv'
  <2>1. review[r].pc = "screen" /\ UNCHANGED <<policy, muted, late, raised>>
    BY <1>1 DEF Screen, Reviewing
  <2>2. raised' \in Nat /\ raised <= raised'
    BY <1>t, <2>1
  <2>3. CASE Turns(r, "ask") /\ ~(policy = "enforce" /\ review[r].agent \in muted)
    <3>1. /\ review' \in [Reviewers -> Frames] /\ \A q \in Reviewers : q # r => review'[q] = review[q]
          /\ review'[r].agent = review[r].agent /\ review'[r].agent \in Agents /\ review'[r].pc = "ask"
      BY <2>1, <2>3, TurnLeaves
    <3>2. review'[r].agent \notin muted
      BY <1>e, <2>3, <3>1
    <3> QED
      BY <2>1, <2>2, <3>1, <3>2, ReviewMoves
  <2>4. CASE Verdict(r, 3)
    <3>0. 3 \in Severities \cup {0} /\ 3 # 0
      BY DEF Severities
    <3>1. /\ review' \in [Reviewers -> Frames] /\ \A q \in Reviewers : q # r => review'[q] = review[q]
          /\ review'[r].agent \in Agents /\ review'[r].pc \in {"rejected", "done"}
          /\ review'[r].pc = "rejected" => policy = "enforce" /\ review'[r].severity # 0
          /\ MayPass(review'[r]) => policy # "enforce"
      BY <2>1, <2>4, <3>0, VerdictLeaves
    <3> QED
      BY <1>e, <2>1, <2>2, <3>1, ReviewMoves
  <2> QED
    BY <1>1, <2>3, <2>4 DEF Screen
<1>2. ASSUME NEW r \in Reviewers, Answered(r) PROVE ReviewInv'
  <2>1. /\ review[r].pc = "ask" /\ UNCHANGED <<policy, muted, late, raised>>
    BY <1>2 DEF Answered, Reviewing
  <2>2. PICK severity \in Severities \cup {0} : Verdict(r, severity)
    BY <1>2 DEF Answered
  <2>3. /\ review' \in [Reviewers -> Frames] /\ \A q \in Reviewers : q # r => review'[q] = review[q]
        /\ review'[r].agent = review[r].agent /\ review'[r].agent \in Agents
        /\ review'[r].pc \in {"rejected", "done"}
        /\ review'[r].pc = "rejected" => policy = "enforce" /\ review'[r].severity # 0
    BY <2>1, <2>2, VerdictLeaves
  <2>4. MayPass(review[r]) /\ raised' \in Nat /\ raised <= raised'
    BY <1>t, <2>1 DEF MayPass
  <2> QED
    BY <2>1, <2>3, <2>4, ReviewMoves
<1>3. ASSUME NEW r \in Reviewers, Unanswered(r) PROVE ReviewInv'
  <2>1. /\ review[r].pc = "ask" /\ UNCHANGED <<policy, muted, late, raised>> /\ Verdict(r, 3)
    BY <1>3 DEF Unanswered, Reviewing
  <2>2. 3 \in Severities \cup {0}
    BY DEF Severities
  <2>3. /\ review' \in [Reviewers -> Frames] /\ \A q \in Reviewers : q # r => review'[q] = review[q]
        /\ review'[r].agent = review[r].agent /\ review'[r].agent \in Agents
        /\ review'[r].pc \in {"rejected", "done"}
        /\ review'[r].pc = "rejected" => policy = "enforce" /\ review'[r].severity # 0
    BY <2>1, <2>2, VerdictLeaves
  <2>4. MayPass(review[r]) /\ raised' \in Nat /\ raised <= raised'
    BY <1>t, <2>1 DEF MayPass
  <2> QED
    BY <2>1, <2>3, <2>4, ReviewMoves
<1>4. ASSUME NEW r \in Reviewers, Announce(r) \/ StopShow(r) PROVE ReviewInv'
  <2>1. /\ review[r].pc \in {"rejected", "kill"} /\ UNCHANGED <<policy, muted, late, raised>>
        /\ Turns(r, "done")
    BY <1>4 DEF Announce, StopShow, Reviewing
  <2>2. /\ review' \in [Reviewers -> Frames] /\ \A q \in Reviewers : q # r => review'[q] = review[q]
        /\ review'[r].agent \in Agents
        /\ review'[r].pc = "done" /\ review'[r].severity = review[r].severity
    BY <2>1, TurnLeaves
  <2>3. ~MayPass(review'[r]) /\ raised' \in Nat /\ raised <= raised'
    BY <1>t, <2>1, <2>2 DEF MayPass, ReviewInv
  <2> QED
    BY <2>1, <2>2, <2>3, ReviewMoves
<1>5. ASSUME NEW r \in Reviewers, ReviewRaises(r) PROVE ReviewInv'
  <2>1. /\ review[r].pc \in {"screen", "kill", "rejected"} /\ UNCHANGED <<policy, muted, late>>
        /\ Turns(r, "raised") /\ raised' = raised + 1
    BY <1>5 DEF ReviewRaises, Reviewing
  <2>2. /\ review' \in [Reviewers -> Frames] /\ \A q \in Reviewers : q # r => review'[q] = review[q]
        /\ review'[r].agent \in Agents /\ review'[r].pc = "raised"
    BY <2>1, TurnLeaves
  <2>3. ~MayPass(review'[r]) /\ raised' \in Nat /\ raised <= raised' /\ raised' # 0
    BY <1>t, <2>1, <2>2 DEF MayPass
  <2> QED
    BY <2>1, <2>2, <2>3, ReviewMoves
<1>6. ASSUME NEW r \in BotReviewers, BotAsks(r) PROVE ReviewInv'
  <2>1. PICK a \in Agents : BeginReview(r, a)
    BY <1>6 DEF BotAsks
  <2>2. UNCHANGED <<policy, muted, late, raised>> /\ r \in Reviewers
    BY <1>6 DEF BotAsks, Reviewers
  <2>3. /\ review' \in [Reviewers -> Frames] /\ \A q \in Reviewers : q # r => review'[q] = review[q]
        /\ review'[r].agent \in Agents /\ review'[r].pc \in {"done", "screen"}
        /\ MayPass(review'[r]) => policy # "enforce"
    BY <2>1, <2>2, BeginLeaves
  <2>4. raised' \in Nat /\ raised <= raised'
    BY <1>t, <2>2
  <2> QED
    BY <1>e, <2>2, <2>3, <2>4, ReviewMoves
<1>7. ASSUME NEW r \in BotReviewers, BotHears(r) PROVE ReviewInv'
  <2>1. r \in Reviewers
    BY DEF Reviewers
  <2> QED
    BY <1>7, <2>1, LineSaid, DeliveryKeeps DEF BotHears
<1>8. CASE ShowResumes \/ CooldownPasses
  <2>1. UNCHANGED <<policy, muted, late, raised, review>>
    BY <1>8 DEF ShowResumes, CooldownPasses
  <2> QED
    BY <2>1 DEF ReviewInv
<1> QED
  BY <1>1, <1>2, <1>3, <1>4, <1>5, <1>6, <1>7, <1>8, Mutes, Unmutes DEF ManagementNext, ReviewStep

LEMMA RaisedGrows == ReviewInv /\ ManagementNext => raised <= raised'
<1> SUFFICES ASSUME ReviewInv, ManagementNext PROVE raised <= raised'
  OBVIOUS
<1>1. raised \in Nat
  BY DEF ReviewInv
<1>2. raised' = raised \/ raised' = raised + 1
  BY DEF ManagementNext, ReviewStep, Screen, Answered, Unanswered, Announce, Mute, StopShow,
         ReviewRaises, BotAsks, BotHears, Delivered, Unmute, ShowResumes, CooldownPasses
<1> QED
  BY <1>1, <1>2

LEMMA BaseGrows ==
    ASSUME NEW d, NEW n \in Nat, NEW m \in Nat, n <= m
    PROVE  /\ Base(d, n) \in Nat /\ Base(d, m) \in Nat /\ Base(d, n) <= Base(d, m)
           /\ Exact(d, m) => Exact(d, n)
           /\ m = 0 => n = 0
BY DEF Base, Exact

LEMMA OverRowStays ==
    ASSUME NEW row \in RowSet, NEW d, NEW n \in Nat, NEW m \in Nat, n <= m, OverRow(row, d, n)
    PROVE  OverRow(row, d, m)
<1>1. \A a \in Agents : row.recalls[a] \in Nat /\ row.journals[a] \in Nat
  BY DEF RowSet
<1>2. \A a \in Agents : row.recalls[a] <= Base(d, m) + 1 /\ row.journals[a] <= Base(d, m) + 1
  BY <1>1, BaseGrows DEF OverRow
<1> QED
  BY <1>2, BaseGrows DEF OverRow

LEMMA ActiveRowStays ==
    ASSUME NEW row \in RowSet, NEW t \in TalkSet, NEW d, NEW n \in Nat, NEW m \in Nat, n <= m,
           ActiveRow(row, t, d, n)
    PROVE  ActiveRow(row, t, d, m)
<1>1. \A a \in Agents : row.recalls[a] \in Nat /\ row.journals[a] \in Nat
  BY DEF RowSet
<1>2. RecallRow(row, t, Base(d, m))
  BY <1>1, BaseGrows DEF ActiveRow, RecallRow
<1> QED
  BY <1>2, BaseGrows DEF ActiveRow

(* The conversation goes on, or there is none any more: only its row may   *)
(* change.                                                                 *)
LEMMA RowsFollow ==
    ASSUME TalkInv, ReviewInv', driver' = driver, raised <= raised',
           talk' \in TalkSet, TalkShape(talk'), talk'.id \in {0, talk.id},
           rows' \in Seq(RowSet), Len(rows') = Len(rows),
           \A c \in 1 .. Len(rows) : c # talk.id => rows'[c] = rows[c],
           talk.id # 0 /\ talk'.id = talk.id => ActiveRow(rows'[talk.id], talk', driver, raised'),
           talk.id # 0 /\ talk'.id # talk.id => OverRow(rows'[talk.id], driver, raised')
    PROVE  TalkInv'
<1>1. /\ raised \in Nat /\ raised' \in Nat /\ talk.id \in Nat /\ talk.id <= Len(rows)
      /\ rows \in Seq(RowSet) /\ Len(rows) \in Nat
  BY DEF TalkInv, ReviewInv, TalkSet
<1>2. ASSUME NEW c \in 1 .. Len(rows), c # talk.id PROVE OverRow(rows'[c], driver, raised')
  <2>1. rows[c] \in RowSet
    BY <1>1
  <2>2. OverRow(rows[c], driver, raised)
    BY <1>2 DEF TalkInv
  <2>3. OverRow(rows[c], driver, raised')
    <3>1. PICK m : m = raised'
      OBVIOUS
    <3> QED
      BY <1>1, <2>1, <2>2, <3>1, OverRowStays
  <2> QED
    BY <1>2, <2>3
<1>3. \A c \in 1 .. Len(rows') :
         IF c = talk'.id THEN ActiveRow(rows'[c], talk', driver', raised')
                         ELSE OverRow(rows'[c], driver', raised')
  BY <1>1, <1>2
<1>4. driver' \in {"loop", "phase"} /\ talk'.id <= Len(rows')
  BY <1>1 DEF TalkInv
<1> QED
  BY <1>3, <1>4 DEF TalkInv

(* The same with the rows as they were.                                    *)
LEMMA RowsStay ==
    ASSUME TalkInv, ReviewInv', driver' = driver, raised <= raised', rows' = rows,
           talk' \in TalkSet, TalkShape(talk'), talk'.id \in {0, talk.id},
           talk.id # 0 /\ talk'.id = talk.id => ActiveRow(rows[talk.id], talk', driver, raised'),
           talk.id # 0 /\ talk'.id # talk.id => OverRow(rows[talk.id], driver, raised')
    PROVE  TalkInv'
<1>1. rows \in Seq(RowSet)
  BY DEF TalkInv
<1> QED
  BY <1>1, RowsFollow

LEMMA LineEndsIs ==
    ASSUME NEW t \in TalkSet, NEW pc \in {"idle"} \cup BeforeEnd \cup Ending
    PROVE  LET s == LineEnds(t, pc) IN
           /\ s \in TalkSet /\ s.pc = pc /\ s.id = t.id /\ s.group = t.group /\ s.turn = t.turn
           /\ s.left = t.left /\ s.line = "none"
BY DEF LineEnds, TalkSet

LEMMA GeneratesIs ==
    ASSUME NEW t \in TalkSet, NEW line \in {"opening", "turn", "closing"}, NEW who \in Agents
    PROVE  LET s == Generates(t, line, who) IN
           /\ s \in TalkSet /\ s.pc = "generate" /\ s.id = t.id /\ s.group = t.group
           /\ s.turn = t.turn /\ s.left = t.left /\ s.line = line /\ s.who = who
BY DEF Generates, TalkSet, BeforeEnd

LEMMA QuietIs == Quiet \in TalkSet /\ Quiet.pc = "idle" /\ Quiet.id = 0 /\ TalkShape(Quiet)
BY DEF Quiet, TalkSet, TalkShape

(* What is known of the row of the conversation that goes on.              *)
LEMMA ActiveIs ==
    ASSUME TalkInv, talk.id # 0
    PROVE  /\ talk.id \in 1 .. Len(rows) /\ rows[talk.id] \in RowSet /\ rows \in Seq(RowSet)
           /\ ActiveRow(rows[talk.id], talk, driver, raised)
           /\ talk \in TalkSet /\ talk.group # {} /\ raised \in Nat /\ ReviewInv
BY DEF TalkInv, TalkSet, TalkShape, ReviewInv

(* It goes on before its end, with what was said in it.                    *)
LEMMA BeforeEndStays ==
    ASSUME NEW row \in RowSet, NEW t \in TalkSet, NEW s \in TalkSet, NEW d, NEW n \in Nat,
           ActiveRow(row, t, d, n), t.pc \in BeforeEnd, s.pc \in BeforeEnd,
           Exact(d, n) => SaidRow(row, s)
    PROVE  ActiveRow(row, s, d, n)
<1>1. s.pc \notin Ending /\ s.pc # "recall" /\ s.pc # "journal"
  BY DEF Ending, BeforeEnd
<1>2. RecallRow(row, s, Base(d, n))
  BY <1>1 DEF ActiveRow, RecallRow
<1>3. MarkedRow(row, s)
  BY <1>1 DEF MarkedRow, Ending
<1> QED
  BY <1>2, <1>3 DEF ActiveRow

LEMMA WithoutLine ==
    ASSUME TalkInv, ReviewInv', driver' = driver, raised' = raised, rows' = rows,
           talk.pc \in {"generate", "review"}, talk' = NoLine(talk)
    PROVE  TalkInv'
<1>1. /\ talk.id # 0 /\ talk \in TalkSet /\ talk.pc \in BeforeEnd /\ talk.pc \notin Ending
      /\ talk.line \in {"opening", "turn", "closing"} /\ raised <= raised' /\ raised \in Nat
  BY DEF TalkInv, TalkShape, TalkSet, BeforeEnd, Ending, ReviewInv
<1>2. /\ rows[talk.id] \in RowSet /\ ActiveRow(rows[talk.id], talk, driver, raised)
      /\ talk.group # {}
  BY <1>1, ActiveIs
<1>3. Exact(driver, raised) => SaidRow(rows[talk.id], talk)
  BY <1>2 DEF ActiveRow
<1>4. CASE talk.line = "opening"
  <2>1. talk' = Quiet
    BY <1>4 DEF NoLine
  <2>2. Exact(driver, raised) => ~rows[talk.id].closed /\ rows[talk.id].said = 0
    BY <1>1, <1>3, <1>4 DEF SaidRow
  <2>3. raised = 0 => Exact(driver, raised)
    BY DEF Exact
  <2>4. OverRow(rows[talk.id], driver, raised)
    BY <1>2, <2>2, <2>3 DEF OverRow, ActiveRow, RecallRow
  <2> QED
    BY <1>1, <2>1, <2>4, QuietIs, RowsStay
<1>5. CASE talk.line = "turn"
  <2> DEFINE u == LineEnds(talk, "next")
             n == u.turn - 1
             s == [u EXCEPT !.turn = n, !.rounds = NextRound(talk), !.skipped = TRUE]
  <2>1. talk' = s
    BY <1>5 DEF NoLine
  <2>2. NextRound(talk) \in Nat
    BY <1>1 DEF NextRound, TalkSet
  <2>3. /\ s \in TalkSet /\ s.pc = "next" /\ s.id = talk.id /\ s.group = talk.group
        /\ s.turn = talk.turn - 1 /\ s.line = "none"
    <3>1. "next" \in BeforeEnd
      BY DEF BeforeEnd
    <3>2. /\ u \in TalkSet /\ u.pc = "next" /\ u.id = talk.id /\ u.group = talk.group
          /\ u.turn = talk.turn /\ u.line = "none"
      BY <1>1, <3>1, LineEndsIs
    <3> HIDE DEF u
    <3>3. n = talk.turn - 1 /\ n \in Int
      BY <1>1, <3>2 DEF TalkSet
    <3> HIDE DEF n
    <3>4. /\ s.pc = u.pc /\ s.id = u.id /\ s.group = u.group /\ s.turn = n /\ s.line = u.line
      BY <3>2 DEF TalkSet
    <3>5. s \in TalkSet
      BY <2>2, <3>2, <3>3 DEF TalkSet
    <3> QED
      BY <3>2, <3>3, <3>4, <3>5
  <2> HIDE DEF s
  <2>4. TalkShape(s)
    BY <1>1, <1>2, <2>3 DEF TalkShape
  <2>5. Exact(driver, raised) => SaidRow(rows[talk.id], s)
    BY <1>1, <1>3, <1>5, <2>3 DEF SaidRow, Ending
  <2>6. s.pc \in BeforeEnd
    BY <2>3 DEF BeforeEnd
  <2>7. ActiveRow(rows[talk.id], s, driver, raised)
    BY <1>1, <1>2, <2>3, <2>5, <2>6, BeforeEndStays
  <2> QED
    BY <1>1, <2>1, <2>3, <2>4, <2>7, RowsStay
<1>6. CASE talk.line = "closing"
  <2> DEFINE s == LineEnds(talk, "close")
  <2>1. talk' = s
    BY <1>6 DEF NoLine
  <2>2. "close" \in BeforeEnd
    BY DEF BeforeEnd
  <2>3. /\ s \in TalkSet /\ s.pc = "close" /\ s.id = talk.id /\ s.group = talk.group
        /\ s.turn = talk.turn /\ s.line = "none"
    BY <1>1, <2>2, LineEndsIs
  <2> HIDE DEF s
  <2>4. TalkShape(s)
    BY <1>1, <1>2, <2>3 DEF TalkShape
  <2>5. Exact(driver, raised) => SaidRow(rows[talk.id], s)
    BY <1>1, <1>3, <1>6, <2>3 DEF SaidRow, Ending
  <2>7. ActiveRow(rows[talk.id], s, driver, raised)
    BY <1>1, <1>2, <2>2, <2>3, <2>5, BeforeEndStays
  <2> QED
    BY <1>1, <2>1, <2>3, <2>4, <2>7, RowsStay
<1> QED
  BY <1>1, <1>4, <1>5, <1>6

(* The step before the end that says nothing.                              *)
LEMMA TalkMoves ==
    ASSUME TalkInv, ReviewInv', driver' = driver, raised' = raised, rows' = rows,
           talk.id # 0, talk.pc \in BeforeEnd,
           NEW s \in TalkSet, talk' = s, s.pc \in BeforeEnd, s.id = talk.id, s.group = talk.group,
           s.pc \in {"generate", "review"} => s.line # "none" /\ s.who \in Agents,
           SaidRow(rows[talk.id], talk) => SaidRow(rows[talk.id], s)
    PROVE  TalkInv'
<1>1. /\ rows[talk.id] \in RowSet /\ ActiveRow(rows[talk.id], talk, driver, raised)
      /\ talk.group # {} /\ talk \in TalkSet /\ raised \in Nat /\ raised <= raised'
  BY ActiveIs
<1>2. TalkShape(s)
  BY <1>1 DEF TalkShape, BeforeEnd
<1>3. Exact(driver, raised) => SaidRow(rows[talk.id], s)
  BY <1>1 DEF ActiveRow
<1>4. ActiveRow(rows[talk.id], s, driver, raised)
  BY <1>1, <1>3, BeforeEndStays
<1> QED
  BY <1>1, <1>2, <1>4, RowsStay

LEMMA AnotherAttempt ==
    ASSUME TalkInv, ReviewInv', driver' = driver, raised' = raised, rows' = rows,
           talk.pc \in {"generate", "review"}, talk' = NextAttempt(talk)
    PROVE  TalkInv'
<1> DEFINE n == talk.tries + 1
           s == [talk EXCEPT !.pc = "generate", !.tries = n]
<1>1. /\ talk.id # 0 /\ talk \in TalkSet /\ talk.pc \in BeforeEnd /\ talk.pc \notin Ending
      /\ talk.line # "none" /\ talk.who \in Agents
  BY DEF TalkInv, TalkShape, TalkSet, BeforeEnd, Ending
<1>2. /\ s \in TalkSet /\ s.pc = "generate" /\ s.id = talk.id /\ s.group = talk.group
      /\ s.turn = talk.turn /\ s.line = talk.line /\ s.who = talk.who
  <2>1. n \in Nat
    BY <1>1 DEF TalkSet
  <2> HIDE DEF n
  <2>2. s \in TalkSet
    BY <1>1, <2>1 DEF TalkSet, BeforeEnd
  <2> QED
    BY <1>1, <2>2 DEF TalkSet
<1>3. CASE talk' = s
  <2> HIDE DEF s
  <2>1. s.pc \in BeforeEnd /\ s.pc \notin Ending
    BY <1>2 DEF BeforeEnd, Ending
  <2>2. SaidRow(rows[talk.id], talk) => SaidRow(rows[talk.id], s)
    BY <1>1, <1>2, <2>1 DEF SaidRow
  <2> QED
    BY <1>1, <1>2, <1>3, <2>1, <2>2, TalkMoves
<1> QED
  BY <1>3, WithoutLine DEF NextAttempt

LEMMA Begins == ASSUME TalkInv, ReviewInv', StartConversation PROVE TalkInv'
<1> DEFINE id == Len(rows) + 1
<1>t. /\ rows \in Seq(RowSet) /\ Len(rows) \in Nat /\ raised \in Nat /\ talk.id = 0
      /\ driver \in {"loop", "phase"}
  BY DEF TalkInv, ReviewInv, StartConversation, Engaged, TalkShape
<1>0. PICK group \in SUBSET Agents \ {{}} : \E who \in group :
          talk' = Generates([Quiet EXCEPT !.id = id, !.group = group], "opening", who)
  BY DEF StartConversation
<1>1. PICK who \in group :
          talk' = Generates([Quiet EXCEPT !.id = id, !.group = group], "opening", who)
  BY <1>0
<1>2. rows' = Append(rows, NewRow) /\ raised' = raised /\ driver' = driver
  BY DEF StartConversation, managementVars
<1> DEFINE u == [Quiet EXCEPT !.id = id, !.group = group]
           s == Generates(u, "opening", who)
<1>3. u \in TalkSet /\ u.id = id /\ u.group = group /\ u.turn = 0
  <2>1. Quiet \in TalkSet /\ Quiet.turn = 0 /\ id \in Nat
    BY <1>t, QuietIs DEF Quiet
  <2> QED
    BY <2>1 DEF TalkSet
<1> HIDE DEF u
<1>4. /\ s \in TalkSet /\ s.pc = "generate" /\ s.id = id /\ s.group = group
      /\ s.turn = 0 /\ s.line = "opening" /\ s.who = who
  <2>1. who \in Agents
    BY <1>1
  <2> QED
    BY <1>3, <2>1, GeneratesIs
<1>5. talk' = s
  BY <1>1 DEF u
<1> HIDE DEF s
<1>6. /\ NewRow \in RowSet /\ ~NewRow.closed /\ NewRow.said = 0
      /\ \A a \in Agents : NewRow.recalls[a] = 0 /\ NewRow.journals[a] = 0
  BY DEF NewRow, RowSet, NoneYet
<1>7. /\ rows' \in Seq(RowSet) /\ Len(rows') = id /\ rows'[id] = NewRow
      /\ \A c \in 1 .. Len(rows) : rows'[c] = rows[c]
  BY <1>t, <1>2, <1>6
<1>8. TalkShape(s)
  BY <1>1, <1>4, <1>t DEF TalkShape
<1>9. ActiveRow(NewRow, s, driver, raised)
  <2>1. s.pc \notin Ending
    BY <1>4 DEF Ending
  <2>2. SaidRow(NewRow, s)
    BY <1>4, <1>6, <2>1 DEF SaidRow
  <2>3. Base(driver, raised) \in Nat
    BY <1>t DEF Base
  <2>4. RecallRow(NewRow, s, Base(driver, raised))
    BY <1>6, <2>3 DEF RecallRow
  <2>5. MarkedRow(NewRow, s)
    BY <1>4 DEF MarkedRow
  <2> QED
    BY <2>2, <2>4, <2>5 DEF ActiveRow
<1>10. \A c \in 1 .. Len(rows) : OverRow(rows[c], driver, raised)
  BY <1>t DEF TalkInv
<1>11. \A c \in 1 .. Len(rows') :
          IF c = talk'.id THEN ActiveRow(rows'[c], talk', driver', raised')
                          ELSE OverRow(rows'[c], driver', raised')
  <2> SUFFICES ASSUME NEW c \in 1 .. Len(rows')
               PROVE  IF c = id THEN ActiveRow(rows'[c], s, driver, raised)
                                ELSE OverRow(rows'[c], driver, raised)
    BY <1>2, <1>4, <1>5
  <2>1. c # id => c \in 1 .. Len(rows)
    BY <1>t, <1>7
  <2> QED
    BY <1>7, <1>9, <1>10, <2>1
<1> QED
  BY <1>t, <1>2, <1>4, <1>5, <1>7, <1>8, <1>11 DEF TalkInv

LEMMA RowMoves ==
    ASSUME TalkInv, ReviewInv', driver' = driver, raised' = raised, talk.id # 0,
           NEW row \in RowSet, rows' = [rows EXCEPT ![talk.id] = row],
           NEW s \in TalkSet, talk' = s, TalkShape(s), s.id = talk.id,
           ActiveRow(row, s, driver, raised)
    PROVE  TalkInv'
<1>1. talk.id \in 1 .. Len(rows) /\ rows \in Seq(RowSet) /\ raised <= raised'
  BY ActiveIs
<1>2. /\ rows' \in Seq(RowSet) /\ Len(rows') = Len(rows) /\ rows'[talk.id] = row
      /\ \A c \in 1 .. Len(rows) : c # talk.id => rows'[c] = rows[c]
  BY <1>1
<1> QED
  BY <1>1, <1>2, RowsFollow

LEMMA Speaks ==
    ASSUME TalkInv, ReviewInv', driver' = driver, raised' = raised, talk.pc = "review",
           NEW lively \in BOOLEAN, talk' = Spoken(talk, lively),
           rows' = [rows EXCEPT ![talk.id].said = @ + 1]
    PROVE  TalkInv'
<1>1. /\ talk.id # 0 /\ talk.pc \in BeforeEnd /\ talk.pc \notin Ending
      /\ talk.line \in {"opening", "turn", "closing"}
  BY DEF TalkInv, TalkShape, TalkSet, BeforeEnd, Ending
<1>2. /\ rows[talk.id] \in RowSet /\ ActiveRow(rows[talk.id], talk, driver, raised)
      /\ talk.group # {} /\ talk \in TalkSet /\ talk.id \in 1 .. Len(rows) /\ rows \in Seq(RowSet)
      /\ raised \in Nat
  BY <1>1, ActiveIs
<1> DEFINE row == rows[talk.id]
           more == row.said + 1
           new == [row EXCEPT !.said = more]
<1>3. rows' = [rows EXCEPT ![talk.id] = new]
  BY <1>2
<1>4. row.said \in Nat /\ more = row.said + 1 /\ more \in Nat
  BY <1>2 DEF RowSet
<1> HIDE DEF more
<1>5. /\ new \in RowSet /\ new.said = more /\ new.closed = row.closed /\ new.lost = row.lost
      /\ new.recalls = row.recalls /\ new.journals = row.journals
  BY <1>2, <1>4 DEF RowSet
<1>6. row \in RowSet /\ ActiveRow(row, talk, driver, raised)
  BY <1>2
<1> HIDE DEF row, new
<1>7. ASSUME NEW s \in TalkSet, talk' = s, s.pc \in {"next", "log", "close"}, s.id = talk.id,
             s.group = talk.group, SaidRow(row, talk) => s.turn = more
      PROVE  TalkInv'
  <2>1. s.pc \in BeforeEnd /\ s.pc \notin Ending /\ s.pc \notin {"generate", "review"}
    BY <1>7 DEF BeforeEnd, Ending
  <2>2. SaidRow(row, talk) => SaidRow(new, s)
    BY <1>1, <1>5, <1>7, <2>1 DEF SaidRow
  <2>3. RecallRow(new, s, Base(driver, raised))
    BY <1>1, <1>5, <1>6, <2>1 DEF ActiveRow, RecallRow, Ending
  <2>4. MarkedRow(new, s)
    BY <1>7 DEF MarkedRow
  <2>5. ActiveRow(new, s, driver, raised)
    BY <1>6, <2>2, <2>3, <2>4 DEF ActiveRow
  <2>6. TalkShape(s)
    BY <1>1, <1>2, <1>7 DEF TalkShape
  <2> QED
    BY <1>1, <1>3, <1>5, <1>7, <2>5, <2>6, RowMoves
<1>8. talk.turn \in Int /\ talk.ticks + 1 \in Nat
  BY <1>2 DEF TalkSet
<1>9. CASE talk.line = "opening"
  <2> DEFINE u == LineEnds(talk, "next")
             s == [u EXCEPT !.turn = 1]
  <2>1. talk' = s
    BY <1>9 DEF Spoken
  <2>2. u \in TalkSet /\ u.pc = "next" /\ u.id = talk.id /\ u.group = talk.group
    BY <1>2, LineEndsIs DEF BeforeEnd
  <2> HIDE DEF u
  <2>3. s \in TalkSet /\ s.pc = "next" /\ s.id = talk.id /\ s.group = talk.group /\ s.turn = 1
    BY <2>2 DEF TalkSet
  <2> HIDE DEF s
  <2>4. SaidRow(row, talk) => row.said = 0
    BY <1>1, <1>9 DEF SaidRow
  <2> QED
    BY <1>4, <1>7, <2>1, <2>3, <2>4
<1>10. CASE talk.line = "turn"
  <2> DEFINE u == LineEnds(talk, "log")
             n == talk.ticks + 1
             v == [u EXCEPT !.ticks = n]
             s == [v EXCEPT !.lively = lively, !.skipped = FALSE]
  <2>1. u \in TalkSet /\ u.pc = "log" /\ u.id = talk.id /\ u.group = talk.group /\ u.turn = talk.turn
        /\ u.ticks = talk.ticks
    <3>1. "log" \in BeforeEnd
      BY DEF BeforeEnd
    <3>2. u.ticks = talk.ticks
      BY <1>2 DEF LineEnds, TalkSet
    <3> HIDE DEF u
    <3>3. u = LineEnds(talk, "log")
      BY DEF u
    <3> QED
      BY <1>2, <3>1, <3>2, <3>3, LineEndsIs
  <2>2. talk' = s
    BY <1>10, <2>1 DEF Spoken
  <2> HIDE DEF u
  <2>3. n \in Nat
    BY <1>8
  <2> HIDE DEF n
  <2>4. v \in TalkSet /\ v.pc = "log" /\ v.id = talk.id /\ v.group = talk.group /\ v.turn = talk.turn
    BY <2>1, <2>3 DEF TalkSet
  <2> HIDE DEF v
  <2>5. s \in TalkSet /\ s.pc = "log" /\ s.id = talk.id /\ s.group = talk.group /\ s.turn = talk.turn
    BY <2>4 DEF TalkSet
  <2> HIDE DEF s
  <2>6. SaidRow(row, talk) => row.said = talk.turn - 1
    BY <1>1, <1>10 DEF SaidRow
  <2>7. SaidRow(row, talk) => s.turn = more
    BY <1>4, <1>8, <2>5, <2>6
  <2> QED
    BY <1>7, <2>2, <2>5, <2>7
<1>11. CASE talk.line = "closing"
  <2> DEFINE u == LineEnds(talk, "close")
             n == u.turn + 1
             s == [u EXCEPT !.turn = n]
  <2>1. talk' = s
    BY <1>11 DEF Spoken
  <2>2. u \in TalkSet /\ u.pc = "close" /\ u.id = talk.id /\ u.group = talk.group /\ u.turn = talk.turn
    <3>1. "close" \in BeforeEnd
      BY DEF BeforeEnd
    <3> QED
      BY <1>2, <3>1, LineEndsIs
  <2> HIDE DEF u
  <2>3. n = talk.turn + 1 /\ n \in Int
    BY <1>8, <2>2
  <2> HIDE DEF n
  <2>4. s \in TalkSet /\ s.pc = "close" /\ s.id = talk.id /\ s.group = talk.group /\ s.turn = n
    BY <2>2, <2>3 DEF TalkSet
  <2> HIDE DEF s
  <2>5. SaidRow(row, talk) => row.said = talk.turn
    BY <1>1, <1>11 DEF SaidRow
  <2>6. SaidRow(row, talk) => s.turn = more
    BY <1>4, <2>3, <2>4, <2>5
  <2> QED
    BY <1>7, <2>1, <2>4, <2>6
<1> QED
  BY <1>1, <1>9, <1>10, <1>11

LEMMA Closes == ASSUME TalkInv, ReviewInv', CloseRow PROVE TalkInv'
<1>1. /\ talk.pc = "close" /\ UNCHANGED <<driver, raised>> /\ talk.id # 0
  BY DEF CloseRow, Engaged, managementVars, TalkInv, TalkShape
<1>2. /\ rows[talk.id] \in RowSet /\ ActiveRow(rows[talk.id], talk, driver, raised)
      /\ talk.group # {} /\ talk \in TalkSet /\ talk.id \in 1 .. Len(rows) /\ rows \in Seq(RowSet)
      /\ raised \in Nat
  BY <1>1, ActiveIs
<1> DEFINE row == rows[talk.id]
           new == [row EXCEPT !.closed = TRUE, !.count = talk.turn]
           s == [talk EXCEPT !.pc = "recall", !.left = talk.group]
<1>3. rows' = [rows EXCEPT ![talk.id] = new] /\ talk' = s
  BY <1>2 DEF CloseRow
<1>4. talk.turn \in Int /\ talk.group \in SUBSET Agents
  BY <1>2 DEF TalkSet
<1>5. /\ new \in RowSet /\ new.said = row.said /\ new.closed = TRUE /\ new.lost = row.lost
      /\ new.count = talk.turn /\ new.recalls = row.recalls /\ new.journals = row.journals
  BY <1>2, <1>4 DEF RowSet
<1>6. /\ s \in TalkSet /\ s.pc = "recall" /\ s.id = talk.id /\ s.group = talk.group
      /\ s.left = talk.group /\ s.turn = talk.turn
  BY <1>2, <1>4 DEF TalkSet, Ending
<1>7. row \in RowSet /\ ActiveRow(row, talk, driver, raised)
  BY <1>2
<1> HIDE DEF row, new, s
<1>8. TalkShape(s)
  BY <1>1, <1>2, <1>6 DEF TalkShape
<1>9. Exact(driver, raised) => SaidRow(new, s)
  <2>1. SaidRow(row, talk) => row.said = talk.turn
    BY <1>1 DEF SaidRow, BeforeEnd
  <2>2. SaidRow(row, talk) => SaidRow(new, s)
    BY <1>5, <1>6, <2>1 DEF SaidRow, BeforeEnd
  <2> QED
    BY <1>7, <2>2 DEF ActiveRow
<1>10. \A a \in Agents : /\ row.recalls[a] \in Nat /\ row.journals[a] \in Nat
                         /\ row.recalls[a] <= Base(driver, raised) /\ row.journals[a] <= Base(driver, raised)
  BY <1>1, <1>7 DEF RowSet, ActiveRow, RecallRow, BeforeEnd
<1>11. RecallRow(new, s, Base(driver, raised))
  <2>1. Base(driver, raised) \in Nat
    BY <1>2 DEF Base
  <2>2. s.pc # "journal" /\ s.pc = "recall"
    BY <1>6
  <2> QED
    BY <1>5, <1>10, <2>1, <2>2 DEF RecallRow
<1>12. raised = 0 => MarkedRow(new, s)
  <2>1. SUFFICES ASSUME raised = 0 PROVE new.recalls = Marks({})
    BY <1>6 DEF MarkedRow
  <2>2. Base(driver, raised) = 0
    BY <2>1 DEF Base
  <2>3. \A a \in Agents : row.recalls[a] = 0
    BY <1>10, <2>2
  <2>4. row.recalls \in [Agents -> Nat]
    BY <1>7 DEF RowSet
  <2> QED
    BY <1>5, <2>3, <2>4 DEF Marks
<1> QED
  BY <1>1, <1>3, <1>5, <1>6, <1>8, <1>9, <1>11, <1>12, RowMoves DEF ActiveRow

LEMMA MarkOneMore ==
    ASSUME NEW S, NEW a \in Agents, a \notin S
    PROVE  [Marks(S) EXCEPT ![a] = @ + 1] = Marks(S \cup {a})
<1>1. Marks(S)[a] + 1 = 1
  BY DEF Marks
<1>2. [Marks(S) EXCEPT ![a] = 1] = Marks(S \cup {a})
  BY DEF Marks
<1> QED
  BY <1>1, <1>2

LEMMA OneMore ==
    ASSUME NEW f \in [Agents -> Nat], NEW a \in Agents
    PROVE  LET g == [f EXCEPT ![a] = @ + 1] IN
           g \in [Agents -> Nat] /\ \A b \in Agents : g[b] = IF b = a THEN f[b] + 1 ELSE f[b]
<1> DEFINE n == f[a] + 1
           h == [f EXCEPT ![a] = n]
<1>1. n \in Nat
  OBVIOUS
<1> HIDE DEF n
<1>2. h \in [Agents -> Nat] /\ \A b \in Agents : h[b] = IF b = a THEN n ELSE f[b]
  BY <1>1
<1> QED
  BY <1>2 DEF n

(* What passing on to the next participant leaves.                         *)
LEMMA PassesOn ==
    ASSUME talk \in TalkSet, talk.id # 0, talk.group # {}, TalkShape(talk),
           NEW here \in {"recall", "journal"}, talk.pc = here, NEW a \in talk.left,
           NEW pc \in {"journal", "record"}, Passes(a, pc)
    PROVE  \E s \in TalkSet :
              /\ talk' = s /\ s.id = talk.id /\ s.group = talk.group /\ s.turn = talk.turn /\ TalkShape(s)
              /\ \/ s.pc = pc /\ s.left = talk.group /\ talk.left = {a}
                 \/ s.pc = here /\ s.left = talk.left \ {a}
<1>1. talk.left \in SUBSET Agents /\ talk.group \in SUBSET Agents /\ talk.left \subseteq talk.group
  BY DEF TalkSet, TalkShape
<1>2. CASE talk.left = {a}
  <2> DEFINE s == [talk EXCEPT !.pc = pc, !.left = talk.group]
  <2>1. talk' = s
    BY <1>2 DEF Passes
  <2>2. s \in TalkSet /\ s.id = talk.id /\ s.group = talk.group /\ s.turn = talk.turn
        /\ s.pc = pc /\ s.left = talk.group
    BY <1>1 DEF TalkSet, Ending
  <2> HIDE DEF s
  <2>3. TalkShape(s)
    BY <2>2 DEF TalkShape
  <2> QED
    BY <1>2, <2>1, <2>2, <2>3
<1>3. CASE talk.left # {a}
  <2> DEFINE rest == talk.left \ {a}
             s == [talk EXCEPT !.left = rest]
  <2>1. talk' = s
    BY <1>3 DEF Passes, TalkSet
  <2>2. rest \in SUBSET Agents /\ rest \subseteq talk.group /\ rest # {}
    BY <1>1, <1>3
  <2>3. s \in TalkSet /\ s.id = talk.id /\ s.group = talk.group /\ s.turn = talk.turn
        /\ s.pc = here /\ s.left = rest
    BY <2>2 DEF TalkSet
  <2> HIDE DEF s
  <2>4. TalkShape(s)
    BY <2>2, <2>3 DEF TalkShape
  <2> QED
    BY <2>1, <2>3, <2>4
<1> QED
  BY <1>2, <1>3

LEMMA Compacts == ASSUME TalkInv, ReviewInv', Compact PROVE TalkInv'
<1>1. talk.pc = "recall" /\ UNCHANGED <<driver, raised>> /\ talk.id # 0 /\ TalkShape(talk)
  BY DEF Compact, Engaged, managementVars, TalkInv, TalkShape
<1>2. /\ rows[talk.id] \in RowSet /\ ActiveRow(rows[talk.id], talk, driver, raised)
      /\ talk.group # {} /\ talk \in TalkSet /\ talk.id \in 1 .. Len(rows) /\ rows \in Seq(RowSet)
      /\ raised \in Nat
  BY <1>1, ActiveIs
<1>3. PICK a \in talk.left : /\ rows' = [rows EXCEPT ![talk.id].recalls[a] = @ + 1]
                             /\ Passes(a, "journal")
  BY DEF Compact
<1>4. PICK s \in TalkSet :
         /\ talk' = s /\ s.id = talk.id /\ s.group = talk.group /\ s.turn = talk.turn /\ TalkShape(s)
         /\ \/ s.pc = "journal" /\ s.left = talk.group /\ talk.left = {a}
            \/ s.pc = "recall" /\ s.left = talk.left \ {a}
  BY <1>1, <1>2, <1>3, PassesOn
<1>5. a \in Agents /\ talk.left \subseteq talk.group /\ talk.group \subseteq Agents /\ a \in talk.group
  BY <1>1, <1>2 DEF TalkSet, TalkShape
<1> DEFINE row == rows[talk.id]
           more == [row.recalls EXCEPT ![a] = @ + 1]
           new == [row EXCEPT !.recalls = more]
<1>6. rows' = [rows EXCEPT ![talk.id] = new]
  BY <1>2, <1>3
<1>7. /\ row.recalls \in [Agents -> Nat] /\ more \in [Agents -> Nat]
      /\ \A b \in Agents : more[b] = IF b = a THEN row.recalls[b] + 1 ELSE row.recalls[b]
  <2>1. row.recalls \in [Agents -> Nat]
    BY <1>2 DEF RowSet
  <2> HIDE DEF row
  <2> QED
    BY <1>5, <2>1, OneMore
<1>m. \A S : row.recalls = Marks(S) /\ a \notin S => more = Marks(S \cup {a})
  BY <1>5, MarkOneMore
<1> HIDE DEF more
<1>8. /\ new \in RowSet /\ new.said = row.said /\ new.closed = row.closed /\ new.lost = row.lost
      /\ new.count = row.count /\ new.recalls = more /\ new.journals = row.journals
  BY <1>2, <1>7 DEF RowSet
<1>9. row \in RowSet /\ ActiveRow(row, talk, driver, raised)
  BY <1>2
<1> HIDE DEF row, new
<1>10. SaidRow(row, talk) => SaidRow(new, s)
  BY <1>1, <1>4, <1>8 DEF SaidRow, BeforeEnd, Ending
<1>11. RecallRow(new, s, Base(driver, raised))
  <2>1. Base(driver, raised) \in Nat
    BY <1>2 DEF Base
  <2>2. ASSUME NEW b \in Agents
        PROVE  /\ row.recalls[b] \in Nat /\ row.journals[b] \in Nat
               /\ row.recalls[b] <= Base(driver, raised) + 1 /\ row.journals[b] <= Base(driver, raised)
               /\ b \in talk.left => row.recalls[b] <= Base(driver, raised)
    BY <1>1, <1>9 DEF RowSet, ActiveRow, RecallRow
  <2>3. ASSUME NEW b \in Agents
        PROVE  /\ new.recalls[b] <= Base(driver, raised) + 1
               /\ s.pc = "recall" /\ b \in s.left => new.recalls[b] <= Base(driver, raised)
    BY <1>4, <1>7, <1>8, <2>1, <2>2
  <2>4. s.pc \notin BeforeEnd
    BY <1>4 DEF BeforeEnd
  <2> QED
    BY <1>8, <2>1, <2>2, <2>3, <2>4 DEF RecallRow
<1>12. raised = 0 /\ ~new.lost => MarkedRow(new, s)
  <2> SUFFICES ASSUME raised = 0, ~new.lost PROVE MarkedRow(new, s)
    OBVIOUS
  <2>1. row.recalls = Marks(talk.group \ talk.left)
    BY <1>1, <1>8, <1>9 DEF ActiveRow, MarkedRow
  <2>2. more = Marks((talk.group \ talk.left) \cup {a})
    BY <1>m, <2>1
  <2>3. CASE s.pc = "journal" /\ s.left = talk.group /\ talk.left = {a}
    <3>1. (talk.group \ talk.left) \cup {a} = talk.group
      BY <1>5, <2>3
    <3>2. \A b \in Agents : row.journals[b] = 0
      <4>1. Base(driver, raised) = 0
        BY DEF Base
      <4> QED
        BY <1>1, <1>9, <4>1 DEF RowSet, ActiveRow, RecallRow
    <3>3. row.journals = Marks({})
      BY <1>9, <3>2 DEF RowSet, Marks
    <3>4. s.group \ s.left = {}
      BY <1>4, <2>3
    <3> QED
      BY <1>4, <1>8, <2>2, <2>3, <3>1, <3>3, <3>4 DEF MarkedRow
  <2>4. CASE s.pc = "recall" /\ s.left = talk.left \ {a}
    <3>1. (talk.group \ talk.left) \cup {a} = s.group \ s.left
      BY <1>4, <1>5, <2>4
    <3> QED
      BY <1>8, <2>2, <2>4, <3>1 DEF MarkedRow
  <2> QED
    BY <1>4, <2>3, <2>4
<1>13. ActiveRow(new, s, driver, raised)
  BY <1>9, <1>10, <1>11, <1>12 DEF ActiveRow
<1> QED
  BY <1>1, <1>4, <1>6, <1>8, <1>13, RowMoves

LEMMA Journals == ASSUME TalkInv, ReviewInv', Journal PROVE TalkInv'
<1>1. talk.pc = "journal" /\ UNCHANGED <<driver, raised>> /\ talk.id # 0 /\ TalkShape(talk)
  BY DEF Journal, Engaged, managementVars, TalkInv, TalkShape
<1>2. /\ rows[talk.id] \in RowSet /\ ActiveRow(rows[talk.id], talk, driver, raised)
      /\ talk.group # {} /\ talk \in TalkSet /\ talk.id \in 1 .. Len(rows) /\ rows \in Seq(RowSet)
      /\ raised \in Nat
  BY <1>1, ActiveIs
<1>3. PICK a \in talk.left : /\ rows' = [rows EXCEPT ![talk.id].journals[a] = @ + 1]
                             /\ Passes(a, "record")
  BY DEF Journal
<1>4. PICK s \in TalkSet :
         /\ talk' = s /\ s.id = talk.id /\ s.group = talk.group /\ s.turn = talk.turn /\ TalkShape(s)
         /\ \/ s.pc = "record" /\ s.left = talk.group /\ talk.left = {a}
            \/ s.pc = "journal" /\ s.left = talk.left \ {a}
  BY <1>1, <1>2, <1>3, PassesOn
<1>5. a \in Agents /\ talk.left \subseteq talk.group /\ talk.group \subseteq Agents /\ a \in talk.group
  BY <1>1, <1>2 DEF TalkSet, TalkShape
<1> DEFINE row == rows[talk.id]
           more == [row.journals EXCEPT ![a] = @ + 1]
           new == [row EXCEPT !.journals = more]
<1>6. rows' = [rows EXCEPT ![talk.id] = new]
  BY <1>2, <1>3
<1>7. /\ row.journals \in [Agents -> Nat] /\ more \in [Agents -> Nat]
      /\ \A b \in Agents : more[b] = IF b = a THEN row.journals[b] + 1 ELSE row.journals[b]
  <2>1. row.journals \in [Agents -> Nat]
    BY <1>2 DEF RowSet
  <2> HIDE DEF row
  <2> QED
    BY <1>5, <2>1, OneMore
<1>m. \A S : row.journals = Marks(S) /\ a \notin S => more = Marks(S \cup {a})
  BY <1>5, MarkOneMore
<1> HIDE DEF more
<1>8. /\ new \in RowSet /\ new.said = row.said /\ new.closed = row.closed /\ new.lost = row.lost
      /\ new.count = row.count /\ new.journals = more /\ new.recalls = row.recalls
  BY <1>2, <1>7 DEF RowSet
<1>9. row \in RowSet /\ ActiveRow(row, talk, driver, raised)
  BY <1>2
<1> HIDE DEF row, new
<1>10. SaidRow(row, talk) => SaidRow(new, s)
  BY <1>1, <1>4, <1>8 DEF SaidRow, BeforeEnd, Ending
<1>11. RecallRow(new, s, Base(driver, raised))
  <2>1. Base(driver, raised) \in Nat
    BY <1>2 DEF Base
  <2>2. ASSUME NEW b \in Agents
        PROVE  /\ row.recalls[b] \in Nat /\ row.journals[b] \in Nat
               /\ row.recalls[b] <= Base(driver, raised) + 1 /\ row.journals[b] <= Base(driver, raised) + 1
               /\ b \in talk.left => row.journals[b] <= Base(driver, raised)
    BY <1>1, <1>9 DEF RowSet, ActiveRow, RecallRow
  <2>3. ASSUME NEW b \in Agents
        PROVE  /\ new.journals[b] <= Base(driver, raised) + 1
               /\ s.pc = "journal" /\ b \in s.left => new.journals[b] <= Base(driver, raised)
    BY <1>4, <1>7, <1>8, <2>1, <2>2
  <2>4. s.pc \notin BeforeEnd /\ s.pc # "recall"
    BY <1>4 DEF BeforeEnd
  <2> QED
    BY <1>8, <2>1, <2>2, <2>3, <2>4 DEF RecallRow
<1>12. raised = 0 /\ ~new.lost => MarkedRow(new, s)
  <2> SUFFICES ASSUME raised = 0, ~new.lost PROVE MarkedRow(new, s)
    OBVIOUS
  <2>1. row.journals = Marks(talk.group \ talk.left) /\ row.recalls = Marks(talk.group)
    BY <1>1, <1>8, <1>9 DEF ActiveRow, MarkedRow
  <2>2. more = Marks((talk.group \ talk.left) \cup {a})
    BY <1>m, <2>1
  <2>3. CASE s.pc = "record" /\ s.left = talk.group /\ talk.left = {a}
    <3>1. (talk.group \ talk.left) \cup {a} = talk.group
      BY <1>5, <2>3
    <3> QED
      BY <1>4, <1>8, <2>1, <2>2, <2>3, <3>1 DEF MarkedRow
  <2>4. CASE s.pc = "journal" /\ s.left = talk.left \ {a}
    <3>1. (talk.group \ talk.left) \cup {a} = s.group \ s.left
      BY <1>4, <1>5, <2>4
    <3> QED
      BY <1>4, <1>8, <2>1, <2>2, <2>4, <3>1 DEF MarkedRow
  <2> QED
    BY <1>4, <2>3, <2>4
<1>13. ActiveRow(new, s, driver, raised)
  BY <1>9, <1>10, <1>11, <1>12 DEF ActiveRow
<1> QED
  BY <1>1, <1>4, <1>6, <1>8, <1>13, RowMoves

LEMMA EndsEarly == ASSUME TalkInv, ReviewInv', StopsEarly PROVE TalkInv'
<1>1. /\ talk.pc \in {"recall", "journal"} /\ UNCHANGED <<driver, raised>>
      /\ talk.id # 0 /\ TalkShape(talk)
  BY DEF StopsEarly, managementVars, TalkInv, TalkShape
<1>2. /\ rows[talk.id] \in RowSet /\ ActiveRow(rows[talk.id], talk, driver, raised)
      /\ talk.group # {} /\ talk \in TalkSet /\ talk.id \in 1 .. Len(rows) /\ rows \in Seq(RowSet)
      /\ raised \in Nat
  BY <1>1, ActiveIs
<1> DEFINE row == rows[talk.id]
           new == [row EXCEPT !.lost = TRUE]
           pc == IF talk.pc = "recall" THEN "journal" ELSE "record"
           s == [talk EXCEPT !.pc = pc, !.left = talk.group]
<1>3. rows' = [rows EXCEPT ![talk.id] = new] /\ talk' = s
  BY <1>2 DEF StopsEarly, TalkSet
<1>4. /\ new \in RowSet /\ new.said = row.said /\ new.closed = row.closed /\ new.lost = TRUE
      /\ new.count = row.count /\ new.journals = row.journals /\ new.recalls = row.recalls
  BY <1>2 DEF RowSet
<1>5. pc \in {"journal", "record"} /\ (pc = "journal" => talk.pc = "recall")
  BY <1>1
<1> HIDE DEF pc
<1>6. s \in TalkSet /\ s.pc = pc /\ s.id = talk.id /\ s.group = talk.group /\ s.left = talk.group
  BY <1>2, <1>5 DEF TalkSet, Ending
<1>7. row \in RowSet /\ ActiveRow(row, talk, driver, raised)
  BY <1>2
<1> HIDE DEF row, new, s
<1>8. TalkShape(s)
  BY <1>1, <1>2, <1>5, <1>6 DEF TalkShape
<1>9. SaidRow(row, talk) => SaidRow(new, s)
  BY <1>1, <1>4, <1>5, <1>6 DEF SaidRow, BeforeEnd, Ending
<1>10. RecallRow(new, s, Base(driver, raised))
  <2>1. s.pc \notin BeforeEnd /\ s.pc # "recall"
    BY <1>5, <1>6 DEF BeforeEnd
  <2>2. RecallRow(row, talk, Base(driver, raised))
    BY <1>7 DEF ActiveRow
  <2> QED
    BY <1>4, <1>5, <1>6, <2>1, <2>2 DEF RecallRow
<1>11. ActiveRow(new, s, driver, raised)
  BY <1>4, <1>7, <1>9, <1>10 DEF ActiveRow
<1> QED
  BY <1>1, <1>3, <1>4, <1>6, <1>8, <1>11, RowMoves

(* The conversation is over.                                               *)
LEMMA Ends == ASSUME TalkInv, ReviewInv', RecordEnd PROVE TalkInv'
<1>1. /\ talk.pc = "record" /\ UNCHANGED <<driver, raised, rows>> /\ talk.id # 0 /\ talk' = Quiet
  BY DEF RecordEnd, Engaged, managementVars, TalkInv, TalkShape
<1>2. /\ rows[talk.id] \in RowSet /\ ActiveRow(rows[talk.id], talk, driver, raised)
      /\ talk.group # {} /\ talk \in TalkSet /\ raised \in Nat
  BY <1>1, ActiveIs
<1> DEFINE row == rows[talk.id]
<1>3. row \in RowSet /\ ActiveRow(row, talk, driver, raised)
  BY <1>2
<1> HIDE DEF row
<1>4. Exact(driver, raised) => row.closed /\ row.count = row.said
  BY <1>1, <1>3 DEF ActiveRow, SaidRow, Ending
<1>5. raised = 0 => Exact(driver, raised)
  BY DEF Exact
<1>6. \A a \in Agents :
         row.recalls[a] <= Base(driver, raised) + 1 /\ row.journals[a] <= Base(driver, raised) + 1
  BY <1>3 DEF ActiveRow, RecallRow
<1>7. raised = 0 /\ ~row.lost => row.recalls = row.journals /\ \E a \in Agents : row.recalls[a] = 1
  <2>1. PICK a \in talk.group : a \in Agents
    BY <1>2 DEF TalkSet
  <2>2. Marks(talk.group)[a] = 1
    BY <2>1 DEF Marks
  <2> QED
    BY <1>1, <1>3, <2>1, <2>2 DEF ActiveRow, MarkedRow
<1>8. OverRow(row, driver, raised)
  BY <1>4, <1>5, <1>6, <1>7 DEF OverRow
<1> QED
  BY <1>1, <1>2, <1>8, QuietIs, RowsStay DEF row

(* An await raised: the loop goes on, a phase is over.                     *)
LEMMA SurvivesARaise ==
    ASSUME TalkInv, ReviewInv', driver' = driver, rows' = rows, talk.id # 0,
           raised <= raised', raised' # 0, raised' \in Nat,
           raised < raised' \/ talk.pc \in BeforeEnd, talk' = Survives
    PROVE  TalkInv'
<1>1. /\ rows[talk.id] \in RowSet /\ ActiveRow(rows[talk.id], talk, driver, raised)
      /\ talk.group # {} /\ talk \in TalkSet /\ raised \in Nat
  BY ActiveIs
<1>2. driver \in {"loop", "phase"}
  BY DEF TalkInv
<1> DEFINE row == rows[talk.id]
<1>3. row \in RowSet /\ ActiveRow(row, talk, driver, raised)
  BY <1>1
<1> HIDE DEF row
<1>4. \A a \in Agents :
         /\ row.recalls[a] \in Nat /\ row.journals[a] \in Nat
         /\ row.recalls[a] <= Base(driver, raised) + 1 /\ row.journals[a] <= Base(driver, raised) + 1
         /\ talk.pc \in BeforeEnd =>
               row.recalls[a] <= Base(driver, raised) /\ row.journals[a] <= Base(driver, raised)
  BY <1>3 DEF ActiveRow, RecallRow, RowSet
<1>5. CASE driver = "loop"
  <2> DEFINE u == LineEnds(talk, "next")
             s == [u EXCEPT !.left = {}]
  <2>1. talk' = s
    BY <1>5 DEF Survives, Active
  <2>2. "next" \in BeforeEnd
    BY DEF BeforeEnd
  <2>3. u \in TalkSet /\ u.pc = "next" /\ u.id = talk.id /\ u.group = talk.group
    BY <1>1, <2>2, LineEndsIs
  <2> HIDE DEF u
  <2>4. s \in TalkSet /\ s.pc = "next" /\ s.id = talk.id /\ s.group = talk.group
    BY <2>3 DEF TalkSet
  <2> HIDE DEF s
  <2>5. TalkShape(s)
    BY <1>1, <2>4 DEF TalkShape
  <2>6. /\ Base(driver, raised) = raised /\ Base(driver, raised') = raised'
        /\ ~Exact(driver, raised')
    BY <1>5 DEF Base, Exact
  <2>7. \A a \in Agents : row.recalls[a] <= raised' /\ row.journals[a] <= raised'
    BY <1>1, <1>4, <2>6
  <2>8. RecallRow(row, s, Base(driver, raised'))
    BY <1>4, <2>4, <2>6, <2>7 DEF RecallRow
  <2>9. ActiveRow(row, s, driver, raised')
    BY <2>6, <2>8 DEF ActiveRow
  <2> QED
    BY <2>1, <2>4, <2>5, <2>9, RowsStay DEF row
<1>6. CASE driver = "phase"
  <2>1. talk' = Quiet
    BY <1>6 DEF Survives
  <2>2. /\ Base(driver, raised) = 0 /\ Base(driver, raised') = 0 /\ Exact(driver, raised)
    BY <1>6 DEF Base, Exact
  <2>3. talk.pc \in BeforeEnd \cup Ending
    BY <1>1 DEF TalkInv, TalkShape, TalkSet
  <2>4. row.closed => row.count = row.said
    BY <1>3, <2>2, <2>3 DEF ActiveRow, SaidRow
  <2>5. OverRow(row, driver, raised')
    BY <1>4, <2>2, <2>4 DEF OverRow
  <2> QED
    BY <2>1, <2>5, QuietIs, RowsStay DEF row
<1> QED
  BY <1>2, <1>5, <1>6

LEMMA TalkStart == ConversationInit => TalkInv
<1> SUFFICES ASSUME ConversationInit PROVE TalkInv
  OBVIOUS
<1>1. Unasked \in Frames /\ Unasked.pc = "idle"
  BY DEF Unasked, Frames
<1>2. ReviewInv
  BY <1>1 DEF ConversationInit, ManagementInit, ReviewInv
<1>3. rows = <<>> /\ talk = Quiet /\ driver \in {"loop", "phase"}
  BY ConversationAssumption DEF ConversationInit
<1>4. rows \in Seq(RowSet) /\ Len(rows) = 0
  BY <1>3
<1> QED
  BY <1>2, <1>3, <1>4, QuietIs DEF TalkInv

(* What becomes of the reviews when the engine is their caller.            *)
LEMMA EngineReviews ==
    ASSUME TalkInv, ConversationNext
    PROVE  ReviewInv' /\ raised <= raised'
<1>i. ReviewInv /\ raised \in Nat /\ Engine \in Reviewers
  BY DEF TalkInv, ReviewInv, Reviewers
<1>1. CASE ManagementNext
  BY <1>i, <1>1, ManagementKept, RaisedGrows
<1>2. CASE UNCHANGED managementVars
  BY <1>i, <1>2 DEF managementVars, ReviewInv
<1>3. CASE Generate
  <2>1. CASE UNCHANGED review
    BY <1>i, <1>3, <2>1 DEF Generate, ReviewInv
  <2>2. CASE BeginReview(Engine, talk.who)
    <3>1. talk.who \in Agents /\ UNCHANGED <<policy, muted, late, raised>>
      BY <1>3 DEF Generate, Engaged, TalkInv, TalkShape
    <3>2. /\ review' \in [Reviewers -> Frames]
          /\ \A q \in Reviewers : q # Engine => review'[q] = review[q]
          /\ review'[Engine].agent \in Agents /\ review'[Engine].pc \in {"done", "screen"}
          /\ MayPass(review'[Engine]) => policy # "enforce"
      <4>1. ASSUME NEW a \in Agents, BeginReview(Engine, a)
            PROVE  /\ review' \in [Reviewers -> Frames]
                   /\ \A q \in Reviewers : q # Engine => review'[q] = review[q]
                   /\ review'[Engine].agent \in Agents /\ review'[Engine].pc \in {"done", "screen"}
                   /\ MayPass(review'[Engine]) => policy # "enforce"
        BY <1>i, <4>1, BeginLeaves
      <4> QED
        BY <2>2, <3>1, <4>1
    <3>3. policy # "enforce" => muted = {}
      BY <1>i DEF ReviewInv
    <3>4. raised' \in Nat /\ raised <= raised'
      BY <1>i, <3>1
    <3> QED
      BY <1>i, <3>1, <3>2, <3>3, <3>4, ReviewMoves
  <2> QED
    BY <1>3, <2>1, <2>2 DEF Generate
<1>4. CASE TakeVerdict
  <2>1. Delivered(Engine) /\ raised' = raised
    BY <1>4 DEF TakeVerdict, Delivered
  <2>2. Said(Engine) \/ UNCHANGED late
    BY <1>4 DEF TakeVerdict
  <2> QED
    BY <1>i, <2>1, <2>2, LineSaid, DeliveryKeeps
<1>5. CASE ReviewRaised
  <2>1. Delivered(Engine) /\ raised' = raised /\ late' = late
    BY <1>5 DEF ReviewRaised, Delivered
  <2> QED
    BY <1>i, <2>1, DeliveryKeeps
<1>6. CASE EngineRaises
  <2>1. raised' = raised + 1 /\ UNCHANGED <<policy, muted, review, late>>
    BY <1>6 DEF EngineRaises
  <2>2. raised' \in Nat /\ raised <= raised' /\ raised' # 0
    BY <1>i, <2>1
  <2> QED
    BY <1>i, <2>1, <2>2 DEF ReviewInv
<1> QED
  BY <1>1, <1>2, <1>3, <1>4, <1>5, <1>6 DEF ConversationNext, EngineStep, StartConversation, Continue,
     EndConversation, LogTurn, CloseRow, Compact, Journal, StopsEarly, RecordEnd, StopEngine

LEMMA TalkKept == TalkInv /\ [ConversationNext]_talkVars => TalkInv'
<1> SUFFICES ASSUME TalkInv, [ConversationNext]_talkVars PROVE TalkInv'
  OBVIOUS
<1>u. CASE UNCHANGED talkVars
  BY <1>u DEF talkVars, managementVars, TalkInv, ReviewInv
<1>n. CASE ConversationNext
  <2>i. ReviewInv' /\ raised <= raised' /\ raised \in Nat /\ raised' \in Nat /\ talk \in TalkSet
    <3>1. ReviewInv' /\ raised <= raised'
      BY <1>n, EngineReviews
    <3> QED
      BY <3>1 DEF TalkInv, ReviewInv
  <2>1. CASE ManagementNext /\ UNCHANGED <<driver, talk, rows>>
    <3>1. talk.id # 0 => ActiveRow(rows[talk.id], talk, driver, raised')
      <4>1. PICK m : m = raised'
        OBVIOUS
      <4> QED
        BY <2>i, <4>1, ActiveIs, ActiveRowStays
    <3>2. TalkShape(talk)
      BY DEF TalkInv
    <3>3. TalkShape(talk') /\ talk' \in TalkSet /\ talk'.id = talk.id /\ rows' = rows /\ driver' = driver
      BY <2>1, <2>i, <3>2
    <3>4. talk.id # 0 => ActiveRow(rows[talk.id], talk', driver, raised')
      BY <2>1, <3>1
    <3> QED
      BY <2>i, <3>3, <3>4, RowsStay
  <2>2. CASE Continue
    <3>1. /\ talk.pc = "next" /\ talk.pc \in BeforeEnd /\ talk.id # 0
          /\ UNCHANGED <<driver, rows, raised>>
      BY <2>2 DEF Continue, Engaged, managementVars, TalkInv, TalkShape, BeforeEnd
    <3>2. CASE talk' = [talk EXCEPT !.pc = "end"]
      <4> DEFINE s == [talk EXCEPT !.pc = "end"]
      <4>1. s \in TalkSet /\ s.pc = "end" /\ s.id = talk.id /\ s.group = talk.group /\ s.turn = talk.turn
        BY <2>i DEF TalkSet, BeforeEnd
      <4>2. talk' = s
        BY <3>2
      <4> HIDE DEF s
      <4>3. SaidRow(rows[talk.id], talk) => SaidRow(rows[talk.id], s)
        BY <3>1, <4>1 DEF SaidRow, BeforeEnd, Ending
      <4>4. s.pc \in BeforeEnd
        BY <4>1 DEF BeforeEnd
      <4> QED
        BY <2>i, <3>1, <4>1, <4>2, <4>3, <4>4, TalkMoves
    <3>3. ASSUME NEW who \in talk.group, talk' = Generates([talk EXCEPT !.turn = @ + 1], "turn", who)
          PROVE  TalkInv'
      <4> DEFINE n == talk.turn + 1
                 u == [talk EXCEPT !.turn = n]
                 s == Generates(u, "turn", who)
      <4>1. n = talk.turn + 1 /\ n \in Int /\ talk.turn \in Int /\ who \in Agents
        BY <2>i DEF TalkSet
      <4>2. talk' = s
        BY <3>3
      <4> HIDE DEF n
      <4>3. u \in TalkSet /\ u.id = talk.id /\ u.group = talk.group /\ u.turn = n
        BY <2>i, <4>1 DEF TalkSet
      <4> HIDE DEF u
      <4>4. /\ s \in TalkSet /\ s.pc = "generate" /\ s.id = talk.id /\ s.group = talk.group
            /\ s.turn = n /\ s.line = "turn" /\ s.who = who
        BY <4>1, <4>3, GeneratesIs
      <4> HIDE DEF s
      <4>5. n - 1 = talk.turn
        BY <4>1
      <4>6. SaidRow(rows[talk.id], talk) => SaidRow(rows[talk.id], s)
        BY <3>1, <4>4, <4>5 DEF SaidRow, BeforeEnd, Ending
      <4>7. s.pc \in BeforeEnd
        BY <4>4 DEF BeforeEnd
      <4> QED
        BY <2>i, <3>1, <4>1, <4>2, <4>4, <4>6, <4>7, TalkMoves
    <3> QED
      BY <2>2, <3>2, <3>3 DEF Continue
  <2>3. CASE EndConversation
    <3>1. /\ talk.pc = "end" /\ talk.pc \in BeforeEnd /\ talk.id # 0
          /\ UNCHANGED <<driver, rows, raised>>
      BY <2>3 DEF EndConversation, Engaged, managementVars, TalkInv, TalkShape, BeforeEnd
    <3>2. PICK who \in talk.group : talk' = Generates(talk, "closing", who)
      BY <2>3 DEF EndConversation
    <3> DEFINE s == Generates(talk, "closing", who)
    <3>3. who \in Agents
      BY <2>i DEF TalkSet
    <3>4. /\ s \in TalkSet /\ s.pc = "generate" /\ s.id = talk.id /\ s.group = talk.group
          /\ s.turn = talk.turn /\ s.line = "closing" /\ s.who = who
      BY <2>i, <3>3, GeneratesIs
    <3>5. talk' = s
      BY <3>2
    <3> HIDE DEF s
    <3>6. SaidRow(rows[talk.id], talk) => SaidRow(rows[talk.id], s)
      BY <3>1, <3>4 DEF SaidRow, BeforeEnd, Ending
    <3>7. s.pc \in BeforeEnd
      BY <3>4 DEF BeforeEnd
    <3> QED
      BY <2>i, <3>1, <3>3, <3>4, <3>5, <3>6, <3>7, TalkMoves
  <2>4. CASE Generate
    <3>1. talk.pc = "generate" /\ UNCHANGED <<driver, rows, raised>> /\ talk.id # 0 /\ talk.pc \in BeforeEnd
          /\ talk.line # "none" /\ talk.who \in Agents
      BY <2>4 DEF Generate, Engaged, TalkInv, TalkShape, BeforeEnd
    <3>2. CASE talk' = [talk EXCEPT !.pc = "review"]
      <4> DEFINE s == [talk EXCEPT !.pc = "review"]
      <4>1. /\ s \in TalkSet /\ s.pc = "review" /\ s.id = talk.id /\ s.group = talk.group
            /\ s.turn = talk.turn /\ s.line = talk.line /\ s.who = talk.who
        BY <2>i DEF TalkSet, BeforeEnd
      <4>2. talk' = s
        BY <3>2
      <4> HIDE DEF s
      <4>3. SaidRow(rows[talk.id], talk) => SaidRow(rows[talk.id], s)
        BY <3>1, <4>1 DEF SaidRow, BeforeEnd, Ending
      <4>4. s.pc \in BeforeEnd
        BY <4>1 DEF BeforeEnd
      <4> QED
        BY <2>i, <3>1, <4>1, <4>2, <4>3, <4>4, TalkMoves
    <3>3. CASE talk' \in {NextAttempt(talk), NoLine(talk)}
      BY <2>i, <3>1, <3>3, WithoutLine, AnotherAttempt
    <3> QED
      BY <2>4, <3>2, <3>3 DEF Generate
  <2>5. CASE TakeVerdict
    <3>1. talk.pc = "review" /\ UNCHANGED <<driver, raised>>
      BY <2>5 DEF TakeVerdict, Engaged, Delivered
    <3>2. ASSUME NEW lively \in BOOLEAN, talk' = Spoken(talk, lively),
                 rows' = [rows EXCEPT ![talk.id].said = @ + 1]
          PROVE  TalkInv'
      BY <2>i, <3>1, <3>2, Speaks
    <3>3. CASE rows' = rows /\ talk' \in {NextAttempt(talk), NoLine(talk)}
      BY <2>i, <3>1, <3>3, WithoutLine, AnotherAttempt
    <3> QED
      BY <2>5, <3>2, <3>3 DEF TakeVerdict
  <2>6. CASE LogTurn
    <3>1. /\ talk.pc = "log" /\ talk.pc \in BeforeEnd /\ talk.id # 0
          /\ UNCHANGED <<driver, rows, raised>>
      BY <2>6 DEF LogTurn, Engaged, managementVars, TalkInv, TalkShape, BeforeEnd
    <3> DEFINE n == NextRound(talk)
               pc == IF ShouldContinue(talk) THEN "next" ELSE "end"
               s == [talk EXCEPT !.rounds = n, !.pc = pc]
    <3>2. talk' = s
      BY <2>6 DEF LogTurn
    <3>3. n \in Nat /\ pc \in {"next", "end"}
      BY <2>i DEF NextRound, TalkSet
    <3> HIDE DEF n, pc
    <3>4. s \in TalkSet /\ s.pc = pc /\ s.id = talk.id /\ s.group = talk.group /\ s.turn = talk.turn
      BY <2>i, <3>3 DEF TalkSet, BeforeEnd
    <3> HIDE DEF s
    <3>5. SaidRow(rows[talk.id], talk) => SaidRow(rows[talk.id], s)
      BY <3>1, <3>3, <3>4 DEF SaidRow, BeforeEnd, Ending
    <3>6. s.pc \in BeforeEnd
      BY <3>3, <3>4 DEF BeforeEnd
    <3> QED
      BY <2>i, <3>1, <3>2, <3>3, <3>4, <3>5, <3>6, TalkMoves
  <2>7. CASE EngineRaises
    <3>1. /\ talk.id # 0 /\ driver' = driver /\ rows' = rows /\ raised' = raised + 1 /\ talk' = Survives
      BY <2>7 DEF EngineRaises, TalkInv, TalkShape
    <3>2. raised < raised' /\ raised' # 0
      BY <2>i, <3>1
    <3> QED
      BY <2>i, <3>1, <3>2, SurvivesARaise
  <2>8. CASE ReviewRaised
    <3>1. /\ talk.id # 0 /\ talk.pc \in BeforeEnd /\ UNCHANGED <<driver, rows, raised>> /\ talk' = Survives
      BY <2>8 DEF ReviewRaised, Engaged, Delivered, TalkInv, TalkShape, BeforeEnd
    <3>2. raised # 0
      BY <2>8 DEF ReviewRaised, Reviewing, TalkInv, ReviewInv, Reviewers
    <3> QED
      BY <2>i, <3>1, <3>2, SurvivesARaise
  <2>9. CASE StopEngine
    <3> DEFINE s == [talk EXCEPT !.pc = "off"]
    <3>1. talk' = s /\ UNCHANGED <<driver, rows, raised>> /\ talk.pc \in {"idle", "next", "end"}
      BY <2>9 DEF StopEngine, managementVars
    <3>2. /\ s \in TalkSet /\ s.pc = "off" /\ s.id = talk.id /\ s.group = talk.group /\ s.turn = talk.turn
      BY <2>i DEF TalkSet, BeforeEnd
    <3> HIDE DEF s
    <3>3. s.pc \in BeforeEnd
      BY <3>2 DEF BeforeEnd
    <3>4. CASE talk.id = 0
      <4>1. TalkShape(s)
        BY <3>2, <3>4 DEF TalkShape
      <4> QED
        BY <2>i, <3>1, <3>2, <3>4, <4>1, RowsStay
    <3>5. CASE talk.id # 0
      <4>1. talk.pc \in BeforeEnd
        BY <3>1, <3>5 DEF TalkInv, TalkShape, BeforeEnd
      <4>2. SaidRow(rows[talk.id], talk) => SaidRow(rows[talk.id], s)
        BY <3>1, <3>2, <4>1 DEF SaidRow, BeforeEnd, Ending
      <4> QED
        BY <2>i, <3>1, <3>2, <3>3, <3>5, <4>1, <4>2, TalkMoves
    <3> QED
      BY <3>4, <3>5
  <2> QED
    BY <1>n, <2>i, <2>1, <2>2, <2>3, <2>4, <2>5, <2>6, <2>7, <2>8, <2>9,
       Begins, Closes, Compacts, Journals, EndsEarly, Ends
       DEF ConversationNext, EngineStep
<1> QED
  BY <1>u, <1>n

LEMMA TalkInvHolds == ConversationSpec => []TalkInv
<1> QED
  BY TalkStart, TalkKept, PTL DEF ConversationSpec

(* Whatever is reviewed on however many sides, raised or stopped: a muted  *)
(* agent falls silent, the row of a conversation counts the lines that     *)
(* were spoken in it, a row stays open only where nothing was said, and a  *)
(* conversation is remembered once by each that took part.                 *)
THEOREM TalksAreSound == ConversationSpec => []TalkSound
<1>1. TalkInv => TalkSound
  <2> SUFFICES ASSUME TalkInv PROVE TalkSound
    OBVIOUS
  <2>r. DOMAIN rows = 1 .. Len(rows) /\ \A c \in 1 .. Len(rows) : rows[c] \in RowSet
    BY DEF TalkInv
  <2>i. ReviewInv /\ raised \in Nat /\ driver \in {"loop", "phase"}
    BY DEF TalkInv, ReviewInv
  <2>o. \A c \in 1 .. Len(rows) :
           IF c = talk.id THEN ActiveRow(rows[c], talk, driver, raised) ELSE OverRow(rows[c], driver, raised)
    BY DEF TalkInv
  <2>p. talk.pc \in {"idle"} \cup BeforeEnd \cup Ending /\ \A c \in 1 .. Len(rows) : c = talk.id => talk.pc # "idle"
    BY DEF TalkInv, TalkSet, TalkShape
  <2>1. MutedFallSilent
    <3> SUFFICES ASSUME NEW a \in Agents PROVE late[a] < Cardinality(Reviewers)
      BY DEF MutedFallSilent
    <3>e. Engine \in Reviewers
      BY DEF Reviewers
    <3>1. Cardinality(Reviewers) \in Nat /\ Cardinality(Passing(review, a)) \in Nat
      BY <3>e, PassingCount
    <3>2. CASE a \in muted
      <4>1. late[a] \in Nat /\ late[a] + Cardinality(Passing(review, a)) + 1 <= Cardinality(Reviewers)
        BY <2>i, <3>2 DEF ReviewInv
      <4> QED
        BY <3>1, <4>1
    <3>3. CASE a \notin muted
      <4>1. late[a] = 0
        BY <2>i, <3>3 DEF ReviewInv
      <4>2. Cardinality(Reviewers) # 0
        <5>1. IsFiniteSet(BotReviewers \cup {Engine})
          BY ManagementAssumption, FS_AddElement
        <5> QED
          BY <3>e, <5>1, FS_EmptySet DEF Reviewers
      <4> QED
        BY <3>1, <4>1, <4>2
    <3> QED
      BY <3>2, <3>3
  <2>2. RowsCountLines
    <3> SUFFICES ASSUME NEW c \in 1 .. Len(rows), rows[c].closed, Exact(driver, raised)
                 PROVE  rows[c].count = rows[c].said
      BY <2>r DEF RowsCountLines, Exact
    <3> QED
      BY <2>o, <2>p DEF OverRow, ActiveRow, SaidRow
  <2>3. OpenRowsAreSilent
    BY <2>o, <2>r DEF OpenRowsAreSilent, OverRow
  <2>4. RememberedOnce
    <3> SUFFICES ASSUME NEW c \in 1 .. Len(rows), NEW a \in Agents
                 PROVE  /\ rows[c].recalls[a] <= IF driver = "phase" THEN 1 ELSE 1 + raised
                        /\ rows[c].journals[a] <= IF driver = "phase" THEN 1 ELSE 1 + raised
      BY <2>r DEF RememberedOnce
    <3>1. rows[c].recalls[a] <= Base(driver, raised) + 1 /\ rows[c].journals[a] <= Base(driver, raised) + 1
      BY <2>o DEF OverRow, ActiveRow, RecallRow
    <3>2. Base(driver, raised) + 1 = IF driver = "phase" THEN 1 ELSE 1 + raised
      BY <2>i DEF Base
    <3> QED
      BY <3>1, <3>2
  <2>5. RememberedByAll
    BY <2>o, <2>r DEF RememberedByAll, OverRow
  <2> QED
    BY <2>1, <2>2, <2>3, <2>4, <2>5 DEF TalkSound
<1> QED
  BY <1>1, TalkInvHolds, PTL

-----------------------------------------------------------------------------
(* The kill path of the stream.                                            *)
StreamTypes ==
    /\ setup \in Wirings
    /\ switch \in BOOLEAN
    /\ lastActive \in {"unknown", "on", "off"}
    /\ state \in {"active", "safe"}
    /\ onAir \in BOOLEAN /\ pushing \in BOOLEAN
    /\ poll \in {"asleep", "entering", "leaving"}
    /\ sawOff \in BOOLEAN /\ halfway \in BOOLEAN

(* A reading that was noted as active left the controller in its safe      *)
(* state, and a controller that is safe took the feed off: without a       *)
(* restore callback the process it was given is all that is on the air,    *)
(* with one it has stopped that process.  The feed is brought back only in *)
(* a poll that read the switch as clear.                                   *)
StreamInv ==
    /\ StreamTypes
    /\ lastActive = "on" => state = "safe"
    /\ state = "safe" /\ ~halfway => ~onAir \/ OutOfReach
    /\ setup = "cut" /\ onAir => pushing
    /\ poll = "leaving" => sawOff

LEMMA StreamStart == StreamInit => StreamInv
BY StreamAssumption DEF StreamInit, StreamInv, StreamTypes

LEMMA StreamKept == StreamInv /\ [StreamNext]_streamVars => StreamInv'
<1> SUFFICES ASSUME StreamInv, [StreamNext]_streamVars PROVE StreamInv'
  OBVIOUS
<1> USE DEF StreamInv, StreamTypes, OutOfReach, Wirings
<1>1. CASE Throw
  BY <1>1 DEF Throw
<1>2. CASE ReadSwitch
  BY <1>2 DEF ReadSwitch, Act, Sees
<1>3. CASE ReadFails
  BY <1>3 DEF ReadFails, Act, Sees, Upset
<1>4. CASE Enter
  BY <1>4 DEF Enter, TakeOffAir, Untouched, Sees
<1>5. CASE EnterFails
  <2>1. /\ poll = "entering" /\ state = "active" /\ poll' = "asleep"
        /\ UNCHANGED <<setup, switch, lastActive, state, sawOff>>
    BY <1>5 DEF EnterFails
  <2>2. CASE Untouched /\ UNCHANGED halfway
    BY <2>1, <2>2 DEF Untouched
  <2>3. CASE TakeOffAir /\ halfway' = TRUE
    BY <2>1, <2>3 DEF TakeOffAir
  <2> QED
    BY <1>5, <2>2, <2>3 DEF EnterFails
<1>6. CASE Leave
  BY <1>6 DEF Leave, PutOnAir, Untouched, Sees
<1>7. CASE LeaveFails
  <2>1. /\ poll = "leaving" /\ state = "safe" /\ poll' = "asleep"
        /\ UNCHANGED <<setup, switch, lastActive, state, sawOff>>
    BY <1>7 DEF LeaveFails
  <2>2. CASE Untouched /\ UNCHANGED halfway
    BY <2>1, <2>2 DEF Untouched
  <2>3. CASE PutOnAir /\ halfway' = TRUE
    BY <2>1, <2>3 DEF PutOnAir
  <2> QED
    BY <1>7, <2>2, <2>3 DEF LeaveFails
<1>8. CASE RestartStream
  BY <1>8 DEF RestartStream, Upset
<1>9. CASE UNCHANGED streamVars
  BY <1>9 DEF streamVars
<1> QED
  BY <1>1, <1>2, <1>3, <1>4, <1>5, <1>6, <1>7, <1>8, <1>9 DEF StreamNext

(* Only a leave that found the controller safe puts the feed on the air.   *)
LEMMA FeedReturns ==
    ASSUME StreamInv, [StreamNext]_streamVars, onAir', ~onAir
    PROVE  sawOff
<1> USE DEF StreamInv, StreamTypes
<1>1. CASE Leave \/ LeaveFails
  BY <1>1 DEF Leave, LeaveFails
<1>2. CASE Throw \/ ReadSwitch \/ ReadFails \/ RestartStream \/ UNCHANGED streamVars
  BY <1>2 DEF Throw, ReadSwitch, ReadFails, RestartStream, streamVars
<1>3. CASE Enter \/ EnterFails
  BY <1>3 DEF Enter, EnterFails, TakeOffAir, Untouched
<1> QED
  BY <1>1, <1>2, <1>3 DEF StreamNext

(* The kill switch is obeyed however the controller is wired, whatever     *)
(* lookups and callbacks fail and however often the process restarts       *)
(* (kill_switch_monitor.py, stream_controller.py): only a feed that was    *)
(* restored by a process it does not know can stay on the air.             *)
THEOREM SwitchIsObeyed == StreamSpec => SwitchObeyed
<1>1. StreamInit => StreamInv
  BY StreamStart
<1>2. StreamInv /\ [StreamNext]_streamVars => StreamInv'
  BY StreamKept
<1>3. StreamInv => KilledWithinReach
  BY DEF StreamInv, KilledWithinReach
<1>4. StreamInv /\ [StreamNext]_streamVars => [onAir' /\ ~onAir => sawOff]_streamVars
  BY FeedReturns
<1> QED
  BY <1>1, <1>2, <1>3, <1>4, PTL DEF StreamSpec, SwitchObeyed, BackOnlyWhenClear

=============================================================================
