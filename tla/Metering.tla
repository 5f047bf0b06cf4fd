------------------------------ MODULE Metering ------------------------------
(***************************************************************************)
(* Usage events, period invoices and prepaid wallets                       *)
(* (app/metering/service.py and router.py) on PostgreSQL, READ COMMITTED.  *)
(*                                                                         *)
(* A usage request inserts one event; a top-up credits the wallet of its   *)
(* organization, creating it on first use; a close makes an invoice of the *)
(* usage since the last one and charges it to the wallet.  Every request   *)
(* may die between two of its transactions or inside one, which then rolls *)
(* back.  An invoice is named by the close that inserted it.               *)
(*                                                                         *)
(* The clock is that of the database and of every application server; two  *)
(* closes never read the same instant.                                     *)
(***************************************************************************)
EXTENDS Integers, FiniteSets

CONSTANTS
    Orgs,           \* the organizations
    Usages,         \* calls of POST /orgs/{id}/usage
    TopUps,         \* calls of POST /orgs/{id}/wallet/top-up
    Closes,         \* calls of POST /orgs/{id}/invoices
    OrgOf,          \* the organization of each call
    ClientKeys,     \* the idempotency keys clients choose
    KeyOf,          \* the key of each usage call and each top-up
    AmountOf,       \* amount_cents of each top-up
    Plans,          \* the plans a subscription may name
    Price(_, _),    \* the total of the invoice for a plan and a set of usage events
    Nobody,         \* no request
    NoRow           \* no row

Requests == Usages \cup TopUps \cup Closes

ASSUME RequestsAssumption ==
    /\ OrgOf \in [Requests -> Orgs]
    /\ Usages \cap TopUps = {}
    /\ Usages \cap Closes = {}
    /\ TopUps \cap Closes = {}
    /\ Nobody \notin Requests

ASSUME KeysAssumption ==
    /\ KeyOf \in [Usages \cup TopUps -> ClientKeys]
    /\ ClientKeys \cap Closes = {}      \* no client writes a key "invoice:<id>"

\* gt=0 of WalletTopUp, ge=0 of UsageRecord and the prices of the rate cards.
ASSUME AmountsAssumption ==
    /\ AmountOf \in [TopUps -> Nat \ {0}]
    /\ \A p \in Plans, E \in SUBSET Usages : Price(p, E) \in Nat

Invoice == [start: Nat, end: Nat, billed: SUBSET Usages, total: Nat,
            status: {"open", "paid", "uncollectible"}]

ASSUME NoRowAssumption == NoRow \notin Invoice

VARIABLES
    now,        \* the clock
    pc,         \* where each request is
    recorded,   \* the committed rows of usage_events, by the request that made them
    at,         \* created_at of a usage row: when its transaction began
    invoices,   \* the invoices table, by the close that inserted the row
    wallet,     \* the organizations with a committed customer_wallets row
    balance,    \* its balance_cents
    ledger,     \* the committed rows of wallet_transactions
    lock,       \* the request whose transaction holds the organization's wallet row
    start,      \* period_start a close has read
    end,        \* period_end it has read
    due,        \* the total it has rated
    billed,     \* the usage events it has summed
    invoice,    \* the invoice it is charging
    died,       \* history: requests that died under way
    summed,     \* history: closes that have summed their period
    late        \* history: usage events committed after a close had summed their time

usageVars == <<recorded, at, late>>
historyVars == <<died, summed>>
walletVars == <<wallet, balance, ledger, lock>>
closeVars == <<start, end, due, billed, invoice>>
vars == <<now, pc, usageVars, invoices, walletVars, closeVars, historyVars>>

-----------------------------------------------------------------------------

Steps == {"idle", "recording", "creating", "crediting", "updating", "committing",
          "timing", "summing", "invoicing", "loading", "settling", "debiting",
          "charging", "refusing", "done"}

Entry == [org: Orgs, key: ClientKeys \cup Closes, delta: Int]

TypeOK ==
    /\ now \in Nat
    /\ pc \in [Requests -> Steps]
    /\ recorded \subseteq Usages
    /\ at \in [Usages -> Nat]
    /\ invoices \in [Closes -> Invoice \cup {NoRow}]
    /\ wallet \subseteq Orgs
    /\ balance \in [Orgs -> Nat]
    /\ ledger \subseteq Entry
    /\ lock \in [Orgs -> Requests \cup {Nobody}]
    /\ start \in [Closes -> Nat]
    /\ end \in [Closes -> Nat]
    /\ due \in [Closes -> Nat]
    /\ billed \in [Closes -> SUBSET Usages]
    /\ invoice \in [Closes -> Closes \cup {Nobody}]
    /\ died \subseteq Requests
    /\ summed \subseteq Closes
    /\ late \subseteq Usages

Init ==
    /\ now = 1
    /\ pc = [r \in Requests |-> "idle"]
    /\ recorded = {}
    /\ at = [u \in Usages |-> 0]
    /\ invoices = [c \in Closes |-> NoRow]
    /\ wallet = {}
    /\ balance = [o \in Orgs |-> 0]
    /\ ledger = {}
    /\ lock = [o \in Orgs |-> Nobody]
    /\ start = [c \in Closes |-> 0]
    /\ end = [c \in Closes |-> 0]
    /\ due = [c \in Closes |-> 0]
    /\ billed = [c \in Closes |-> {}]
    /\ invoice = [c \in Closes |-> Nobody]
    /\ died = {}
    /\ summed = {}
    /\ late = {}

-----------------------------------------------------------------------------
(* Parts of transactions.                                                   *)

Goto(r, step) == pc' = [pc EXCEPT ![r] = step]

\* Slip: a transaction waits for the lock it holds.
UnlockedByAll(r) == lock[OrgOf[r]] = Nobody

\* The wallet row of r's organization is not locked by another transaction.
Unlocked(r) == lock[OrgOf[r]] \in {Nobody, r}

Take(r) == lock' = [lock EXCEPT ![OrgOf[r]] = r]

\* The end of r's transaction.
Release(r) == lock' = [o \in Orgs |-> IF lock[o] = r THEN Nobody ELSE lock[o]]

Posted(k) == \E e \in ledger : e.key = k

\* The commit of r's transaction: a wallet_transactions row and the change of
\* the balance it records.
Post(r, k, delta) ==
    /\ ledger' = ledger \cup {[org |-> OrgOf[r], key |-> k, delta |-> delta]}
    /\ balance' = [balance EXCEPT ![OrgOf[r]] = @ + delta]
    /\ Release(r)

-----------------------------------------------------------------------------
(* record_usage.                                                            *)

\* created_at is now(): the time at which the transaction began.
BeginUsage(u) ==
    /\ pc[u] = "idle"
    /\ at' = [at EXCEPT ![u] = now]
    /\ Goto(u, "recording")
    /\ UNCHANGED <<now, recorded, late, invoices, walletVars, closeVars, historyVars>>

Recorded(u) == \E v \in recorded : OrgOf[v] = OrgOf[u] /\ KeyOf[v] = KeyOf[u]

\* Some close has already summed the time of u.
Missed(u) == \E c \in Closes :
    OrgOf[c] = OrgOf[u] /\ c \in summed /\ at[u] < end[c]

\* INSERT and commit; a key the organization has used is not recorded again.
InsertUsage(u) ==
    /\ pc[u] = "recording"
    /\ IF Recorded(u)
         THEN UNCHANGED <<recorded, late>>
         ELSE /\ recorded' = recorded \cup {u}
              /\ late' = IF Missed(u) THEN late \cup {u} ELSE late
    /\ Goto(u, "done")
    /\ UNCHANGED <<now, at, invoices, walletVars, closeVars, historyVars>>

-----------------------------------------------------------------------------
(* top_up.                                                                  *)

FindWallet(t) ==
    /\ pc[t] = "idle"
    /\ Goto(t, IF OrgOf[t] \in wallet THEN "crediting" ELSE "creating")
    /\ UNCHANGED <<now, usageVars, invoices, walletVars, closeVars, historyVars>>

\* The flush that inserts the wallet.  It waits for an uncommitted one, and
\* takes the one that has been committed since.
CreateWallet(t) ==
    /\ pc[t] = "creating"
    /\ \/ OrgOf[t] \in wallet /\ UNCHANGED lock
       \/ OrgOf[t] \notin wallet /\ Unlocked(t) /\ Take(t)
    /\ Goto(t, "crediting")
    /\ UNCHANGED <<now, usageVars, invoices, wallet, balance, ledger, closeVars, historyVars>>

\* Another transaction has inserted the key and not committed.
KeyPending(t) == \E s \in TopUps \ {t} :
    pc[s] \in {"updating", "committing"} /\ KeyOf[s] = KeyOf[t]

\* Slip: the key is not checked.
InsertCreditAlways(t) ==
    /\ pc[t] = "crediting"
    /\ Goto(t, "updating")
    /\ UNCHANGED <<now, usageVars, invoices, walletVars, closeVars, historyVars>>

\* The flush of the wallet_transactions row.  If the key exists the
\* transaction rolls back and the call ends as a no-op: the wallet it then gets
\* or creates is never committed.
InsertCredit(t) ==
    /\ pc[t] = "crediting"
    /\ ~KeyPending(t)
    /\ IF Posted(KeyOf[t])
         THEN Goto(t, "done") /\ Release(t)
         ELSE Goto(t, "updating") /\ UNCHANGED lock
    /\ UNCHANGED <<now, usageVars, invoices, wallet, balance, ledger, closeVars, historyVars>>

\* UPDATE ... SET balance_cents = balance_cents + amount.
UpdateBalance(t) ==
    /\ pc[t] = "updating"
    /\ Unlocked(t)
    /\ Take(t)
    /\ Goto(t, "committing")
    /\ UNCHANGED <<now, usageVars, invoices, wallet, balance, ledger, closeVars, historyVars>>

CommitTopUp(t) ==
    /\ pc[t] = "committing"
    /\ Post(t, KeyOf[t], AmountOf[t])
    /\ wallet' = wallet \cup {OrgOf[t]}
    /\ Goto(t, "done")
    /\ UNCHANGED <<now, usageVars, invoices, closeVars, historyVars>>

-----------------------------------------------------------------------------
(* close_invoice: invoice_period.                                           *)

InvoicesOf(o) == {c \in Closes : OrgOf[c] = o /\ invoices[c] # NoRow}

Ends(o) == {invoices[c].end : c \in InvoicesOf(o)}

Latest(T) == IF T = {} THEN 0 ELSE CHOOSE e \in T : \A f \in T : f <= e

\* max(period_end), or the epoch.
PeriodStart(o) == Latest(Ends(o))

ReadStart(c) ==
    /\ pc[c] = "idle"
    /\ start' = [start EXCEPT ![c] = PeriodStart(OrgOf[c])]
    /\ Goto(c, "timing")
    /\ UNCHANGED <<now, usageVars, invoices, walletVars, end, due, billed, invoice, historyVars>>

\* Time has passed since anybody read the clock: usage that began before is
\* of this period.
ReadClock(c) ==
    /\ pc[c] = "timing"
    /\ now' = now + 1
    /\ end' = [end EXCEPT ![c] = now']
    /\ Goto(c, "summing")
    /\ UNCHANGED <<usageVars, invoices, walletVars, start, due, billed, invoice, historyVars>>

\* Slip: the period is open at its start.
UsageAfterStart(c) == {u \in recorded : /\ OrgOf[u] = OrgOf[c]
                                        /\ start[c] < at[u] /\ at[u] < end[c]}

UsageForPeriod(c) == {u \in recorded : /\ OrgOf[u] = OrgOf[c]
                                       /\ start[c] <= at[u] /\ at[u] < end[c]}

\* The plan is whatever the subscription names.
SumUsage(c) ==
    /\ pc[c] = "summing"
    /\ billed' = [billed EXCEPT ![c] = UsageForPeriod(c)]
    /\ \E p \in Plans : due' = [due EXCEPT ![c] = Price(p, UsageForPeriod(c))]
    /\ summed' = summed \cup {c}
    /\ Goto(c, "invoicing")
    /\ UNCHANGED <<now, usageVars, invoices, walletVars, start, end, invoice, died>>

\* The invoices that UNIQUE (organization, period_start) finds in c's way.
SamePeriod(c) == {d \in InvoicesOf(OrgOf[c]) : invoices[d].start = start[c]}

\* Slip: no UNIQUE (organization, period_start).
InsertInvoiceAlways(c) ==
    /\ pc[c] = "invoicing"
    /\ invoices' = [invoices EXCEPT ![c] = [start |-> start[c], end |-> end[c],
                       billed |-> billed[c], total |-> due[c], status |-> "open"]]
    /\ invoice' = [invoice EXCEPT ![c] = c]
    /\ Goto(c, "loading")
    /\ UNCHANGED <<now, usageVars, walletVars, start, end, due, billed, historyVars>>

\* INSERT and commit, or, if the period has its invoice, that invoice.
InsertInvoice(c) ==
    /\ pc[c] = "invoicing"
    /\ \/ /\ SamePeriod(c) = {}
          /\ invoices' = [invoices EXCEPT ![c] = [start |-> start[c], end |-> end[c],
                             billed |-> billed[c], total |-> due[c], status |-> "open"]]
          /\ invoice' = [invoice EXCEPT ![c] = c]
       \/ \E d \in SamePeriod(c) :
             /\ invoice' = [invoice EXCEPT ![c] = d]
             /\ UNCHANGED invoices
    /\ Goto(c, "loading")
    /\ UNCHANGED <<now, usageVars, walletVars, start, end, due, billed, historyVars>>

-----------------------------------------------------------------------------
(* close_invoice: charge_invoice.                                           *)

Total(c) == invoices[invoice[c]].total

\* session.refresh, or the SELECT of the existing invoice: the status charge
\* goes by is the one of this moment.
LoadInvoice(c) ==
    /\ pc[c] = "loading"
    /\ Goto(c, IF invoices[invoice[c]].status # "open" THEN "done"
               ELSE IF Total(c) = 0 THEN "settling"
               ELSE "debiting")
    /\ UNCHANGED <<now, usageVars, invoices, walletVars, closeVars, historyVars>>

SetStatus(c, status) == invoices' = [invoices EXCEPT ![invoice[c]].status = status]

SettleFree(c) ==
    /\ pc[c] = "settling"
    /\ SetStatus(c, "paid")
    /\ Goto(c, "done")
    /\ UNCHANGED <<now, usageVars, walletVars, closeVars, historyVars>>

\* Slip: no condition on the balance.
HasWallet(c) == OrgOf[c] \in wallet

\* There is a wallet that covers the invoice.
Covered(c) == OrgOf[c] \in wallet /\ balance[OrgOf[c]] >= Total(c)

\* Slips: the status is committed with the update, before the ledger row; a
\* charge that finds no balance returns.
DebitAndMarkPaid(c) ==
    /\ pc[c] = "debiting"
    /\ \/ Covered(c) /\ Unlocked(c) /\ Take(c) /\ Goto(c, "charging") /\ SetStatus(c, "paid")
       \/ ~Covered(c) /\ Goto(c, "refusing") /\ UNCHANGED <<lock, invoices>>
    /\ UNCHANGED <<now, usageVars, wallet, balance, ledger, closeVars, historyVars>>
DebitOrReturn(c) ==
    /\ pc[c] = "debiting"
    /\ \/ Covered(c) /\ Unlocked(c) /\ Take(c) /\ Goto(c, "charging")
       \/ ~Covered(c) /\ Goto(c, "done") /\ UNCHANGED lock
    /\ UNCHANGED <<now, usageVars, invoices, wallet, balance, ledger, closeVars, historyVars>>

\* UPDATE ... WHERE balance_cents >= total: it locks the row it finds, and
\* waits for nothing if it finds none.
Debit(c) ==
    /\ pc[c] = "debiting"
    /\ \/ Covered(c) /\ Unlocked(c) /\ Take(c) /\ Goto(c, "charging")
       \/ ~Covered(c) /\ Goto(c, "refusing") /\ UNCHANGED lock
    /\ UNCHANGED <<now, usageVars, invoices, wallet, balance, ledger, closeVars, historyVars>>

MarkUncollectible(c) ==
    /\ pc[c] = "refusing"
    /\ SetStatus(c, "uncollectible")
    /\ Goto(c, "done")
    /\ UNCHANGED <<now, usageVars, walletVars, closeVars, historyVars>>

\* The commit of debit, status and ledger row; the key invoice:<id> of an
\* earlier charge undoes all three.
CommitCharge(c) ==
    /\ pc[c] = "charging"
    /\ \/ /\ Posted(invoice[c])
          /\ Release(c)
          /\ UNCHANGED <<invoices, balance, ledger>>
       \/ /\ ~Posted(invoice[c])
          /\ SetStatus(c, "paid")
          /\ Post(c, invoice[c], -Total(c))
    /\ Goto(c, "done")
    /\ UNCHANGED <<now, usageVars, wallet, closeVars, historyVars>>

-----------------------------------------------------------------------------

\* The process dies, or the request is cancelled; its transaction rolls back.
Die(r) ==
    /\ pc[r] \notin {"idle", "done"}
    /\ died' = died \cup {r}
    /\ Release(r)
    /\ Goto(r, "done")
    /\ UNCHANGED <<now, usageVars, invoices, wallet, balance, ledger, closeVars, summed>>

UsageStep(u) == BeginUsage(u) \/ InsertUsage(u)

TopUpStep(t) == FindWallet(t) \/ CreateWallet(t) \/ InsertCredit(t) \/ UpdateBalance(t)
                \/ CommitTopUp(t)

CloseStep(c) == ReadStart(c) \/ ReadClock(c) \/ SumUsage(c) \/ InsertInvoice(c)
                \/ LoadInvoice(c) \/ SettleFree(c) \/ Debit(c) \/ MarkUncollectible(c)
                \/ CommitCharge(c)

Next ==
    \/ \E u \in Usages : UsageStep(u)
    \/ \E t \in TopUps : TopUpStep(t)
    \/ \E c \in Closes : CloseStep(c)
    \/ \E r \in Requests : Die(r)

Spec == Init /\ [][Next]_vars

-----------------------------------------------------------------------------
(* Properties.                                                              *)

\* Usage of one key is in one invoice at most, whatever closes overlap, retry
\* or share an instant with it (uq_usage_org_idem, uq_invoice_org_period and
\* the half-open period of usage_for_period).
BilledOnce == \A c, d \in Closes : \A u, v \in Usages :
    /\ invoices[c] # NoRow /\ u \in invoices[c].billed
    /\ invoices[d] # NoRow /\ v \in invoices[d].billed
    /\ OrgOf[u] = OrgOf[v] /\ KeyOf[u] = KeyOf[v]
    => c = d /\ u = v

\* Once an organization's invoices reach past a usage event, one of them bills
\* it, unless the event committed after a close had summed its time: the periods
\* leave no gap, and the first instant of each is in it.
BilledInTime == \A u \in recorded \ late :
    at[u] < PeriodStart(OrgOf[u]) =>
        \E c \in InvoicesOf(OrgOf[u]) : u \in invoices[c].billed

\* The wallets and their transactions are a ledger: concurrent top-ups lose no
\* credit, a key is applied once, no charge takes more than there is, and no
\* balance changes without its entry (charge_invoice, top_up).
L == INSTANCE Ledger WITH entries <- ledger
ImplementsLedger == L!Spec

\* The debits of the ledger are those of the invoices: each is the total of a
\* settled invoice of the same organization, and an invoice that reads paid has
\* been debited, unless it is free.
DebitsMatchInvoices ==
    /\ \A e \in ledger : e.key \in Closes =>
          /\ invoices[e.key] # NoRow
          /\ invoices[e.key].status # "open"
          /\ e.org = OrgOf[e.key]
          /\ e.delta = -invoices[e.key].total
    /\ \A c \in Closes :
          invoices[c] # NoRow /\ invoices[c].status = "paid" /\ invoices[c].total > 0
              => Posted(c)

\* An open invoice is being charged, unless the close that made it died: no
\* return of charge_invoice leaves it open.
OpenIsAttended == \A c \in Closes :
    invoices[c] # NoRow /\ invoices[c].status = "open" =>
        c \in died \/ pc[c] \in {"loading", "settling", "debiting", "charging", "refusing"}

UnderWay(r) == pc[r] \notin {"idle", "done"}

\* Request q holds the wallet row that r must lock, or the uncommitted key that
\* r must insert.
HoldsWallet(q, r) ==
    /\ lock[OrgOf[r]] = q /\ q # r
    /\ \/ pc[r] = "creating" /\ OrgOf[r] \notin wallet
       \/ pc[r] = "updating"
       \/ pc[r] = "debiting" /\ Covered(r)

HoldsKey(q, r) ==
    /\ pc[r] = "crediting" /\ q \in TopUps \ {r}
    /\ pc[q] \in {"updating", "committing"} /\ KeyOf[q] = KeyOf[r]

Blocks(q, r) == HoldsWallet(q, r) \/ HoldsKey(q, r)

Waits(r) == \E q \in Requests : Blocks(q, r)

\* No transactions wait for each other, in a ring of any length: of any requests
\* one waits for none of the others (charge_invoice locks one row and inserts no
\* key before it; top_up inserts its key before it locks a committed wallet).
NoCircularWait ==
    \A S \in SUBSET Requests : S # {} => \E r \in S : \A q \in S : ~ Blocks(q, r)

\* Nor does anything else hold a request up: one under way that waits for no
\* other can go on.  No step goes back, so all end.
NoStandstill ==
    /\ NoCircularWait
    /\ \A u \in Usages : UnderWay(u) => ENABLED UsageStep(u)
    /\ \A t \in TopUps : UnderWay(t) /\ ~ Waits(t) => ENABLED TopUpStep(t)
    /\ \A c \in Closes : UnderWay(c) /\ ~ Waits(c) => ENABLED CloseStep(c)

\* models.py: "paid" (charged) | "uncollectible" (charge failed, no wallet).
ChargedReadsPaid == \A c \in Closes : Posted(c) => invoices[c].status = "paid"

\* Only the close that made an invoice charges it.
Lone(c) == \A d \in Closes \ {c} : invoice[d] # c

\* An invoice that no second close has taken up reads what was done: paid if it
\* was debited or is free, uncollectible if it was not, never the one for the
\* other, whatever its close dies of and whatever else is charged meanwhile.
\* What ChargedReadsPaid misses is another close of the same period.
LoneReadsRight == \A c \in Closes :
    invoices[c] # NoRow /\ Lone(c) /\ invoices[c].status # "open" =>
        (invoices[c].status = "paid" <=> Posted(c) \/ invoices[c].total = 0)

\* router.py: a retried idempotency_key applies once.  A call that ends has its
\* key applied to its own organization's wallet.
TopUpsApply == \A t \in TopUps :
    pc[t] = "done" /\ t \notin died =>
        \E e \in ledger : e.org = OrgOf[t] /\ e.key = KeyOf[t]

\* No other organization uses its key.
OwnKey(t) == \A s \in TopUps : KeyOf[s] = KeyOf[t] => OrgOf[s] = OrgOf[t]

\* As far as TopUpsApply goes: nothing is credited that no call of this key and
\* organization has asked for, in its amount, and a call that ends has its key
\* applied to its own wallet unless another organization uses the same key.
OwnKeysApply ==
    /\ \A e \in ledger : e.key \notin Closes =>
         \E t \in TopUps : /\ pc[t] = "done" /\ t \notin died
                          /\ e = [org |-> OrgOf[t], key |-> KeyOf[t], delta |-> AmountOf[t]]
    /\ \A t \in TopUps :
         pc[t] = "done" /\ t \notin died /\ OwnKey(t) =>
             \E e \in ledger : e.org = OrgOf[t] /\ e.key = KeyOf[t]
-----------------------------------------------------------------------------
(* The inductive invariant.                                                 *)

Charging == {"settling", "debiting", "charging", "refusing"}

\* A wallet row is held by a request of its organization, in a transaction that
\* has inserted or updated it.
LockHeld == \A o \in Orgs : lock[o] # Nobody =>
    /\ OrgOf[lock[o]] = o
    /\ pc[lock[o]] \in {"crediting", "updating", "committing", "charging"}

WriterHoldsLock == \A r \in Requests :
    pc[r] \in {"committing", "charging"} => lock[OrgOf[r]] = r

\* The keys of uncommitted top-ups are new and different.
CreditKeys == \A t \in TopUps : pc[t] \in {"updating", "committing"} =>
    ~Posted(KeyOf[t]) /\ ~KeyPending(t)

\* What a close charges is an invoice of its organization, and what it debits
\* is still there.
ChargeTarget == \A c \in Closes :
    /\ pc[c] \in {"loading"} \cup Charging =>
          /\ invoice[c] \in Closes
          /\ invoices[invoice[c]] # NoRow
          /\ OrgOf[invoice[c]] = OrgOf[c]
    /\ pc[c] \in {"debiting", "charging", "refusing"} => Total(c) > 0
    /\ pc[c] = "settling" => Total(c) = 0
    /\ pc[c] = "charging" => balance[OrgOf[c]] >= Total(c)

\* A row is what its close has read and summed.
InvoiceOfClose == \A c \in Closes : invoices[c] # NoRow =>
    /\ c \in summed
    /\ pc[c] \in {"loading", "done"} \cup Charging
    /\ invoice[c] = c
    /\ invoices[c].start = start[c]
    /\ invoices[c].end = end[c]
    /\ invoices[c].billed = billed[c]

\* A close that has summed has the usage of its period, except late rows.
SumsPeriod == \A c \in summed :
    /\ pc[c] \notin {"idle", "timing", "summing"}
    /\ start[c] < end[c]
    /\ \A u \in billed[c] : /\ u \in recorded
                            /\ OrgOf[u] = OrgOf[c]
                            /\ start[c] <= at[u] /\ at[u] < end[c]
    /\ \A u \in recorded \ late :
          OrgOf[u] = OrgOf[c] /\ start[c] <= at[u] /\ at[u] < end[c] => u \in billed[c]

\* A recorded key is not recorded again.
KeysRecordedOnce == \A u, v \in recorded :
    OrgOf[u] = OrgOf[v] /\ KeyOf[u] = KeyOf[v] => u = v

RecordedIsDone == \A u \in recorded : pc[u] = "done"

\* The instants at which a period may begin: the epoch and the ends so far.
Joints(o) == {0} \cup Ends(o)

\* The last joint is not in the future, a close has read one of them, and one
\* that is not the last begins an invoice: the periods are a chain.
LastJoint == \A o \in Orgs :
    /\ PeriodStart(o) \in Joints(o)
    /\ \A j \in Joints(o) : j <= PeriodStart(o)
    /\ PeriodStart(o) <= now

StartsAtJoint == \A c \in Closes :
    /\ pc[c] # "idle" => start[c] \in Joints(OrgOf[c])
    /\ pc[c] \in {"timing", "summing", "invoicing"} => start[c] <= now
    /\ pc[c] \in {"summing", "invoicing"} => start[c] < end[c] /\ end[c] <= now
    /\ pc[c] = "invoicing" => c \in summed

Chain == \A o \in Orgs : \A j \in Joints(o) :
    j = PeriodStart(o) \/ \E c \in InvoicesOf(o) : invoices[c].start = j

Disjoint == \A c, d \in Closes :
    invoices[c] # NoRow /\ invoices[d] # NoRow /\ OrgOf[c] = OrgOf[d] /\ c # d =>
        invoices[c].end <= invoices[d].start \/ invoices[d].end <= invoices[c].start

IInv ==
    /\ TypeOK
    /\ LockHeld /\ WriterHoldsLock /\ CreditKeys /\ ChargeTarget
    /\ InvoiceOfClose /\ SumsPeriod /\ KeysRecordedOnce /\ RecordedIsDone
    /\ LastJoint /\ StartsAtJoint /\ Chain /\ Disjoint
    /\ DebitsMatchInvoices /\ BilledInTime /\ OpenIsAttended

-----------------------------------------------------------------------------
(* What keeps a lone charge straight.                                       *)

\* A close has no invoice to charge until it has inserted or found one, and one
\* that is settled without a second close has been settled by its own.
LoneInv ==
    /\ \A c \in Closes :
         pc[c] \in {"idle", "timing", "summing", "invoicing"} => invoice[c] = Nobody
    /\ \A c \in Closes :
         invoices[c] # NoRow /\ Lone(c) /\ invoices[c].status # "open" => pc[c] = "done"
    /\ LoneReadsRight

-----------------------------------------------------------------------------
(* What keeps credits to those who asked.                                   *)

\* A call that ends has found its key posted, or posts it.
CreditInv ==
    /\ OwnKeysApply
    /\ \A t \in TopUps : pc[t] = "done" /\ t \notin died => Posted(KeyOf[t])
    /\ \A t \in TopUps \cap died : pc[t] = "done"

-----------------------------------------------------------------------------
(* What keeps the waits from closing a ring.                                *)

\* A top-up that has its wallet has a committed one, or one it has inserted.
WalletFound == \A t \in TopUps :
    pc[t] \in {"crediting", "updating", "committing"} =>
        OrgOf[t] \in wallet \/ lock[OrgOf[t]] = t

\* Who holds a wallet row before it has inserted its key has just made the row.
EarlyLockIsNew == \A r \in Requests :
    pc[r] = "crediting" /\ lock[OrgOf[r]] = r => OrgOf[r] \notin wallet

WaitInv == IInv /\ WalletFound /\ EarlyLockIsNew
=============================================================================
