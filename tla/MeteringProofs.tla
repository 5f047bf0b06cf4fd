--------------------------- MODULE MeteringProofs ---------------------------
(***************************************************************************)
(* Proofs about Metering: types, the ledger it implements, and what it     *)
(* promises of debits, invoices and billed usage, for every number of      *)
(* organizations, requests and prices.                                     *)
(***************************************************************************)
EXTENDS Metering, TLAPS

\* The two halves of the invariant: wallets and charges, periods and usage.
WalletInv == LockHeld /\ WriterHoldsLock /\ CreditKeys /\ ChargeTarget
             /\ DebitsMatchInvoices /\ OpenIsAttended

PeriodInv == InvoiceOfClose /\ SumsPeriod /\ KeysRecordedOnce /\ RecordedIsDone
             /\ LastJoint /\ StartsAtJoint /\ Chain /\ Disjoint /\ BilledInTime

\* IInv is its types and its two halves, now and after a step.
LEMMA Halves == IInv <=> TypeOK /\ WalletInv /\ PeriodInv
BY DEF IInv, WalletInv, PeriodInv

LEMMA HalvesNext == TypeOK' /\ WalletInv' /\ PeriodInv' => IInv'
BY DEF IInv, WalletInv, PeriodInv

\* Each call has one kind and an organization, each key one owner.
LEMMA Kinds ==
    /\ \A r \in Requests : OrgOf[r] \in Orgs /\ r # Nobody
    /\ Usages \subseteq Requests /\ TopUps \subseteq Requests /\ Closes \subseteq Requests
    /\ \A u \in Usages : u \notin TopUps /\ u \notin Closes
    /\ \A t \in TopUps : t \notin Closes /\ KeyOf[t] \in ClientKeys /\ KeyOf[t] \notin Closes
BY RequestsAssumption, KeysAssumption DEF Requests

-----------------------------------------------------------------------------
(* Types.                                                                   *)

\* Every table is empty and every request idle at the start.
LEMMA TypeInit == Init => TypeOK
BY DEF Init, TypeOK, Steps

\* A request moves to a step, and gives or takes a lock.
LEMMA TypeMove ==
    ASSUME TypeOK, NEW r \in Requests, NEW s \in Steps
    PROVE  /\ Goto(r, s) => pc' \in [Requests -> Steps]
           /\ Take(r) => lock' \in [Orgs -> Requests \cup {Nobody}]
           /\ Release(r) => lock' \in [Orgs -> Requests \cup {Nobody}]
BY DEF TypeOK, Goto, Take, Release

\* What a row becomes when its status changes (charge_invoice).
LEMMA StatusSet ==
    ASSUME TypeOK, ChargeTarget, NEW c \in Closes, pc[c] \in Charging,
           NEW s \in {"paid", "uncollectible"}, SetStatus(c, s)
    PROVE  /\ invoices' \in [Closes -> Invoice \cup {NoRow}]
           /\ \A d \in Closes : d # invoice[c] => invoices'[d] = invoices[d]
           /\ invoices[invoice[c]] \in Invoice
           /\ invoices'[invoice[c]] = [invoices[invoice[c]] EXCEPT !.status = s]
           /\ invoices'[invoice[c]] \in Invoice
<1>1. invoice[c] \in Closes /\ invoices[invoice[c]] # NoRow
  BY DEF ChargeTarget
<1>2. invoices[invoice[c]] \in Invoice
  BY <1>1 DEF TypeOK
<1> DEFINE row == [invoices[invoice[c]] EXCEPT !.status = s]
<1>3. row \in Invoice
  BY <1>2 DEF Invoice
<1>4. invoices' = [invoices EXCEPT ![invoice[c]] = row]
  BY DEF SetStatus
<1> HIDE DEF row
<1>5. /\ invoices' \in [Closes -> Invoice \cup {NoRow}]
      /\ \A d \in Closes : d # invoice[c] => invoices'[d] = invoices[d]
      /\ invoices'[invoice[c]] = row
  BY <1>1, <1>3, <1>4 DEF TypeOK
<1>6. QED
  BY <1>2, <1>3, <1>5 DEF row

\* A status change keeps the rows, and what they say of their period.
SameRows == \A c \in Closes :
    /\ invoices'[c] = NoRow <=> invoices[c] = NoRow
    /\ invoices[c] # NoRow => /\ invoices'[c].start = invoices[c].start
                              /\ invoices'[c].end = invoices[c].end
                              /\ invoices'[c].billed = invoices[c].billed
                              /\ invoices'[c].total = invoices[c].total
                              /\ invoices[c].status # "open" => invoices'[c].status # "open"

\* Setting a status keeps the rows.
LEMMA StatusKeepsRows ==
    ASSUME TypeOK, ChargeTarget, NEW c \in Closes, pc[c] \in Charging,
           NEW s \in {"paid", "uncollectible"}, SetStatus(c, s)
    PROVE  SameRows /\ invoices'[invoice[c]].status = s
<1>1. /\ \A d \in Closes : d # invoice[c] => invoices'[d] = invoices[d]
      /\ invoices[invoice[c]] \in Invoice
      /\ invoices'[invoice[c]] = [invoices[invoice[c]] EXCEPT !.status = s]
      /\ invoices'[invoice[c]] \in Invoice
  BY StatusSet
<1>2. invoices[invoice[c]] # NoRow /\ invoices'[invoice[c]] # NoRow
  BY <1>1, NoRowAssumption
<1>3. /\ invoices'[invoice[c]].status = s
      /\ invoices'[invoice[c]].start = invoices[invoice[c]].start
      /\ invoices'[invoice[c]].end = invoices[invoice[c]].end
      /\ invoices'[invoice[c]].billed = invoices[invoice[c]].billed
      /\ invoices'[invoice[c]].total = invoices[invoice[c]].total
  BY <1>1 DEF Invoice
<1>4. QED
  BY <1>1, <1>2, <1>3 DEF SameRows

\* The amount an invoice is charged is a number.
LEMMA TotalType ==
    ASSUME TypeOK, ChargeTarget, NEW c \in Closes, pc[c] \in Charging
    PROVE  /\ invoice[c] \in Closes
           /\ invoices[invoice[c]] \in Invoice
           /\ Total(c) \in Nat
<1>1. invoice[c] \in Closes /\ invoices[invoice[c]] # NoRow
  BY DEF ChargeTarget
<1>2. invoices[invoice[c]] \in Invoice
  BY <1>1 DEF TypeOK
<1>3. QED
  BY <1>1, <1>2 DEF Invoice, Total

\* record_usage keeps the types.
LEMMA TypeUsage ==
    ASSUME TypeOK, NEW u \in Usages, UsageStep(u)
    PROVE  TypeOK'
<1> USE Kinds DEF walletVars, closeVars, historyVars
<1>1. CASE BeginUsage(u)
  BY <1>1 DEF BeginUsage, TypeOK, Goto, Steps
<1>2. CASE InsertUsage(u)
  BY <1>2 DEF InsertUsage, TypeOK, Goto, Steps
<1>3. QED
  BY <1>1, <1>2 DEF UsageStep

\* A commit keeps the balance a natural number if the sum is one.
LEMMA TypePost ==
    ASSUME TypeOK, NEW r \in Requests, NEW k \in ClientKeys \cup Closes, NEW delta \in Int,
           balance[OrgOf[r]] + delta >= 0, Post(r, k, delta)
    PROVE  /\ ledger' \subseteq Entry
           /\ balance' \in [Orgs -> Nat]
           /\ lock' \in [Orgs -> Requests \cup {Nobody}]
<1>1. OrgOf[r] \in Orgs /\ balance[OrgOf[r]] \in Nat
  BY Kinds DEF TypeOK
<1>2. balance[OrgOf[r]] + delta \in Nat
  BY <1>1
<1>3. QED
  BY <1>1, <1>2 DEF Post, TypeOK, Entry, Release

\* top_up keeps the types.
LEMMA TypeTopUp ==
    ASSUME TypeOK, NEW t \in TopUps, TopUpStep(t)
    PROVE  TypeOK'
<1> USE Kinds DEF usageVars, walletVars, closeVars, historyVars
<1>1. CASE FindWallet(t)
  BY <1>1 DEF FindWallet, TypeOK, Goto, Steps
<1>2. CASE CreateWallet(t)
  BY <1>2 DEF CreateWallet, TypeOK, Goto, Take, Steps
<1>3. CASE InsertCredit(t)
  BY <1>3 DEF InsertCredit, TypeOK, Goto, Release, Steps
<1>4. CASE UpdateBalance(t)
  BY <1>4 DEF UpdateBalance, TypeOK, Goto, Take, Steps
<1>5. CASE CommitTopUp(t)
  <2>1. AmountOf[t] \in Nat /\ OrgOf[t] \in Orgs /\ KeyOf[t] \in ClientKeys
    BY AmountsAssumption
  <2>2. balance[OrgOf[t]] + AmountOf[t] >= 0
    BY <2>1 DEF TypeOK
  <2>3. /\ ledger' \subseteq Entry
        /\ balance' \in [Orgs -> Nat]
        /\ lock' \in [Orgs -> Requests \cup {Nobody}]
    BY <1>5, <2>1, <2>2, TypePost DEF CommitTopUp
  <2>4. QED
    BY <1>5, <2>1, <2>3 DEF CommitTopUp, TypeOK, Goto, Steps
<1>6. QED
  BY <1>1, <1>2, <1>3, <1>4, <1>5 DEF TopUpStep

\* max(period_end) is one of the ends.
LEMMA LatestIs ==
    ASSUME NEW T \in SUBSET Nat, NEW m \in T, \A f \in T : f <= m
    PROVE  Latest(T) = m
<1>1. PICK e \in T : e = Latest(T) /\ \A f \in T : f <= e
  BY DEF Latest
<1>2. QED
  BY <1>1

\* close_invoice keeps the types.
LEMMA TypeClose ==
    ASSUME TypeOK, ChargeTarget, LastJoint, NEW c \in Closes, CloseStep(c)
    PROVE  TypeOK'
<1> USE Kinds DEF usageVars, walletVars, historyVars
<1>1. CASE ReadStart(c)
  <2>1. PeriodStart(OrgOf[c]) \in Nat
    BY DEF LastJoint, Joints, Ends, InvoicesOf, TypeOK, Invoice
  <2>2. QED
    BY <1>1, <2>1 DEF ReadStart, TypeOK, Goto, Steps
<1>2. CASE ReadClock(c)
  BY <1>2 DEF ReadClock, TypeOK, Goto, Steps
<1>3. CASE SumUsage(c)
  <2>1. UsageForPeriod(c) \in SUBSET Usages
    BY DEF UsageForPeriod, TypeOK
  <2>2. \A p \in Plans : Price(p, UsageForPeriod(c)) \in Nat
    BY <2>1, AmountsAssumption
  <2>3. QED
    BY <1>3, <2>1, <2>2 DEF SumUsage, TypeOK, Goto, Steps
<1>4. CASE InsertInvoice(c)
  <2>1. [start |-> start[c], end |-> end[c], billed |-> billed[c], total |-> due[c],
         status |-> "open"] \in Invoice
    BY DEF TypeOK, Invoice
  <2>2. \A d \in SamePeriod(c) : d \in Closes
    BY DEF SamePeriod, InvoicesOf
  <2>3. QED
    BY <1>4, <2>1, <2>2 DEF InsertInvoice, TypeOK, Goto, Steps
<1>5. CASE LoadInvoice(c)
  BY <1>5 DEF LoadInvoice, TypeOK, Goto, Steps, closeVars
<1>6. CASE SettleFree(c)
  <2>1. invoices' \in [Closes -> Invoice \cup {NoRow}]
    BY <1>6, StatusSet DEF SettleFree, Charging
  <2>2. QED
    BY <1>6, <2>1 DEF SettleFree, TypeOK, Goto, Steps, closeVars
<1>7. CASE Debit(c)
  BY <1>7 DEF Debit, TypeOK, Goto, Take, Steps, closeVars
<1>8. CASE MarkUncollectible(c)
  <2>1. invoices' \in [Closes -> Invoice \cup {NoRow}]
    BY <1>8, StatusSet DEF MarkUncollectible, Charging
  <2>2. QED
    BY <1>8, <2>1 DEF MarkUncollectible, TypeOK, Goto, Steps, closeVars
<1>9. CASE CommitCharge(c)
  <2>1. pc[c] \in Charging
    BY <1>9 DEF CommitCharge, Charging
  <2>2. pc' \in [Requests -> Steps]
    BY <1>9 DEF CommitCharge, TypeOK, Goto, Steps
  <2>3. CASE Posted(invoice[c])
    BY <1>9, <2>2, <2>3 DEF CommitCharge, TypeOK, Release, closeVars
  <2>4. CASE ~Posted(invoice[c])
    <3>1. invoices' \in [Closes -> Invoice \cup {NoRow}]
      BY <1>9, <2>1, <2>4, StatusSet DEF CommitCharge
    <3>2. Total(c) \in Nat /\ invoice[c] \in Closes /\ balance[OrgOf[c]] \in Nat
      BY <2>1, TotalType DEF TypeOK
    <3>3. balance[OrgOf[c]] + (-Total(c)) >= 0
      BY <1>9, <3>2 DEF CommitCharge, ChargeTarget
    <3>4. /\ ledger' \subseteq Entry
          /\ balance' \in [Orgs -> Nat]
          /\ lock' \in [Orgs -> Requests \cup {Nobody}]
      BY <1>9, <2>4, <3>2, <3>3, TypePost DEF CommitCharge
    <3>5. QED
      BY <1>9, <2>2, <3>1, <3>4 DEF CommitCharge, TypeOK, closeVars
  <2>5. QED
    BY <2>3, <2>4
<1>10. QED
  BY <1>1, <1>2, <1>3, <1>4, <1>5, <1>6, <1>7, <1>8, <1>9 DEF CloseStep

\* A death rolls back to well-typed tables.
LEMMA TypeDie ==
    ASSUME TypeOK, NEW r \in Requests, Die(r)
    PROVE  TypeOK'
BY Kinds DEF Die, TypeOK, Goto, Release, Steps, usageVars, closeVars
-----------------------------------------------------------------------------
(* Steps that leave one half of the invariant alone.                        *)

\* The periods are the same while the invoices keep theirs.
LEMMA SamePeriods ==
    ASSUME SameRows, NEW o \in Orgs
    PROVE  /\ InvoicesOf(o)' = InvoicesOf(o)
           /\ Joints(o)' = Joints(o)
           /\ PeriodStart(o)' = PeriodStart(o)
<1>1. InvoicesOf(o)' = InvoicesOf(o)
  BY DEF SameRows, InvoicesOf
<1>2. Ends(o)' = Ends(o)
  <2>1. \A c \in InvoicesOf(o) : invoices'[c].end = invoices[c].end
    BY DEF SameRows, InvoicesOf
  <2>2. QED
    BY <1>1, <2>1 DEF Ends
<1>3. QED
  BY <1>1, <1>2 DEF Joints, PeriodStart

Early == {"timing", "summing", "invoicing"}

\* Charging and topping up do not touch usage and periods.
LEMMA PeriodFrame ==
    ASSUME TypeOK, PeriodInv, SameRows,
           UNCHANGED <<now, usageVars, start, end, billed, invoice, summed>>,
           \A u \in Usages : pc[u] = "done" => pc'[u] = "done",
           \A c \in Closes : pc'[c] # pc[c] =>
               /\ pc[c] # "idle" /\ pc'[c] \notin {"idle"} \cup Early
               /\ pc'[c] \in {"done"} \cup Charging
    PROVE  PeriodInv'
<1> USE Kinds DEF usageVars
<1>1. InvoiceOfClose'
  BY DEF PeriodInv, InvoiceOfClose, SameRows
<1>2. SumsPeriod'
  BY DEF PeriodInv, SumsPeriod, TypeOK, Early
<1>3. KeysRecordedOnce' /\ RecordedIsDone'
  BY DEF PeriodInv, KeysRecordedOnce, RecordedIsDone, TypeOK
<1>4. LastJoint'
  BY SamePeriods DEF PeriodInv, LastJoint
<1>5. StartsAtJoint'
  <2>1. \A c \in Closes : Joints(OrgOf[c])' = Joints(OrgOf[c])
    BY SamePeriods
  <2>2. QED
    BY <2>1 DEF PeriodInv, StartsAtJoint, Early
<1>6. Chain'
  <2> SUFFICES ASSUME NEW o \in Orgs, NEW j \in Joints(o), j # PeriodStart(o)
               PROVE  \E c \in InvoicesOf(o) : invoices'[c].start = j
    BY SamePeriods DEF Chain
  <2>1. PICK c \in InvoicesOf(o) : invoices[c].start = j
    BY DEF PeriodInv, Chain
  <2>2. QED
    BY <2>1 DEF SameRows, InvoicesOf
<1>7. Disjoint'
  BY DEF PeriodInv, Disjoint, SameRows
<1>8. BilledInTime'
  <2> SUFFICES ASSUME NEW u \in recorded \ late, at[u] < PeriodStart(OrgOf[u])
               PROVE  \E c \in InvoicesOf(OrgOf[u]) : u \in invoices'[c].billed
    BY SamePeriods DEF BilledInTime, TypeOK
  <2>1. PICK c \in InvoicesOf(OrgOf[u]) : u \in invoices[c].billed
    BY DEF PeriodInv, BilledInTime
  <2>2. QED
    BY <2>1 DEF SameRows, InvoicesOf
<1>9. QED
  BY <1>1, <1>2, <1>3, <1>4, <1>5, <1>6, <1>7, <1>8 DEF PeriodInv

\* The steps of requests that have no part in charging or crediting.
Quiet == {"idle", "recording", "done"} \cup Early

\* Usage and the reading of a period do not touch wallets and invoices.
LEMMA WalletFrame ==
    ASSUME TypeOK, WalletInv, UNCHANGED <<walletVars, invoices, invoice, died>>,
           NEW q \in Usages \cup Closes, pc[q] \in {"idle", "recording", "timing", "summing"},
           NEW s \in Quiet, Goto(q, s),
           q \in Closes => s \in Early /\ (invoices[q] # NoRow => invoices[q].status # "open")
    PROVE  WalletInv'
<1> USE Kinds DEF walletVars
<1>1. \A r \in Requests : pc'[r] = pc[r] \/ (pc[r] \in Quiet /\ pc'[r] \in Quiet)
  <2>1. pc[q] \in Quiet
    BY DEF Quiet, Early
  <2>2. pc' = [pc EXCEPT ![q] = s] /\ pc \in [Requests -> Steps]
    BY DEF Goto, TypeOK
  <2>3. QED
    BY <2>1, <2>2
<1>2. LockHeld'
  BY <1>1 DEF WalletInv, LockHeld, TypeOK, Quiet, Early
<1>3. WriterHoldsLock'
  BY <1>1 DEF WalletInv, WriterHoldsLock, Quiet, Early
<1>4. CreditKeys'
  BY <1>1 DEF WalletInv, CreditKeys, KeyPending, Posted, Quiet, Early
<1>5. ChargeTarget'
  BY <1>1 DEF WalletInv, ChargeTarget, Total, Charging, Quiet, Early
<1>6. DebitsMatchInvoices'
  BY DEF WalletInv, DebitsMatchInvoices, Posted
<1>7. OpenIsAttended'
  <2>1. \A c \in Closes : c = q \/ pc'[c] = pc[c]
    BY DEF Goto, TypeOK
  <2>2. QED
    BY <2>1 DEF WalletInv, OpenIsAttended
<1>8. QED
  BY <1>2, <1>3, <1>4, <1>5, <1>6, <1>7 DEF WalletInv
-----------------------------------------------------------------------------
(* record_usage.                                                            *)

\* Unchanged rows are the same rows.
LEMMA RowsUnchanged == UNCHANGED invoices => SameRows
BY DEF SameRows

\* A usage request that begins has recorded nothing yet.
LEMMA BeginUsageInv ==
    ASSUME IInv, NEW u \in Usages, BeginUsage(u)
    PROVE  IInv'
<1> USE Kinds, Halves DEF usageVars, walletVars, closeVars, historyVars
<1>1. TypeOK'
  BY TypeUsage DEF UsageStep
<1>2. WalletInv'
  <2>1. u \notin Closes /\ "recording" \in Quiet
    BY DEF Quiet
  <2>2. QED
    BY <2>1, WalletFrame DEF BeginUsage
<1>3. PeriodInv'
  <2>1. SameRows /\ u \notin recorded
    BY RowsUnchanged DEF BeginUsage, PeriodInv, RecordedIsDone
  <2>2. /\ \A c \in Closes : pc'[c] = pc[c]
        /\ \A v \in Usages : v # u => pc'[v] = pc[v]
        /\ \A v \in recorded : at'[v] = at[v]
    BY <2>1 DEF BeginUsage, Goto, TypeOK
  <2>3. InvoiceOfClose' /\ SumsPeriod' /\ KeysRecordedOnce' /\ RecordedIsDone'
    BY <2>1, <2>2 DEF BeginUsage, PeriodInv, InvoiceOfClose, SumsPeriod, KeysRecordedOnce,
                      RecordedIsDone, TypeOK
  <2>4. \A o \in Orgs : /\ InvoicesOf(o)' = InvoicesOf(o)
                        /\ Joints(o)' = Joints(o)
                        /\ PeriodStart(o)' = PeriodStart(o)
    BY <2>1, SamePeriods
  <2>5. LastJoint' /\ StartsAtJoint'
    BY <2>2, <2>4 DEF BeginUsage, PeriodInv, LastJoint, StartsAtJoint
  <2>6. Chain' /\ Disjoint'
    BY <2>4 DEF BeginUsage, PeriodInv, Chain, Disjoint
  <2>7. BilledInTime'
    BY <2>2, <2>4 DEF BeginUsage, PeriodInv, BilledInTime, TypeOK
  <2>8. QED
    BY <2>3, <2>5, <2>6, <2>7 DEF PeriodInv
<1>4. QED
  BY <1>1, <1>2, <1>3, HalvesNext

\* A usage row that commits is new to its key, and late if its time is summed.
LEMMA InsertUsageInv ==
    ASSUME IInv, NEW u \in Usages, InsertUsage(u)
    PROVE  IInv'
<1> USE Kinds, Halves DEF usageVars, walletVars, closeVars, historyVars
<1>1. TypeOK'
  BY TypeUsage DEF UsageStep
<1>2. WalletInv'
  <2>1. u \notin Closes /\ "done" \in Quiet
    BY DEF Quiet
  <2>2. QED
    BY <2>1, WalletFrame DEF InsertUsage
<1>3. PeriodInv'
  <2>1. SameRows
    BY RowsUnchanged DEF InsertUsage
  <2>2. /\ \A c \in Closes : pc'[c] = pc[c]
        /\ \A v \in Usages : v # u => pc'[v] = pc[v]
        /\ pc'[u] = "done"
    BY DEF InsertUsage, Goto, TypeOK
  <2>3. \A o \in Orgs : /\ InvoicesOf(o)' = InvoicesOf(o)
                        /\ Joints(o)' = Joints(o)
                        /\ PeriodStart(o)' = PeriodStart(o)
    BY <2>1, SamePeriods
  <2>4. InvoiceOfClose'
    BY <2>2 DEF InsertUsage, PeriodInv, InvoiceOfClose
  <2>5. LastJoint' /\ StartsAtJoint'
    BY <2>2, <2>3 DEF InsertUsage, PeriodInv, LastJoint, StartsAtJoint
  <2>6. Chain' /\ Disjoint'
    BY <2>3 DEF InsertUsage, PeriodInv, Chain, Disjoint
  <2>7. RecordedIsDone'
    BY <2>2 DEF InsertUsage, PeriodInv, RecordedIsDone, TypeOK
  <2>8. CASE Recorded(u)
    <3>1. UNCHANGED <<recorded, late, at>>
      BY <2>8 DEF InsertUsage
    <3>2. SumsPeriod' /\ KeysRecordedOnce' /\ BilledInTime'
      BY <2>2, <2>3, <3>1 DEF InsertUsage, PeriodInv, SumsPeriod, KeysRecordedOnce, BilledInTime,
                              TypeOK
    <3>3. QED
      BY <2>4, <2>5, <2>6, <2>7, <3>2 DEF PeriodInv
  <2>9. CASE ~Recorded(u)
    <3>1. /\ recorded' = recorded \cup {u}
          /\ late' = IF Missed(u) THEN late \cup {u} ELSE late
          /\ UNCHANGED <<at, start, end, billed, summed, invoices>>
      BY <2>9 DEF InsertUsage
    <3>2. KeysRecordedOnce'
      BY <2>9, <3>1 DEF PeriodInv, KeysRecordedOnce, Recorded
    <3>3. SumsPeriod'
      <4>1. \A c \in summed : u \notin late' => ~(OrgOf[u] = OrgOf[c] /\ at[u] < end[c])
        BY <3>1 DEF Missed, TypeOK
      <4>2. QED
        BY <2>2, <3>1, <4>1 DEF PeriodInv, SumsPeriod, TypeOK
    <3>4. BilledInTime'
      <4>1. ASSUME u \notin late', at[u] < PeriodStart(OrgOf[u]) PROVE FALSE
        <5>1. PeriodStart(OrgOf[u]) \in Joints(OrgOf[u]) /\ at[u] \in Nat
          BY DEF PeriodInv, LastJoint, TypeOK
        <5>2. PICK c \in InvoicesOf(OrgOf[u]) : PeriodStart(OrgOf[u]) = invoices[c].end
          BY <4>1, <5>1 DEF Joints, Ends
        <5>3. c \in summed /\ at[u] < end[c] /\ OrgOf[c] = OrgOf[u] /\ c \in Closes
          BY <4>1, <5>2 DEF PeriodInv, InvoiceOfClose, InvoicesOf
        <5>4. QED
          BY <3>1, <4>1, <5>3 DEF Missed
      <4>2. QED
        BY <2>3, <3>1, <4>1 DEF PeriodInv, BilledInTime, TypeOK
    <3>5. QED
      BY <2>4, <2>5, <2>6, <2>7, <3>2, <3>3, <3>4 DEF PeriodInv
  <2>10. QED
    BY <2>8, <2>9
<1>4. QED
  BY <1>1, <1>2, <1>3, HalvesNext

-----------------------------------------------------------------------------
(* top_up.                                                                  *)

\* Top-ups leave usage and invoices alone.
LEMMA TopUpPeriods ==
    ASSUME IInv, NEW t \in TopUps, TopUpStep(t)
    PROVE  PeriodInv' /\ UNCHANGED <<invoices, invoice, died>> /\ \A c \in Closes : pc'[c] = pc[c]
<1> USE Kinds DEF usageVars, closeVars, historyVars, walletVars
<1>1. /\ UNCHANGED <<now, usageVars, invoices, closeVars, historyVars>>
      /\ \E s \in Steps : pc' = [pc EXCEPT ![t] = s]
  BY DEF TopUpStep, FindWallet, CreateWallet, InsertCredit, UpdateBalance, CommitTopUp, Goto, Steps
<1>2. /\ \A c \in Closes : pc'[c] = pc[c]
      /\ \A u \in Usages : pc'[u] = pc[u]
  BY <1>1 DEF IInv, TypeOK
<1>3. SameRows
  BY <1>1, RowsUnchanged
<1>4. PeriodInv'
  BY <1>1, <1>2, <1>3, PeriodFrame, Halves
<1>5. QED
  BY <1>1, <1>2, <1>4

\* What a step of a top-up has to keep, once the closes keep what they charge.
LEMMA TopUpWallet ==
    ASSUME IInv, NEW t \in TopUps, TopUpStep(t),
           LockHeld', WriterHoldsLock', CreditKeys', DebitsMatchInvoices',
           \A c \in Closes : pc[c] = "charging" => balance'[OrgOf[c]] >= balance[OrgOf[c]]
    PROVE  IInv'
<1>1. PeriodInv' /\ UNCHANGED <<invoices, invoice>> /\ \A c \in Closes : pc'[c] = pc[c]
  BY TopUpPeriods
<1>2. TypeOK'
  BY TypeTopUp DEF IInv
<1>3. ChargeTarget'
  <2> SUFFICES ASSUME NEW c \in Closes, pc[c] = "charging"
               PROVE  balance'[OrgOf[c]] >= Total(c)
    BY <1>1 DEF IInv, ChargeTarget, Total
  <2>1. balance[OrgOf[c]] >= Total(c) /\ Total(c) \in Nat
    BY TotalType DEF IInv, ChargeTarget, Charging
  <2>2. OrgOf[c] \in Orgs /\ balance[OrgOf[c]] \in Nat /\ balance'[OrgOf[c]] \in Nat
    BY <1>2, Kinds DEF IInv, TypeOK
  <2>3. QED
    BY <2>1, <2>2
<1>4. OpenIsAttended'
  BY <1>1, TopUpPeriods DEF IInv, OpenIsAttended
<1>5. QED
  BY <1>1, <1>2, <1>3, <1>4, HalvesNext DEF WalletInv
\* Finding the wallet changes nothing.
LEMMA FindWalletInv ==
    ASSUME IInv, NEW t \in TopUps, FindWallet(t)
    PROVE  IInv'
<1> USE Kinds DEF walletVars
<1>1. \A r \in Requests : r # t => pc'[r] = pc[r]
  BY DEF FindWallet, Goto, IInv, TypeOK
<1>2. pc[t] = "idle" /\ pc'[t] \in {"crediting", "creating"}
  BY DEF FindWallet, Goto, IInv, TypeOK
<1>3. LockHeld' /\ WriterHoldsLock'
  BY <1>1, <1>2 DEF FindWallet, IInv, TypeOK, LockHeld, WriterHoldsLock
<1>4. CreditKeys' /\ DebitsMatchInvoices'
  BY <1>1, <1>2 DEF FindWallet, IInv, CreditKeys, KeyPending, Posted, DebitsMatchInvoices
<1>5. \A c \in Closes : balance'[OrgOf[c]] >= balance[OrgOf[c]]
  BY DEF FindWallet, IInv, TypeOK
<1>6. QED
  BY <1>3, <1>4, <1>5, TopUpWallet DEF TopUpStep

\* An uncommitted wallet is held by the top-up that inserts it.
LEMMA CreateWalletInv ==
    ASSUME IInv, NEW t \in TopUps, CreateWallet(t)
    PROVE  IInv'
<1> USE Kinds
<1>1. \A r \in Requests : r # t => pc'[r] = pc[r]
  BY DEF CreateWallet, Goto, IInv, TypeOK
<1>2. pc[t] = "creating" /\ pc'[t] = "crediting"
  BY DEF CreateWallet, Goto, IInv, TypeOK
<1>3. lock' = lock \/ (lock[OrgOf[t]] \in {Nobody, t} /\ lock' = [lock EXCEPT ![OrgOf[t]] = t])
  BY DEF CreateWallet, Unlocked, Take
<1>4. LockHeld'
  BY <1>1, <1>2, <1>3 DEF IInv, TypeOK, LockHeld
<1>5. WriterHoldsLock'
  BY <1>1, <1>2, <1>3 DEF IInv, TypeOK, WriterHoldsLock
<1>6. CreditKeys' /\ DebitsMatchInvoices'
  BY <1>1, <1>2 DEF CreateWallet, IInv, CreditKeys, KeyPending, Posted, DebitsMatchInvoices
<1>7. \A c \in Closes : balance'[OrgOf[c]] >= balance[OrgOf[c]]
  BY DEF CreateWallet, IInv, TypeOK
<1>8. QED
  BY <1>4, <1>5, <1>6, <1>7, TopUpWallet DEF TopUpStep

\* A key is taken if no transaction, committed or not, has it.
LEMMA InsertCreditInv ==
    ASSUME IInv, NEW t \in TopUps, InsertCredit(t)
    PROVE  IInv'
<1> USE Kinds
<1>1. \A r \in Requests : r # t => pc'[r] = pc[r]
  BY DEF InsertCredit, Goto, IInv, TypeOK
<1>2. /\ pc[t] = "crediting"
      /\ pc'[t] = IF Posted(KeyOf[t]) THEN "done" ELSE "updating"
  BY DEF InsertCredit, Goto, IInv, TypeOK
<1>3. IF Posted(KeyOf[t])
        THEN lock' = [o \in Orgs |-> IF lock[o] = t THEN Nobody ELSE lock[o]]
        ELSE lock' = lock
  BY DEF InsertCredit, Release
<1>4. LockHeld'
  BY <1>1, <1>2, <1>3 DEF IInv, TypeOK, LockHeld
<1>5. WriterHoldsLock'
  BY <1>1, <1>2, <1>3 DEF IInv, TypeOK, WriterHoldsLock
<1>6. CreditKeys'
  <2>1. ledger' = ledger /\ ~KeyPending(t)
    BY DEF InsertCredit
  <2>2. CASE Posted(KeyOf[t])
    BY <1>1, <1>2, <2>1, <2>2 DEF IInv, CreditKeys, KeyPending, Posted
  <2>3. CASE ~Posted(KeyOf[t])
    BY <1>1, <1>2, <2>1, <2>3 DEF IInv, CreditKeys, KeyPending, Posted
  <2>4. QED
    BY <2>2, <2>3
<1>7. DebitsMatchInvoices'
  BY DEF InsertCredit, IInv, Posted, DebitsMatchInvoices
<1>8. \A c \in Closes : balance'[OrgOf[c]] >= balance[OrgOf[c]]
  BY DEF InsertCredit, IInv, TypeOK
<1>9. QED
  BY <1>4, <1>5, <1>6, <1>7, <1>8, TopUpWallet DEF TopUpStep

\* The update takes the wallet row.
LEMMA UpdateBalanceInv ==
    ASSUME IInv, NEW t \in TopUps, UpdateBalance(t)
    PROVE  IInv'
<1> USE Kinds
<1>1. \A r \in Requests : r # t => pc'[r] = pc[r]
  BY DEF UpdateBalance, Goto, IInv, TypeOK
<1>2. pc[t] = "updating" /\ pc'[t] = "committing"
  BY DEF UpdateBalance, Goto, IInv, TypeOK
<1>3. lock[OrgOf[t]] \in {Nobody, t} /\ lock' = [lock EXCEPT ![OrgOf[t]] = t]
  BY DEF UpdateBalance, Unlocked, Take
<1>4. LockHeld'
  BY <1>1, <1>2, <1>3 DEF IInv, TypeOK, LockHeld
<1>5. WriterHoldsLock'
  BY <1>1, <1>2, <1>3 DEF IInv, TypeOK, WriterHoldsLock
<1>6. CreditKeys' /\ DebitsMatchInvoices'
  BY <1>1, <1>2 DEF UpdateBalance, IInv, CreditKeys, KeyPending, Posted, DebitsMatchInvoices
<1>7. \A c \in Closes : balance'[OrgOf[c]] >= balance[OrgOf[c]]
  BY DEF UpdateBalance, IInv, TypeOK
<1>8. QED
  BY <1>4, <1>5, <1>6, <1>7, TopUpWallet DEF TopUpStep

\* The commit posts a key no invoice has, and lets the wallet row go.
LEMMA CommitTopUpInv ==
    ASSUME IInv, NEW t \in TopUps, CommitTopUp(t)
    PROVE  IInv'
<1> USE Kinds
<1>1. \A r \in Requests : r # t => pc'[r] = pc[r]
  BY DEF CommitTopUp, Goto, IInv, TypeOK
<1>2. pc[t] = "committing" /\ pc'[t] = "done"
  BY DEF CommitTopUp, Goto, IInv, TypeOK
<1>3. /\ lock' = [o \in Orgs |-> IF lock[o] = t THEN Nobody ELSE lock[o]]
      /\ ledger' = ledger \cup {[org |-> OrgOf[t], key |-> KeyOf[t], delta |-> AmountOf[t]]}
      /\ balance' = [balance EXCEPT ![OrgOf[t]] = @ + AmountOf[t]]
      /\ UNCHANGED invoices
  BY DEF CommitTopUp, Post, Release
<1>4. LockHeld'
  BY <1>1, <1>2, <1>3 DEF IInv, TypeOK, LockHeld
<1>5. WriterHoldsLock'
  BY <1>1, <1>2, <1>3 DEF IInv, TypeOK, WriterHoldsLock
<1>6. CreditKeys'
  BY <1>1, <1>2, <1>3 DEF IInv, CreditKeys, KeyPending, Posted
<1>7. DebitsMatchInvoices'
  BY <1>3 DEF IInv, Posted, DebitsMatchInvoices
<1>8. \A c \in Closes : balance'[OrgOf[c]] >= balance[OrgOf[c]]
  <2>1. AmountOf[t] \in Nat
    BY AmountsAssumption
  <2>2. QED
    BY <1>3, <2>1 DEF IInv, TypeOK
<1>9. QED
  BY <1>4, <1>5, <1>6, <1>7, <1>8, TopUpWallet DEF TopUpStep
-----------------------------------------------------------------------------
(* close_invoice: invoice_period.                                           *)

\* A close that has made no invoice yet is in none.
LEMMA NoInvoiceYet ==
    ASSUME IInv, NEW c \in Closes, pc[c] \in {"idle"} \cup Early
    PROVE  invoices[c] = NoRow
BY DEF IInv, InvoiceOfClose, Early, Charging

\* The start a close reads is the last joint, and in the past.
LEMMA ReadStartInv ==
    ASSUME IInv, NEW c \in Closes, ReadStart(c)
    PROVE  IInv'
<1> USE Kinds, Halves DEF usageVars, walletVars, historyVars
<1>1. TypeOK'
  BY TypeClose DEF CloseStep, IInv
<1>2. invoices[c] = NoRow
  BY NoInvoiceYet DEF ReadStart
<1>3. WalletInv'
  <2>1. c \notin Usages /\ "timing" \in Quiet /\ "timing" \in Early
    BY DEF Quiet, Early
  <2>2. QED
    BY <1>2, <2>1, WalletFrame DEF ReadStart
<1>4. PeriodInv'
  <2>1. /\ \A d \in Closes : d # c => pc'[d] = pc[d] /\ start'[d] = start[d]
        /\ pc[c] = "idle" /\ pc'[c] = "timing"
        /\ start'[c] = PeriodStart(OrgOf[c])
        /\ \A u \in Usages : pc'[u] = pc[u]
    BY DEF ReadStart, Goto, TypeOK
  <2>2. SameRows /\ c \notin summed
    BY RowsUnchanged, <2>1 DEF ReadStart, PeriodInv, SumsPeriod
  <2>3. \A o \in Orgs : /\ InvoicesOf(o)' = InvoicesOf(o)
                        /\ Joints(o)' = Joints(o)
                        /\ PeriodStart(o)' = PeriodStart(o)
    BY <2>2, SamePeriods
  <2>4. InvoiceOfClose'
    BY <1>2, <2>1 DEF ReadStart, PeriodInv, InvoiceOfClose
  <2>5. SumsPeriod'
    BY <2>1, <2>2 DEF ReadStart, PeriodInv, SumsPeriod, TypeOK
  <2>6. KeysRecordedOnce' /\ RecordedIsDone'
    BY <2>1 DEF ReadStart, PeriodInv, KeysRecordedOnce, RecordedIsDone, TypeOK
  <2>7. LastJoint'
    BY <2>3 DEF ReadStart, PeriodInv, LastJoint
  <2>8. StartsAtJoint'
    BY <2>1, <2>3 DEF ReadStart, PeriodInv, StartsAtJoint, LastJoint
  <2>9. Chain' /\ Disjoint' /\ BilledInTime'
    BY <2>3 DEF ReadStart, PeriodInv, Chain, Disjoint, BilledInTime, TypeOK
  <2>10. QED
    BY <2>4, <2>5, <2>6, <2>7, <2>8, <2>9 DEF PeriodInv
<1>5. QED
  BY <1>1, <1>3, <1>4, HalvesNext

\* The end it reads is later than its start.
LEMMA ReadClockInv ==
    ASSUME IInv, NEW c \in Closes, ReadClock(c)
    PROVE  IInv'
<1> USE Kinds, Halves DEF usageVars, walletVars, historyVars
<1>1. TypeOK'
  BY TypeClose DEF CloseStep, IInv
<1>2. invoices[c] = NoRow
  BY NoInvoiceYet DEF ReadClock, Early
<1>3. WalletInv'
  <2>1. c \notin Usages /\ "summing" \in Quiet /\ "summing" \in Early
    BY DEF Quiet, Early
  <2>2. QED
    BY <1>2, <2>1, WalletFrame DEF ReadClock
<1>4. PeriodInv'
  <2>1. /\ \A d \in Closes : d # c => pc'[d] = pc[d] /\ end'[d] = end[d]
        /\ pc[c] = "timing" /\ pc'[c] = "summing"
        /\ end'[c] = now + 1 /\ now' = now + 1 /\ now \in Nat
        /\ \A u \in Usages : pc'[u] = pc[u]
    BY DEF ReadClock, Goto, TypeOK
  <2>2. SameRows /\ c \notin summed
    BY RowsUnchanged, <2>1 DEF ReadClock, PeriodInv, SumsPeriod
  <2>3. \A o \in Orgs : /\ InvoicesOf(o)' = InvoicesOf(o)
                        /\ Joints(o)' = Joints(o)
                        /\ PeriodStart(o)' = PeriodStart(o)
    BY <2>2, SamePeriods
  <2>4. InvoiceOfClose'
    BY <1>2, <2>1 DEF ReadClock, PeriodInv, InvoiceOfClose
  <2>5. SumsPeriod'
    BY <2>1, <2>2 DEF ReadClock, PeriodInv, SumsPeriod, TypeOK
  <2>6. KeysRecordedOnce' /\ RecordedIsDone'
    BY <2>1 DEF ReadClock, PeriodInv, KeysRecordedOnce, RecordedIsDone, TypeOK
  <2>7. LastJoint'
    <3>1. \A o \in Orgs : PeriodStart(o) \in Nat
      BY DEF PeriodInv, LastJoint, Joints, Ends, InvoicesOf, TypeOK, Invoice
    <3>2. QED
      BY <2>1, <2>3, <3>1 DEF ReadClock, PeriodInv, LastJoint
  <2>8. StartsAtJoint'
    BY <2>1, <2>3 DEF ReadClock, PeriodInv, StartsAtJoint, TypeOK
  <2>9. Chain' /\ Disjoint' /\ BilledInTime'
    BY <2>3 DEF ReadClock, PeriodInv, Chain, Disjoint, BilledInTime, TypeOK
  <2>10. QED
    BY <2>4, <2>5, <2>6, <2>7, <2>8, <2>9 DEF PeriodInv
<1>5. QED
  BY <1>1, <1>3, <1>4, HalvesNext

\* The sum has all usage of the period that has committed.
LEMMA SumUsageInv ==
    ASSUME IInv, NEW c \in Closes, SumUsage(c)
    PROVE  IInv'
<1> USE Kinds, Halves DEF usageVars, walletVars, historyVars
<1>1. TypeOK'
  BY TypeClose DEF CloseStep, IInv
<1>2. invoices[c] = NoRow
  BY NoInvoiceYet DEF SumUsage, Early
<1>3. WalletInv'
  <2>1. c \notin Usages /\ "invoicing" \in Quiet /\ "invoicing" \in Early
    BY DEF Quiet, Early
  <2>2. QED
    BY <1>2, <2>1, WalletFrame DEF SumUsage
<1>4. PeriodInv'
  <2>1. /\ \A d \in Closes : d # c => pc'[d] = pc[d] /\ billed'[d] = billed[d]
        /\ pc[c] = "summing" /\ pc'[c] = "invoicing"
        /\ billed'[c] = UsageForPeriod(c)
        /\ summed' = summed \cup {c}
        /\ \A u \in Usages : pc'[u] = pc[u]
    BY DEF SumUsage, Goto, TypeOK
  <2>2. SameRows
    BY RowsUnchanged DEF SumUsage
  <2>3. \A o \in Orgs : /\ InvoicesOf(o)' = InvoicesOf(o)
                        /\ Joints(o)' = Joints(o)
                        /\ PeriodStart(o)' = PeriodStart(o)
    BY <2>2, SamePeriods
  <2>4. InvoiceOfClose'
    BY <1>2, <2>1 DEF SumUsage, PeriodInv, InvoiceOfClose
  <2>5. SumsPeriod'
    <3>1. start[c] < end[c]
      BY <2>1 DEF PeriodInv, StartsAtJoint
    <3>2. \A d \in summed : d \in Closes
      BY DEF TypeOK
    <3>3. UNCHANGED <<start, end, recorded, late, at>>
      BY DEF SumUsage
    <3>4. QED
      BY <2>1, <3>1, <3>2, <3>3 DEF PeriodInv, SumsPeriod, UsageForPeriod
  <2>6. KeysRecordedOnce' /\ RecordedIsDone'
    BY <2>1 DEF SumUsage, PeriodInv, KeysRecordedOnce, RecordedIsDone, TypeOK
  <2>7. LastJoint' /\ StartsAtJoint'
    BY <2>1, <2>3 DEF SumUsage, PeriodInv, LastJoint, StartsAtJoint
  <2>8. Chain' /\ Disjoint' /\ BilledInTime'
    BY <2>3 DEF SumUsage, PeriodInv, Chain, Disjoint, BilledInTime, TypeOK
  <2>9. QED
    BY <2>4, <2>5, <2>6, <2>7, <2>8 DEF PeriodInv
<1>5. QED
  BY <1>1, <1>3, <1>4, HalvesNext
\* A period without an invoice is the one after the last.
LEMMA NewPeriodIsLast ==
    ASSUME IInv, NEW c \in Closes, pc[c] = "invoicing", SamePeriod(c) = {}
    PROVE  start[c] = PeriodStart(OrgOf[c])
<1>1. start[c] \in Joints(OrgOf[c]) /\ OrgOf[c] \in Orgs
  BY Kinds DEF IInv, StartsAtJoint
<1>2. ~\E d \in InvoicesOf(OrgOf[c]) : invoices[d].start = start[c]
  BY DEF SamePeriod
<1>3. QED
  BY <1>1, <1>2 DEF IInv, Chain

\* The invoice a close inserts.
NewRow(c) == [start |-> start[c], end |-> end[c], billed |-> billed[c], total |-> due[c],
              status |-> "open"]

\* A new invoice moves the last joint to its end.
LEMMA NewLastJoint ==
    ASSUME IInv, NEW c \in Closes, pc[c] = "invoicing", SamePeriod(c) = {},
           invoices' = [invoices EXCEPT ![c] = NewRow(c)]
    PROVE  /\ InvoicesOf(OrgOf[c])' = InvoicesOf(OrgOf[c]) \cup {c}
           /\ Joints(OrgOf[c])' = Joints(OrgOf[c]) \cup {end[c]}
           /\ PeriodStart(OrgOf[c])' = end[c]
           /\ \A o \in Orgs : o # OrgOf[c] => /\ InvoicesOf(o)' = InvoicesOf(o)
                                              /\ Joints(o)' = Joints(o)
                                              /\ PeriodStart(o)' = PeriodStart(o)
           /\ \A j \in Joints(OrgOf[c]) : j <= start[c] /\ j \in Nat
           /\ invoices'[c] = NewRow(c) /\ NewRow(c) # NoRow
           /\ invoices[c] = NoRow
           /\ \A d \in Closes : d # c => invoices'[d] = invoices[d]
<1> USE Kinds
<1>1. /\ invoices[c] = NoRow
      /\ invoices'[c] = NewRow(c)
      /\ \A d \in Closes : d # c => invoices'[d] = invoices[d]
  BY NoInvoiceYet DEF Early, IInv, TypeOK
<1>2. NewRow(c) # NoRow /\ NewRow(c).end = end[c]
  <2>1. NewRow(c) \in Invoice
    BY DEF NewRow, Invoice, IInv, TypeOK
  <2>2. QED
    BY <2>1, NoRowAssumption DEF NewRow
<1>3. /\ InvoicesOf(OrgOf[c])' = InvoicesOf(OrgOf[c]) \cup {c}
      /\ \A o \in Orgs : o # OrgOf[c] => InvoicesOf(o)' = InvoicesOf(o)
  BY <1>1, <1>2 DEF InvoicesOf
<1>4. \A o \in Orgs : o # OrgOf[c] => Ends(o)' = Ends(o)
  BY <1>1, <1>3 DEF Ends, InvoicesOf
<1>5. Ends(OrgOf[c])' = Ends(OrgOf[c]) \cup {end[c]}
  BY <1>1, <1>2, <1>3 DEF Ends, InvoicesOf
<1>6. Joints(OrgOf[c]) \subseteq Nat /\ end[c] \in Nat /\ start[c] \in Nat
  BY DEF Joints, Ends, InvoicesOf, IInv, TypeOK, Invoice
<1>7. \A j \in Joints(OrgOf[c]) : j <= start[c]
  BY NewPeriodIsLast DEF IInv, LastJoint
<1>8. start[c] < end[c]
  BY DEF IInv, StartsAtJoint
<1>9. PeriodStart(OrgOf[c])' = end[c]
  <2> DEFINE T == Ends(OrgOf[c]) \cup {end[c]}
  <2>1. T \in SUBSET Nat /\ end[c] \in T
    BY <1>6 DEF Joints
  <2>2. \A f \in T : f <= end[c]
    BY <1>6, <1>7, <1>8 DEF Joints
  <2> HIDE DEF T
  <2>3. Latest(T) = end[c]
    BY <2>1, <2>2, LatestIs
  <2>4. QED
    BY <1>5, <2>3 DEF PeriodStart, T
<1>10. QED
  BY <1>1, <1>2, <1>3, <1>4, <1>5, <1>6, <1>7, <1>9 DEF Joints, PeriodStart

\* A close that finds the period's invoice takes it over.
LEMMA ExistingInvoiceInv ==
    ASSUME IInv, NEW c \in Closes, pc[c] = "invoicing", InsertInvoice(c),
           NEW d \in SamePeriod(c), invoice' = [invoice EXCEPT ![c] = d], UNCHANGED invoices
    PROVE  IInv'
<1> USE Kinds, Halves DEF usageVars, walletVars, historyVars
<1>1. TypeOK'
  BY TypeClose DEF CloseStep, IInv
<1>2. /\ \A r \in Requests : r # c => pc'[r] = pc[r]
      /\ pc'[c] = "loading"
      /\ \A e \in Closes : e # c => invoice'[e] = invoice[e]
      /\ invoice'[c] = d
      /\ invoices[c] = NoRow
      /\ d \in Closes /\ invoices[d] # NoRow /\ OrgOf[d] = OrgOf[c]
      /\ UNCHANGED <<now, usageVars, walletVars, start, end, billed, died, summed>>
  BY NoInvoiceYet DEF InsertInvoice, Goto, TypeOK, SamePeriod, InvoicesOf, Early
<1>3. WalletInv'
  <2>1. LockHeld' /\ WriterHoldsLock'
    BY <1>2 DEF WalletInv, LockHeld, WriterHoldsLock, TypeOK
  <2>2. CreditKeys' /\ DebitsMatchInvoices'
    BY <1>2 DEF WalletInv, CreditKeys, KeyPending, Posted, DebitsMatchInvoices
  <2>3. ChargeTarget'
    BY <1>2 DEF WalletInv, ChargeTarget, Total, Charging
  <2>4. OpenIsAttended'
    BY <1>2 DEF WalletInv, OpenIsAttended
  <2>5. QED
    BY <2>1, <2>2, <2>3, <2>4 DEF WalletInv
<1>4. PeriodInv'
  <2>1. \A o \in Orgs : /\ InvoicesOf(o)' = InvoicesOf(o)
                        /\ Joints(o)' = Joints(o)
                        /\ PeriodStart(o)' = PeriodStart(o)
    BY RowsUnchanged, SamePeriods
  <2>2. InvoiceOfClose' /\ SumsPeriod'
    BY <1>2 DEF PeriodInv, InvoiceOfClose, SumsPeriod, TypeOK
  <2>3. KeysRecordedOnce' /\ RecordedIsDone'
    BY <1>2 DEF PeriodInv, KeysRecordedOnce, RecordedIsDone, TypeOK
  <2>4. LastJoint' /\ StartsAtJoint'
    BY <1>2, <2>1 DEF PeriodInv, LastJoint, StartsAtJoint
  <2>5. Chain' /\ Disjoint' /\ BilledInTime'
    BY <1>2, <2>1 DEF PeriodInv, Chain, Disjoint, BilledInTime, TypeOK
  <2>6. QED
    BY <2>2, <2>3, <2>4, <2>5 DEF PeriodInv
<1>5. QED
  BY <1>1, <1>3, <1>4, HalvesNext

\* A close that inserts its invoice continues the chain.
LEMMA NewInvoiceInv ==
    ASSUME IInv, NEW c \in Closes, pc[c] = "invoicing", InsertInvoice(c), SamePeriod(c) = {},
           invoice' = [invoice EXCEPT ![c] = c],
           invoices' = [invoices EXCEPT ![c] = NewRow(c)]
    PROVE  IInv'
<1> USE Kinds, Halves DEF usageVars, walletVars, historyVars
<1>1. TypeOK'
  BY TypeClose DEF CloseStep, IInv
<1>2. /\ \A r \in Requests : r # c => pc'[r] = pc[r]
      /\ pc'[c] = "loading"
      /\ \A e \in Closes : e # c => invoice'[e] = invoice[e]
      /\ invoice'[c] = c
      /\ UNCHANGED <<now, usageVars, walletVars, start, end, billed, died, summed>>
  BY DEF InsertInvoice, Goto, TypeOK
<1>3. /\ invoices[c] = NoRow
      /\ invoices'[c] = NewRow(c) /\ NewRow(c) # NoRow
      /\ \A d \in Closes : d # c => invoices'[d] = invoices[d]
  BY NewLastJoint
<1>4. WalletInv'
  <2>1. LockHeld' /\ WriterHoldsLock'
    BY <1>2 DEF WalletInv, LockHeld, WriterHoldsLock, TypeOK
  <2>2. CreditKeys'
    BY <1>2 DEF WalletInv, CreditKeys, KeyPending, Posted
  <2>3. DebitsMatchInvoices'
    BY <1>2, <1>3 DEF WalletInv, DebitsMatchInvoices, Posted, NewRow
  <2>4. ChargeTarget'
    BY <1>2, <1>3 DEF WalletInv, ChargeTarget, Total, Charging
  <2>5. OpenIsAttended'
    BY <1>2, <1>3 DEF WalletInv, OpenIsAttended
  <2>6. QED
    BY <2>1, <2>2, <2>3, <2>4, <2>5 DEF WalletInv
<1>5. PeriodInv'
  <2>1. /\ InvoicesOf(OrgOf[c])' = InvoicesOf(OrgOf[c]) \cup {c}
        /\ Joints(OrgOf[c])' = Joints(OrgOf[c]) \cup {end[c]}
        /\ PeriodStart(OrgOf[c])' = end[c]
        /\ \A o \in Orgs : o # OrgOf[c] => /\ InvoicesOf(o)' = InvoicesOf(o)
                                           /\ Joints(o)' = Joints(o)
                                           /\ PeriodStart(o)' = PeriodStart(o)
        /\ \A j \in Joints(OrgOf[c]) : j <= start[c] /\ j \in Nat
    BY NewLastJoint
  <2>2. /\ c \in summed /\ start[c] < end[c] /\ end[c] <= now
        /\ start[c] = PeriodStart(OrgOf[c])
        /\ start[c] \in Nat /\ end[c] \in Nat /\ now \in Nat
    BY NewPeriodIsLast DEF PeriodInv, StartsAtJoint, TypeOK
  <2>3. InvoiceOfClose'
    BY <1>2, <1>3, <2>2 DEF PeriodInv, InvoiceOfClose, NewRow
  <2>4. SumsPeriod' /\ KeysRecordedOnce' /\ RecordedIsDone'
    BY <1>2 DEF PeriodInv, SumsPeriod, KeysRecordedOnce, RecordedIsDone, TypeOK
  <2>5. LastJoint'
    BY <1>2, <2>1, <2>2 DEF PeriodInv, LastJoint
  <2>6. StartsAtJoint'
    BY <1>2, <2>1 DEF PeriodInv, StartsAtJoint
  <2>7. Chain'
    <3>1. ASSUME NEW j \in Joints(OrgOf[c])', j # end[c]
          PROVE  \E d \in InvoicesOf(OrgOf[c])' : invoices'[d].start = j
      <4>1. CASE j = start[c]
        BY <1>3, <2>1, <4>1 DEF NewRow
      <4>2. CASE j # start[c]
        <5>1. PICK d \in InvoicesOf(OrgOf[c]) : invoices[d].start = j
          BY <2>1, <2>2, <3>1, <4>2 DEF PeriodInv, Chain
        <5>2. QED
          BY <1>3, <2>1, <5>1 DEF InvoicesOf
      <4>3. QED
        BY <4>1, <4>2
    <3>2. ASSUME NEW o \in Orgs, o # OrgOf[c], NEW j \in Joints(o)', j # PeriodStart(o)'
          PROVE  \E d \in InvoicesOf(o)' : invoices'[d].start = j
      <4>1. PICK d \in InvoicesOf(o) : invoices[d].start = j
        BY <2>1, <3>2 DEF PeriodInv, Chain
      <4>2. QED
        BY <1>3, <2>1, <3>2, <4>1 DEF InvoicesOf
    <3>3. QED
      BY <2>1, <3>1, <3>2 DEF Chain
  <2>8. Disjoint'
    <3>1. ASSUME NEW d \in Closes, d # c, invoices[d] # NoRow, OrgOf[d] = OrgOf[c]
          PROVE  invoices[d].end <= start[c]
      BY <2>1, <3>1 DEF Joints, Ends, InvoicesOf
    <3>2. NewRow(c).start = start[c]
      BY DEF NewRow
    <3>3. QED
      BY <1>3, <3>1, <3>2 DEF PeriodInv, Disjoint
  <2>9. BilledInTime'
    <3> SUFFICES ASSUME NEW u \in recorded \ late, at[u] < PeriodStart(OrgOf[u])'
                 PROVE  \E d \in InvoicesOf(OrgOf[u])' : u \in invoices'[d].billed
      BY <1>2 DEF BilledInTime
    <3>1. u \in Usages /\ OrgOf[u] \in Orgs /\ at[u] \in Nat
      BY DEF TypeOK
    <3>2. CASE at[u] < PeriodStart(OrgOf[u])
      <4>1. PICK d \in InvoicesOf(OrgOf[u]) : u \in invoices[d].billed
        BY <3>2 DEF PeriodInv, BilledInTime
      <4>2. QED
        BY <1>3, <2>1, <3>1, <4>1 DEF InvoicesOf
    <3>3. CASE ~(at[u] < PeriodStart(OrgOf[u]))
      <4>1. OrgOf[u] = OrgOf[c]
        BY <2>1, <3>1, <3>3
      <4>2. start[c] <= at[u] /\ at[u] < end[c]
        BY <2>1, <2>2, <3>1, <3>3, <4>1
      <4>3. u \in billed[c]
        BY <2>2, <4>1, <4>2 DEF PeriodInv, SumsPeriod
      <4>4. QED
        BY <1>3, <2>1, <4>1, <4>3 DEF NewRow
    <3>4. QED
      BY <3>2, <3>3
  <2>10. QED
    BY <2>3, <2>4, <2>5, <2>6, <2>7, <2>8, <2>9 DEF PeriodInv
<1>6. QED
  BY <1>1, <1>4, <1>5, HalvesNext

\* The INSERT of invoice_period keeps the invariant either way.
LEMMA InsertInvoiceInv ==
    ASSUME IInv, NEW c \in Closes, InsertInvoice(c)
    PROVE  IInv'
<1>1. pc[c] = "invoicing"
  BY DEF InsertInvoice
<1>2. \/ /\ SamePeriod(c) = {}
         /\ invoices' = [invoices EXCEPT ![c] = NewRow(c)]
         /\ invoice' = [invoice EXCEPT ![c] = c]
      \/ \E d \in SamePeriod(c) :
            invoice' = [invoice EXCEPT ![c] = d] /\ UNCHANGED invoices
  BY DEF InsertInvoice, NewRow
<1>3. QED
  BY <1>1, <1>2, NewInvoiceInv, ExistingInvoiceInv
-----------------------------------------------------------------------------
(* close_invoice: charge_invoice.                                           *)

\* Steps of a charge leave usage and periods alone.
LEMMA ChargePeriods ==
    ASSUME IInv, NEW c \in Closes, SameRows, pc[c] \in {"loading"} \cup Charging,
           NEW s \in {"done"} \cup Charging, Goto(c, s),
           UNCHANGED <<now, usageVars, closeVars, historyVars>>
    PROVE  /\ PeriodInv'
           /\ \A r \in Requests : r # c => pc'[r] = pc[r]
           /\ pc'[c] = s
<1> USE Kinds DEF closeVars, historyVars
<1>1. pc' = [pc EXCEPT ![c] = s] /\ pc \in [Requests -> Steps]
  BY DEF Goto, IInv, TypeOK
<1>2. pc'[c] = s /\ \A r \in Requests : r # c => pc'[r] = pc[r]
  BY <1>1
<1>3. \A u \in Usages : pc'[u] = pc[u]
  BY <1>2
<1>4. \A d \in Closes : pc'[d] # pc[d] =>
        /\ pc[d] # "idle" /\ pc'[d] \notin {"idle"} \cup Early
        /\ pc'[d] \in {"done"} \cup Charging
  BY <1>2 DEF Charging, Early
<1>5. QED
  BY <1>2, <1>3, <1>4, PeriodFrame, Halves

\* The status a charge loads is that of an invoice of its organization.
LEMMA LoadInvoiceInv ==
    ASSUME IInv, NEW c \in Closes, LoadInvoice(c)
    PROVE  IInv'
<1> USE Kinds DEF walletVars, closeVars, historyVars
<1>1. TypeOK'
  BY TypeClose DEF CloseStep, IInv
<1>2. PICK s \in {"done", "settling", "debiting"} :
        /\ Goto(c, s)
        /\ s = IF invoices[invoice[c]].status # "open" THEN "done"
               ELSE IF Total(c) = 0 THEN "settling" ELSE "debiting"
  BY DEF LoadInvoice
<1>3. SameRows /\ pc[c] = "loading"
  BY RowsUnchanged DEF LoadInvoice
<1>4. s \in {"done"} \cup Charging
  BY DEF Charging
<1>5. /\ PeriodInv'
      /\ \A r \in Requests : r # c => pc'[r] = pc[r]
      /\ pc'[c] = s
  BY <1>2, <1>3, <1>4, ChargePeriods DEF LoadInvoice
<1>6. UNCHANGED <<invoices, invoice, wallet, balance, ledger, lock, died>>
  BY DEF LoadInvoice
<1>7. LockHeld' /\ WriterHoldsLock'
  BY <1>3, <1>5, <1>6 DEF IInv, LockHeld, WriterHoldsLock, TypeOK
<1>8. CreditKeys' /\ DebitsMatchInvoices'
  BY <1>5, <1>6 DEF IInv, CreditKeys, KeyPending, Posted, DebitsMatchInvoices
<1>9. ChargeTarget'
  <2>1. /\ invoice[c] \in Closes /\ invoices[invoice[c]] # NoRow
        /\ OrgOf[invoice[c]] = OrgOf[c]
        /\ Total(c) \in Nat
    <3>1. invoice[c] \in Closes /\ invoices[invoice[c]] # NoRow /\ OrgOf[invoice[c]] = OrgOf[c]
      BY <1>3 DEF IInv, ChargeTarget
    <3>2. invoices[invoice[c]] \in Invoice
      BY <3>1 DEF IInv, TypeOK
    <3>3. QED
      BY <3>1, <3>2 DEF Invoice, Total
  <2>2. Total(c)' = Total(c) /\ \A d \in Closes : Total(d)' = Total(d)
    BY <1>6 DEF Total
  <2>3. QED
    BY <1>2, <1>5, <1>6, <2>1, <2>2 DEF IInv, ChargeTarget, Charging
<1>10. OpenIsAttended'
  <2>1. ASSUME invoices[c] # NoRow, invoices[c].status = "open" PROVE s # "done"
    <3>1. invoice[c] = c
      BY <2>1 DEF IInv, InvoiceOfClose
    <3>2. QED
      BY <1>2, <2>1, <3>1
  <2>2. QED
    BY <1>4, <1>5, <1>6, <2>1 DEF IInv, OpenIsAttended, Charging
<1>11. QED
  BY <1>1, <1>5, <1>7, <1>8, <1>9, <1>10, HalvesNext DEF WalletInv

\* A charge that only sets a status and ends keeps the invariant, if a paid
\* invoice is free.
LEMMA StatusInv ==
    ASSUME IInv, TypeOK', NEW c \in Closes, pc[c] \in {"settling", "refusing"},
           NEW status \in {"paid", "uncollectible"}, SetStatus(c, status), Goto(c, "done"),
           status = "paid" => Total(c) = 0,
           UNCHANGED <<now, usageVars, walletVars, closeVars, historyVars>>
    PROVE  IInv'
<1> USE Kinds DEF walletVars, closeVars, historyVars
<1>1. pc[c] \in Charging
  BY DEF Charging
<1>2. /\ SameRows
      /\ invoices'[invoice[c]].status = status
      /\ invoice[c] \in Closes
      /\ \A d \in Closes : d # invoice[c] => invoices'[d] = invoices[d]
  <2>1. TypeOK /\ ChargeTarget
    BY DEF IInv
  <2>2. SameRows /\ invoices'[invoice[c]].status = status
    BY <1>1, <2>1, StatusKeepsRows
  <2>3. \A d \in Closes : d # invoice[c] => invoices'[d] = invoices[d]
    BY <1>1, <2>1, StatusSet
  <2>4. invoice[c] \in Closes
    BY <1>1, <2>1, TotalType
  <2>5. QED
    BY <2>2, <2>3, <2>4
<1>3. /\ PeriodInv'
      /\ \A r \in Requests : r # c => pc'[r] = pc[r]
      /\ pc'[c] = "done"
  BY <1>1, <1>2, ChargePeriods
<1>4. UNCHANGED <<invoice, balance, ledger, lock, died>>
  OBVIOUS
<1>5. LockHeld' /\ WriterHoldsLock'
  BY <1>3, <1>4 DEF IInv, LockHeld, WriterHoldsLock, TypeOK
<1>6. CreditKeys'
  BY <1>3, <1>4 DEF IInv, CreditKeys, KeyPending, Posted
<1>7. ChargeTarget'
  <2>1. \A d \in Closes : pc[d] \in {"loading"} \cup Charging =>
          /\ Total(d)' = Total(d)
          /\ invoice[d] \in Closes /\ invoices'[invoice[d]] # NoRow
    BY <1>2, <1>4 DEF IInv, ChargeTarget, Total, SameRows
  <2>2. QED
    BY <1>3, <1>4, <2>1 DEF IInv, ChargeTarget, Charging
<1>8. DebitsMatchInvoices'
  <2>1. \A k : Posted(k)' <=> Posted(k)
    BY <1>4 DEF Posted
  <2>2. ASSUME NEW d \in Closes, invoices'[d] # NoRow, invoices'[d].status = "paid",
               invoices'[d].total > 0
        PROVE  Posted(d)
    <3>1. CASE d = invoice[c]
      <4>1. status = "paid" /\ invoices[d] # NoRow /\ invoices'[d].total = invoices[d].total
        BY <1>2, <2>2, <3>1 DEF SameRows
      <4>2. invoices[d].total = 0
        BY <3>1, <4>1 DEF Total
      <4>3. QED
        BY <2>2, <4>1, <4>2
    <3>2. CASE d # invoice[c]
      BY <1>2, <2>2, <3>2 DEF IInv, DebitsMatchInvoices
    <3>3. QED
      BY <3>1, <3>2
  <2>3. ASSUME NEW e \in ledger, e.key \in Closes
        PROVE  /\ invoices'[e.key] # NoRow /\ invoices'[e.key].status # "open"
               /\ e.org = OrgOf[e.key] /\ e.delta = -invoices'[e.key].total
    BY <1>2, <2>3 DEF IInv, DebitsMatchInvoices, SameRows
  <2>4. QED
    BY <1>4, <2>1, <2>2, <2>3 DEF DebitsMatchInvoices
<1>9. OpenIsAttended'
  <2> SUFFICES ASSUME NEW d \in Closes, invoices'[d] # NoRow, invoices'[d].status = "open"
               PROVE  d \in died \/ pc'[d] \in {"loading"} \cup Charging
    BY <1>4 DEF OpenIsAttended, Charging
  <2>1. d # invoice[c]
    BY <1>2
  <2>2. invoices[d] # NoRow /\ invoices[d].status = "open"
    BY <1>2, <2>1
  <2>3. d # c
    BY <2>1, <2>2 DEF IInv, InvoiceOfClose
  <2>4. QED
    BY <1>3, <2>2, <2>3 DEF IInv, OpenIsAttended, Charging
<1>10. QED
  BY <1>3, <1>5, <1>6, <1>7, <1>8, <1>9, HalvesNext DEF WalletInv

\* A free invoice is paid at once.
LEMMA SettleFreeInv ==
    ASSUME IInv, NEW c \in Closes, SettleFree(c)
    PROVE  IInv'
<1>1. TypeOK'
  BY TypeClose DEF CloseStep, IInv
<1>2. Total(c) = 0
  BY DEF SettleFree, IInv, ChargeTarget
<1>3. QED
  BY <1>1, <1>2, StatusInv DEF SettleFree

\* An invoice no balance covers is uncollectible.
LEMMA MarkUncollectibleInv ==
    ASSUME IInv, NEW c \in Closes, MarkUncollectible(c)
    PROVE  IInv'
<1>1. TypeOK'
  BY TypeClose DEF CloseStep, IInv
<1>2. QED
  BY <1>1, StatusInv DEF MarkUncollectible
\* A debit that finds the balance takes the wallet row, and what it has found
\* stays there; one that does not goes on to refuse.
LEMMA DebitInv ==
    ASSUME IInv, NEW c \in Closes, Debit(c)
    PROVE  IInv'
<1> USE Kinds DEF walletVars, closeVars, historyVars
<1>1. TypeOK'
  BY TypeClose DEF CloseStep, IInv
<1>2. /\ UNCHANGED <<now, usageVars, closeVars, historyVars, invoices, wallet, balance, ledger>>
      /\ pc[c] = "debiting"
  BY DEF Debit
<1>3. PICK s \in {"charging", "refusing"} :
        /\ Goto(c, s)
        /\ s = "charging" => /\ balance[OrgOf[c]] >= Total(c)
                             /\ lock[OrgOf[c]] \in {Nobody, c}
                             /\ lock' = [lock EXCEPT ![OrgOf[c]] = c]
        /\ s = "refusing" => lock' = lock
  BY DEF Debit, Covered, Unlocked, Take
<1>4. SameRows /\ s \in {"done"} \cup Charging /\ pc[c] \in Charging
  BY <1>2, RowsUnchanged DEF Charging
<1>5. /\ PeriodInv'
      /\ \A r \in Requests : r # c => pc'[r] = pc[r]
      /\ pc'[c] = s
  BY <1>2, <1>3, <1>4, ChargePeriods
<1>6. LockHeld'
  BY <1>2, <1>3, <1>5 DEF IInv, LockHeld, TypeOK
<1>7. WriterHoldsLock'
  BY <1>2, <1>3, <1>5 DEF IInv, WriterHoldsLock, LockHeld, TypeOK
<1>8. CreditKeys' /\ DebitsMatchInvoices'
  BY <1>2, <1>5 DEF IInv, CreditKeys, KeyPending, Posted, DebitsMatchInvoices
<1>9. ChargeTarget'
  <2>1. \A d \in Closes : Total(d)' = Total(d)
    BY <1>2 DEF Total
  <2>2. QED
    BY <1>2, <1>3, <1>5, <2>1 DEF IInv, ChargeTarget, Charging
<1>10. OpenIsAttended'
  BY <1>2, <1>3, <1>5 DEF IInv, OpenIsAttended
<1>11. QED
  BY <1>1, <1>5, <1>6, <1>7, <1>8, <1>9, <1>10, HalvesNext DEF WalletInv

\* A charge whose key collides rolls back; the other has settled the invoice.
LEMMA CollidingChargeInv ==
    ASSUME IInv, NEW c \in Closes, CommitCharge(c), Posted(invoice[c])
    PROVE  IInv'
<1> USE Kinds DEF walletVars, closeVars, historyVars
<1>1. TypeOK'
  BY TypeClose DEF CloseStep, IInv
<1>2. /\ UNCHANGED <<now, usageVars, closeVars, historyVars, invoices, wallet, balance, ledger>>
      /\ pc[c] = "charging"
      /\ Goto(c, "done")
      /\ lock' = [o \in Orgs |-> IF lock[o] = c THEN Nobody ELSE lock[o]]
  BY DEF CommitCharge, Release
<1>3. SameRows /\ pc[c] \in Charging
  BY <1>2, RowsUnchanged DEF Charging
<1>4. /\ PeriodInv'
      /\ \A r \in Requests : r # c => pc'[r] = pc[r]
      /\ pc'[c] = "done"
  BY <1>2, <1>3, ChargePeriods
<1>5. LockHeld' /\ WriterHoldsLock'
  BY <1>2, <1>4 DEF IInv, LockHeld, WriterHoldsLock, TypeOK
<1>6. CreditKeys' /\ DebitsMatchInvoices'
  BY <1>2, <1>4 DEF IInv, CreditKeys, KeyPending, Posted, DebitsMatchInvoices
<1>7. ChargeTarget'
  <2>1. \A d \in Closes : Total(d)' = Total(d)
    BY <1>2 DEF Total
  <2>2. QED
    BY <1>2, <1>4, <2>1 DEF IInv, ChargeTarget, Charging
<1>8. OpenIsAttended'
  <2>1. invoice[c] \in Closes
    BY <1>3, TotalType DEF IInv
  <2>2. invoices[invoice[c]].status # "open"
    BY <2>1 DEF IInv, DebitsMatchInvoices, Posted
  <2>3. invoices[c] # NoRow => invoices[c].status # "open"
    BY <2>2 DEF IInv, InvoiceOfClose
  <2>4. QED
    BY <1>2, <1>4, <2>3 DEF IInv, OpenIsAttended
<1>9. QED
  BY <1>1, <1>4, <1>5, <1>6, <1>7, <1>8, HalvesNext DEF WalletInv

\* The commit of a charge posts the debit of an invoice it marks paid.  It holds
\* the wallet row, so no other charge of the organization is as far.
LEMMA PaidChargeInv ==
    ASSUME IInv, NEW c \in Closes, CommitCharge(c), ~Posted(invoice[c])
    PROVE  IInv'
<1> USE Kinds DEF walletVars, closeVars, historyVars
<1>1. TypeOK'
  BY TypeClose DEF CloseStep, IInv
<1>2. /\ UNCHANGED <<now, usageVars, closeVars, historyVars, wallet>>
      /\ pc[c] = "charging" /\ pc[c] \in Charging
      /\ Goto(c, "done") /\ SetStatus(c, "paid")
      /\ lock' = [o \in Orgs |-> IF lock[o] = c THEN Nobody ELSE lock[o]]
      /\ ledger' = ledger \cup {[org |-> OrgOf[c], key |-> invoice[c], delta |-> -Total(c)]}
      /\ balance' = [balance EXCEPT ![OrgOf[c]] = @ + (-Total(c))]
  BY DEF CommitCharge, Release, Post, Charging
<1>3. TypeOK /\ ChargeTarget
  BY DEF IInv
<1>4. SameRows /\ invoices'[invoice[c]].status = "paid"
  BY <1>2, <1>3, StatusKeepsRows
<1>5. \A d \in Closes : d # invoice[c] => invoices'[d] = invoices[d]
  BY <1>2, <1>3, StatusSet
<1>6. invoice[c] \in Closes /\ Total(c) \in Nat /\ OrgOf[invoice[c]] = OrgOf[c]
      /\ invoices[invoice[c]] # NoRow
  BY <1>2, <1>3, TotalType DEF ChargeTarget
<1>7. /\ PeriodInv'
      /\ \A r \in Requests : r # c => pc'[r] = pc[r]
      /\ pc'[c] = "done"
  BY <1>2, <1>4, ChargePeriods
<1>8. LockHeld' /\ WriterHoldsLock'
  BY <1>2, <1>7 DEF IInv, LockHeld, WriterHoldsLock, TypeOK
<1>9. CreditKeys'
  BY <1>2, <1>6, <1>7 DEF IInv, CreditKeys, KeyPending, Posted
<1>10. ChargeTarget'
  <2>1. \A d \in Closes : pc[d] \in {"loading"} \cup Charging =>
          /\ Total(d)' = Total(d)
          /\ invoice[d] \in Closes /\ invoices'[invoice[d]] # NoRow
    BY <1>2, <1>3, <1>4 DEF ChargeTarget, Total, SameRows
  <2>2. \A d \in Closes : d # c /\ pc[d] = "charging" => OrgOf[d] # OrgOf[c]
    BY <1>2 DEF IInv, WriterHoldsLock
  <2>3. \A d \in Closes : d # c /\ pc[d] = "charging" => balance'[OrgOf[d]] = balance[OrgOf[d]]
    BY <1>2, <1>3, <2>2 DEF TypeOK
  <2>4. QED
    BY <1>2, <1>3, <1>7, <2>1, <2>3 DEF ChargeTarget, Charging
<1>11. DebitsMatchInvoices'
  <2>1. invoices'[invoice[c]].total = Total(c) /\ invoices'[invoice[c]] # NoRow
    BY <1>4, <1>6 DEF SameRows, Total
  <2>2. ASSUME NEW e \in ledger', e.key \in Closes
        PROVE  /\ invoices'[e.key] # NoRow /\ invoices'[e.key].status # "open"
               /\ e.org = OrgOf[e.key] /\ e.delta = -invoices'[e.key].total
    <3>1. CASE e \in ledger
      BY <1>4, <2>2, <3>1 DEF IInv, DebitsMatchInvoices, SameRows
    <3>2. CASE e = [org |-> OrgOf[c], key |-> invoice[c], delta |-> -Total(c)]
      <4>1. e.key = invoice[c] /\ e.org = OrgOf[c] /\ e.delta = -Total(c)
        BY <3>2
      <4>2. QED
        BY <1>4, <1>6, <2>1, <4>1
    <3>3. QED
      BY <1>2, <3>1, <3>2
  <2>3. ASSUME NEW d \in Closes, invoices'[d] # NoRow, invoices'[d].status = "paid",
               invoices'[d].total > 0
        PROVE  Posted(d)'
    <3>1. CASE d = invoice[c]
      <4> DEFINE new == [org |-> OrgOf[c], key |-> invoice[c], delta |-> -Total(c)]
      <4>1. new \in ledger' /\ new.key = d
        BY <1>2, <3>1
      <4> HIDE DEF new
      <4>2. QED
        BY <4>1 DEF Posted
    <3>2. CASE d # invoice[c]
      <4>1. Posted(d)
        BY <1>5, <2>3, <3>2 DEF IInv, DebitsMatchInvoices
      <4>2. QED
        BY <1>2, <4>1 DEF Posted
    <3>3. QED
      BY <3>1, <3>2
  <2>4. QED
    BY <2>2, <2>3 DEF DebitsMatchInvoices
<1>12. OpenIsAttended'
  <2> SUFFICES ASSUME NEW d \in Closes, invoices'[d] # NoRow, invoices'[d].status = "open"
               PROVE  d \in died \/ pc'[d] \in {"loading"} \cup Charging
    BY <1>2 DEF OpenIsAttended, Charging
  <2>1. d # invoice[c]
    BY <1>4
  <2>2. invoices[d] # NoRow /\ invoices[d].status = "open"
    BY <1>5, <2>1
  <2>3. d # c
    BY <2>1, <2>2 DEF IInv, InvoiceOfClose
  <2>4. QED
    BY <1>7, <2>2, <2>3 DEF IInv, OpenIsAttended, Charging
<1>13. QED
  BY <1>1, <1>7, <1>8, <1>9, <1>10, <1>11, <1>12, HalvesNext DEF WalletInv

\* A death rolls back what is not committed, and lets the wallet row go.
LEMMA DieInv ==
    ASSUME IInv, NEW r \in Requests, Die(r)
    PROVE  IInv'
<1> USE Kinds DEF closeVars
<1>1. TypeOK'
  BY TypeDie DEF IInv
<1>2. /\ pc' = [pc EXCEPT ![r] = "done"] /\ pc \in [Requests -> Steps]
      /\ pc[r] \notin {"idle", "done"}
      /\ UNCHANGED <<now, usageVars, invoices, wallet, balance, ledger, closeVars, summed>>
      /\ died' = died \cup {r}
      /\ lock' = [o \in Orgs |-> IF lock[o] = r THEN Nobody ELSE lock[o]]
  BY DEF Die, Goto, Release, IInv, TypeOK
<1>3. pc'[r] = "done" /\ \A q \in Requests : q # r => pc'[q] = pc[q]
  BY <1>2
<1>4. PeriodInv'
  <2>1. SameRows
    BY <1>2, RowsUnchanged
  <2>2. \A u \in Usages : pc[u] = "done" => pc'[u] = "done"
    BY <1>3
  <2>3. \A c \in Closes : pc'[c] # pc[c] =>
          /\ pc[c] # "idle" /\ pc'[c] \notin {"idle"} \cup Early
          /\ pc'[c] \in {"done"} \cup Charging
    BY <1>2, <1>3 DEF Early
  <2>4. QED
    BY <1>2, <2>1, <2>2, <2>3, PeriodFrame, Halves
<1>5. LockHeld' /\ WriterHoldsLock'
  BY <1>2, <1>3 DEF IInv, LockHeld, WriterHoldsLock, TypeOK
<1>6. CreditKeys' /\ DebitsMatchInvoices'
  BY <1>2, <1>3 DEF IInv, CreditKeys, KeyPending, Posted, DebitsMatchInvoices
<1>7. ChargeTarget'
  <2>1. \A d \in Closes : Total(d)' = Total(d)
    BY <1>2 DEF Total
  <2>2. QED
    BY <1>2, <1>3, <2>1 DEF IInv, ChargeTarget, Charging
<1>8. OpenIsAttended'
  BY <1>2, <1>3 DEF IInv, OpenIsAttended
<1>9. QED
  BY <1>1, <1>4, <1>5, <1>6, <1>7, <1>8, HalvesNext DEF WalletInv
-----------------------------------------------------------------------------
(* The theorems.                                                            *)

\* Empty tables satisfy the invariant.
LEMMA InvariantInit == Init => IInv
<1> SUFFICES ASSUME Init PROVE IInv
  OBVIOUS
<1> USE Kinds
<1>1. TypeOK
  BY TypeInit
<1>2. WalletInv
  BY DEF Init, WalletInv, LockHeld, WriterHoldsLock, CreditKeys, ChargeTarget,
         DebitsMatchInvoices, OpenIsAttended, Charging
<1>3. \A o \in Orgs : /\ InvoicesOf(o) = {}
                      /\ Joints(o) = {0}
                      /\ PeriodStart(o) = 0
  BY DEF Init, InvoicesOf, Ends, Joints, PeriodStart, Latest
<1>4. PeriodInv
  <2>1. InvoiceOfClose /\ SumsPeriod /\ KeysRecordedOnce /\ RecordedIsDone /\ Disjoint
    BY DEF Init, InvoiceOfClose, SumsPeriod, KeysRecordedOnce, RecordedIsDone, Disjoint
  <2>2. LastJoint /\ StartsAtJoint /\ Chain /\ BilledInTime
    BY <1>3 DEF Init, LastJoint, StartsAtJoint, Chain, BilledInTime
  <2>3. QED
    BY <2>1, <2>2 DEF PeriodInv
<1>5. QED
  BY <1>1, <1>2, <1>4, Halves

\* The invariant speaks of the variables only.
LEMMA InvariantStutter == IInv /\ UNCHANGED vars => IInv'
<1> SUFFICES ASSUME IInv, UNCHANGED vars PROVE IInv'
  OBVIOUS
<1> USE Kinds DEF vars, usageVars, walletVars, closeVars, historyVars
<1>1. TypeOK'
  BY DEF IInv, TypeOK
<1>2. WalletInv'
  BY DEF IInv, WalletInv, LockHeld, WriterHoldsLock, CreditKeys, KeyPending, Posted, ChargeTarget,
         Total, DebitsMatchInvoices, OpenIsAttended
<1>3. PeriodInv'
  <2>1. SameRows
    BY RowsUnchanged
  <2>2. QED
    BY <2>1, PeriodFrame, Halves
<1>4. QED
  BY <1>1, <1>2, <1>3, HalvesNext

\* Every step of every request keeps the invariant.
LEMMA InvariantStep == IInv /\ [Next]_vars => IInv'
<1> SUFFICES ASSUME IInv, Next PROVE IInv'
  BY InvariantStutter
<1>1. ASSUME NEW u \in Usages, UsageStep(u) PROVE IInv'
  BY <1>1, BeginUsageInv, InsertUsageInv DEF UsageStep
<1>2. ASSUME NEW t \in TopUps, TopUpStep(t) PROVE IInv'
  BY <1>2, FindWalletInv, CreateWalletInv, InsertCreditInv, UpdateBalanceInv, CommitTopUpInv
     DEF TopUpStep
<1>3. ASSUME NEW c \in Closes, CloseStep(c) PROVE IInv'
  <2>1. CASE ReadStart(c) \/ ReadClock(c) \/ SumUsage(c) \/ InsertInvoice(c)
    BY <2>1, ReadStartInv, ReadClockInv, SumUsageInv, InsertInvoiceInv
  <2>2. CASE LoadInvoice(c) \/ SettleFree(c) \/ Debit(c) \/ MarkUncollectible(c)
    BY <2>2, LoadInvoiceInv, SettleFreeInv, DebitInv, MarkUncollectibleInv
  <2>3. CASE CommitCharge(c)
    BY <2>3, CollidingChargeInv, PaidChargeInv
  <2>4. QED
    BY <1>3, <2>1, <2>2, <2>3 DEF CloseStep
<1>4. ASSUME NEW r \in Requests, Die(r) PROVE IInv'
  BY <1>4, DieInv
<1>5. QED
  BY <1>1, <1>2, <1>3, <1>4 DEF Next

\* The invariant holds of every reachable state of the metering service.
THEOREM Invariant == Spec => []IInv
BY InvariantInit, InvariantStep, PTL DEF Spec

\* Tables and requests are well typed, and no balance is negative (the
\* conditional UPDATE of charge_invoice).
THEOREM TypeCorrect == Spec => []TypeOK
<1>1. IInv => TypeOK
  BY DEF IInv
<1>2. QED
  BY Invariant, <1>1, PTL

\* Debits and settled invoices correspond (charge_invoice).
THEOREM DebitsMatchInvoicesHolds == Spec => []DebitsMatchInvoices
<1>1. IInv => DebitsMatchInvoices
  BY DEF IInv
<1>2. QED
  BY Invariant, <1>1, PTL

\* Only the death of its close leaves an invoice open (close_invoice).
THEOREM OpenIsAttendedHolds == Spec => []OpenIsAttended
<1>1. IInv => OpenIsAttended
  BY DEF IInv
<1>2. QED
  BY Invariant, <1>1, PTL

\* Usage that commits in time is billed (usage_for_period, _period_start).
THEOREM BilledInTimeHolds == Spec => []BilledInTime
<1>1. IInv => BilledInTime
  BY DEF IInv
<1>2. QED
  BY Invariant, <1>1, PTL

\* No usage key is billed twice: its row is one, and periods are disjoint.
LEMMA InvariantBilledOnce == IInv => BilledOnce
<1> SUFFICES ASSUME IInv, NEW c \in Closes, NEW d \in Closes, NEW u \in Usages, NEW v \in Usages,
                    invoices[c] # NoRow, u \in invoices[c].billed,
                    invoices[d] # NoRow, v \in invoices[d].billed,
                    OrgOf[u] = OrgOf[v], KeyOf[u] = KeyOf[v]
             PROVE  c = d /\ u = v
  BY DEF BilledOnce
<1>1. /\ u \in recorded /\ OrgOf[u] = OrgOf[c]
      /\ invoices[c].start <= at[u] /\ at[u] < invoices[c].end
  BY DEF IInv, InvoiceOfClose, SumsPeriod
<1>2. /\ v \in recorded /\ OrgOf[v] = OrgOf[d]
      /\ invoices[d].start <= at[v] /\ at[v] < invoices[d].end
  BY DEF IInv, InvoiceOfClose, SumsPeriod
<1>3. u = v
  BY <1>1, <1>2 DEF IInv, KeysRecordedOnce
<1>4. invoices[c] \in Invoice /\ invoices[d] \in Invoice /\ at[u] \in Nat
  BY DEF IInv, TypeOK
<1>5. c = d
  <2>1. /\ invoices[c].start \in Nat /\ invoices[c].end \in Nat
        /\ invoices[d].start \in Nat /\ invoices[d].end \in Nat
    BY <1>4 DEF Invoice
  <2>2. OrgOf[c] = OrgOf[d]
    BY <1>1, <1>2
  <2>3. c # d => invoices[c].end <= invoices[d].start \/ invoices[d].end <= invoices[c].start
    BY <2>2 DEF IInv, Disjoint
  <2>4. QED
    BY <1>1, <1>2, <1>3, <1>4, <2>1, <2>3
<1>6. QED
  BY <1>3, <1>5

\* No usage key is billed twice, for any number of overlapping closes
\* (uq_usage_org_idem, uq_invoice_org_period).
THEOREM BilledOnceHolds == Spec => []BilledOnce
BY Invariant, InvariantBilledOnce, PTL

\* A commit that is covered and whose key is new posts to the abstract ledger.
LEMMA PostImplements ==
    ASSUME TypeOK, NEW r \in Requests, NEW k, NEW delta \in Int, ~Posted(k),
           balance[OrgOf[r]] + delta >= 0, Post(r, k, delta)
    PROVE  L!Next
<1> DEFINE e == [org |-> OrgOf[r], key |-> k, delta |-> delta]
<1>1. e.org = OrgOf[r] /\ e.key = k /\ e.delta = delta /\ e.org \in Orgs
  BY Kinds
<1>2. ledger' = ledger \cup {e} /\ balance' = [balance EXCEPT ![OrgOf[r]] = @ + delta]
  BY DEF Post
<1> HIDE DEF e
<1>3. \A f \in ledger : f.key # e.key
  BY <1>1 DEF Posted
<1>4. e \in ledger' \ ledger
  BY <1>2, <1>3
<1>5. L!Post(e)
  BY <1>1, <1>2, <1>3 DEF L!Post
<1>6. QED
  BY <1>4, <1>5 DEF L!Next

\* Every step posts to the ledger or leaves it alone.
LEMMA StepImplements == IInv /\ [Next]_vars => [L!Next]_<<balance, ledger>>
<1> SUFFICES ASSUME IInv, [Next]_vars PROVE L!Next \/ UNCHANGED <<balance, ledger>>
  OBVIOUS
<1> USE Kinds DEF walletVars
<1>1. ASSUME NEW t \in TopUps, CommitTopUp(t) PROVE L!Next
  <2>1. AmountOf[t] \in Int /\ balance[OrgOf[t]] + AmountOf[t] >= 0
    BY AmountsAssumption DEF IInv, TypeOK
  <2>2. ~Posted(KeyOf[t])
    BY <1>1 DEF CommitTopUp, IInv, CreditKeys
  <2>3. QED
    BY <1>1, <2>1, <2>2, PostImplements DEF CommitTopUp, IInv
<1>2. ASSUME NEW c \in Closes, CommitCharge(c), ~Posted(invoice[c]) PROVE L!Next
  <2>1. Total(c) \in Nat /\ TypeOK
    BY <1>2, TotalType DEF IInv, CommitCharge, Charging
  <2>2. balance[OrgOf[c]] >= Total(c) /\ balance[OrgOf[c]] \in Nat
    BY <1>2 DEF CommitCharge, IInv, ChargeTarget, TypeOK
  <2>3. -Total(c) \in Int /\ balance[OrgOf[c]] + (-Total(c)) >= 0
    BY <2>1, <2>2
  <2>4. QED
    BY <1>2, <2>1, <2>3, PostImplements DEF CommitCharge
<1>3. ASSUME NEW c \in Closes, CommitCharge(c), Posted(invoice[c])
      PROVE  UNCHANGED <<balance, ledger>>
  BY <1>3 DEF CommitCharge
<1>4. ASSUME NEW u \in Usages, UsageStep(u) PROVE UNCHANGED <<balance, ledger>>
  BY <1>4 DEF UsageStep, BeginUsage, InsertUsage
<1>5. ASSUME NEW t \in TopUps, TopUpStep(t), ~CommitTopUp(t) PROVE UNCHANGED <<balance, ledger>>
  BY <1>5 DEF TopUpStep, FindWallet, CreateWallet, InsertCredit, UpdateBalance
<1>6. ASSUME NEW c \in Closes, CloseStep(c), ~CommitCharge(c) PROVE UNCHANGED <<balance, ledger>>
  BY <1>6 DEF CloseStep, ReadStart, ReadClock, SumUsage, InsertInvoice, LoadInvoice, SettleFree,
              Debit, MarkUncollectible
<1>7. ASSUME NEW r \in Requests, Die(r) PROVE UNCHANGED <<balance, ledger>>
  BY <1>7 DEF Die
<1>8. UNCHANGED vars => UNCHANGED <<balance, ledger>>
  BY DEF vars
<1>9. QED
  BY <1>1, <1>2, <1>3, <1>4, <1>5, <1>6, <1>7, <1>8 DEF Next

\* Wallets and their transactions are a ledger (top_up, charge_invoice).
THEOREM LedgerImplemented == Spec => ImplementsLedger
<1>1. Init => L!Init
  BY DEF Init, L!Init
<1>2. QED
  BY Invariant, StepImplements, <1>1, PTL DEF Spec, ImplementsLedger, L!Spec

\* The billing periods of an organization are a partition of the time it has
\* been invoiced for: no two overlap, and each begins at the epoch or where an
\* earlier one ends (_period_start and uq_invoice_org_period).
THEOREM PeriodsPartition == Spec => [](Disjoint /\ Chain /\ LastJoint)
<1>1. IInv => Disjoint /\ Chain /\ LastJoint
  BY DEF IInv
<1>2. QED
  BY Invariant, <1>1, PTL

-----------------------------------------------------------------------------
(* Transactions that wait.                                                  *)

\* A usage request touches no wallet and is at no step of a top-up.
LEMMA UsageWaits ==
    ASSUME WaitInv, NEW u \in Usages, UsageStep(u)
    PROVE  WalletFound' /\ EarlyLockIsNew'
<1>1. UNCHANGED walletVars /\ \A r \in Requests : r # u => pc'[r] = pc[r]
  BY Kinds DEF UsageStep, BeginUsage, InsertUsage, Goto, WaitInv, IInv, TypeOK
<1>2. pc'[u] \in {"recording", "done"}
  BY Kinds DEF UsageStep, BeginUsage, InsertUsage, Goto, WaitInv, IInv, TypeOK
<1>3. QED
  BY Kinds, <1>1, <1>2 DEF WaitInv, WalletFound, EarlyLockIsNew, walletVars

\* A close takes the lock of a wallet that is committed, or releases its own.
LEMMA CloseWaits ==
    ASSUME WaitInv, NEW c \in Closes, CloseStep(c)
    PROVE  WalletFound' /\ EarlyLockIsNew'
<1> USE DEF WaitInv, IInv, TypeOK
<1>1. /\ wallet' = wallet
      /\ \A r \in Requests : r # c => pc'[r] = pc[r]
      /\ pc'[c] \notin {"crediting", "updating", "committing"}
  BY Kinds DEF CloseStep, ReadStart, ReadClock, SumUsage, InsertInvoice, LoadInvoice,
     SettleFree, Debit, MarkUncollectible, CommitCharge, Goto, walletVars
<1>2. \/ UNCHANGED lock
      \/ OrgOf[c] \in wallet /\ lock[OrgOf[c]] \in {Nobody, c} /\ Take(c)
      \/ Release(c)
  BY DEF CloseStep, ReadStart, ReadClock, SumUsage, InsertInvoice, LoadInvoice, SettleFree,
     Debit, MarkUncollectible, CommitCharge, Post, Covered, Unlocked, walletVars
<1>3. WalletFound'
  BY Kinds, <1>1, <1>2 DEF WalletFound, Take, Release
<1>4. EarlyLockIsNew'
  BY Kinds, <1>1, <1>2 DEF EarlyLockIsNew, Take, Release
<1>5. QED
  BY <1>3, <1>4

\* A top-up goes on only with a wallet, and makes one only where there is none.
LEMMA TopUpWaits ==
    ASSUME WaitInv, NEW t \in TopUps, TopUpStep(t)
    PROVE  WalletFound' /\ EarlyLockIsNew'
<1> USE Kinds DEF WaitInv, IInv, TypeOK
<1>0. \A r \in Requests : r # t => pc'[r] = pc[r]
  BY DEF TopUpStep, FindWallet, CreateWallet, InsertCredit, UpdateBalance, CommitTopUp, Goto
<1>1. CASE FindWallet(t)
  <2>1. UNCHANGED <<wallet, lock>> /\ pc[t] = "idle"
        /\ pc'[t] \in {"crediting", "creating"}
        /\ (pc'[t] = "crediting" => OrgOf[t] \in wallet)
    BY <1>1 DEF FindWallet, Goto, walletVars
  <2>2. lock[OrgOf[t]] # t
    BY <2>1 DEF LockHeld
  <2>3. QED
    BY <1>0, <2>1, <2>2 DEF WalletFound, EarlyLockIsNew
<1>2. CASE CreateWallet(t)
  <2>1. UNCHANGED wallet /\ pc[t] = "creating" /\ pc'[t] = "crediting"
    BY <1>2 DEF CreateWallet, Goto
  <2>2. lock[OrgOf[t]] # t
    BY <2>1 DEF LockHeld
  <2>3. CASE OrgOf[t] \in wallet /\ UNCHANGED lock
    BY <1>0, <2>1, <2>2, <2>3 DEF WalletFound, EarlyLockIsNew
  <2>4. CASE OrgOf[t] \notin wallet /\ Unlocked(t) /\ Take(t)
    BY <1>0, <2>1, <2>4 DEF WalletFound, EarlyLockIsNew, Unlocked, Take
  <2>5. QED
    BY <1>2, <2>3, <2>4 DEF CreateWallet
<1>3. CASE InsertCredit(t)
  <2>1. UNCHANGED wallet /\ pc[t] = "crediting"
        /\ \/ pc'[t] = "done" /\ Release(t)
           \/ pc'[t] = "updating" /\ UNCHANGED lock
    BY <1>3 DEF InsertCredit, Goto
  <2>2. QED
    BY <1>0, <2>1 DEF WalletFound, EarlyLockIsNew, Release
<1>4. CASE UpdateBalance(t)
  <2>1. UNCHANGED wallet /\ pc[t] = "updating" /\ pc'[t] = "committing"
        /\ lock[OrgOf[t]] \in {Nobody, t} /\ Take(t)
    BY <1>4 DEF UpdateBalance, Goto, Unlocked
  <2>2. QED
    BY <1>0, <2>1 DEF WalletFound, EarlyLockIsNew, Take
<1>5. CASE CommitTopUp(t)
  <2>1. wallet' = wallet \cup {OrgOf[t]} /\ pc[t] = "committing" /\ pc'[t] = "done"
        /\ Release(t)
    BY <1>5 DEF CommitTopUp, Post, Goto
  <2>2. lock[OrgOf[t]] = t
    BY <2>1 DEF WriterHoldsLock
  <2>3. QED
    BY <1>0, <2>1, <2>2 DEF WalletFound, EarlyLockIsNew, Release
<1>6. QED
  BY <1>1, <1>2, <1>3, <1>4, <1>5 DEF TopUpStep

\* A death releases a row and founds no wallet.
LEMMA DieWaits ==
    ASSUME WaitInv, NEW r \in Requests, Die(r)
    PROVE  WalletFound' /\ EarlyLockIsNew'
<1>1. UNCHANGED wallet /\ Release(r) /\ pc'[r] = "done"
      /\ \A q \in Requests : q # r => pc'[q] = pc[q]
  BY DEF Die, Goto, WaitInv, IInv, TypeOK
<1>2. QED
  BY Kinds, <1>1 DEF WaitInv, WalletFound, EarlyLockIsNew, Release

\* What keeps the waits from closing a ring is kept by every step.
LEMMA WaitStep == WaitInv /\ [Next]_vars => WaitInv'
<1> SUFFICES ASSUME WaitInv, [Next]_vars PROVE WaitInv'
  OBVIOUS
<1>1. IInv'
  BY InvariantStep DEF WaitInv
<1>2. WalletFound' /\ EarlyLockIsNew'
  <2>1. CASE UNCHANGED vars
    BY <2>1 DEF vars, walletVars, WaitInv, WalletFound, EarlyLockIsNew
  <2>2. CASE Next
    BY <2>2, UsageWaits, TopUpWaits, CloseWaits, DieWaits DEF Next
  <2>3. QED
    BY <2>1, <2>2
<1>3. QED
  BY <1>1, <1>2 DEF WaitInv

\* Who holds a wallet row and waits is inserting a key, and its wallet is new.
LEMMA HolderWaits ==
    ASSUME WaitInv, NEW q \in Requests, NEW r \in Requests, HoldsWallet(q, r),
           NEW p \in Requests, Blocks(p, q)
    PROVE  HoldsKey(p, q) /\ OrgOf[q] = OrgOf[r] /\ OrgOf[r] \notin wallet
<1>1. lock[OrgOf[r]] = q /\ q # Nobody
  BY Kinds DEF HoldsWallet
<1>2. OrgOf[q] = OrgOf[r] /\ pc[q] \in {"crediting", "updating", "committing", "charging"}
  BY Kinds, <1>1 DEF WaitInv, IInv, LockHeld
<1>3. ~ HoldsWallet(p, q)
  BY <1>1, <1>2 DEF HoldsWallet
<1>4. HoldsKey(p, q)
  BY <1>3 DEF Blocks
<1>5. OrgOf[q] \notin wallet
  BY <1>1, <1>2, <1>4 DEF HoldsKey, WaitInv, EarlyLockIsNew
<1>6. QED
  BY <1>2, <1>4, <1>5

\* Who holds a pending key waits, if at all, for the row of a committed wallet.
LEMMA KeyHolderWaits ==
    ASSUME WaitInv, NEW q \in Requests, NEW r \in Requests, HoldsKey(q, r),
           NEW p \in Requests, Blocks(p, q)
    PROVE  HoldsWallet(p, q) /\ OrgOf[q] \in wallet
<1>1. q \in TopUps /\ pc[q] \in {"updating", "committing"}
  BY DEF HoldsKey
<1>2. HoldsWallet(p, q)
  BY <1>1 DEF Blocks, HoldsKey
<1>3. OrgOf[q] \in wallet
  BY <1>1, <1>2 DEF HoldsWallet, WaitInv, WalletFound
<1>4. QED
  BY <1>2, <1>3

\* A wait is over after three others at most: for a row, for the key its holder
\* inserts, and for the committed row that key's holder updates.
LEMMA WaitsAreShort == WaitInv => NoCircularWait
<1> SUFFICES ASSUME WaitInv, NEW S \in SUBSET Requests, NEW a \in S,
                    \A r \in S : \E q \in S : Blocks(q, r)
             PROVE  FALSE
  BY DEF NoCircularWait
<1>1. \A r, q, p \in Requests : HoldsWallet(q, r) /\ Blocks(p, q) =>
          HoldsKey(p, q) /\ OrgOf[r] \notin wallet
  BY HolderWaits
<1>2. \A r, q, p \in Requests : HoldsKey(q, r) /\ Blocks(p, q) =>
          HoldsWallet(p, q) /\ OrgOf[q] \in wallet
  BY KeyHolderWaits
<1>3. PICK r \in S, q \in S : HoldsKey(q, r)
  <2>1. PICK b \in S : Blocks(b, a)
    OBVIOUS
  <2>2. PICK d \in S : Blocks(d, b)
    OBVIOUS
  <2>3. HoldsWallet(b, a) => HoldsKey(d, b)
    BY <1>1, <2>2
  <2>4. QED
    BY <2>1, <2>2, <2>3 DEF Blocks
<1>4. PICK p \in S : Blocks(p, q)
  OBVIOUS
<1>5. HoldsWallet(p, q) /\ OrgOf[q] \in wallet
  BY <1>2, <1>3, <1>4
<1>6. PICK o \in S : Blocks(o, p)
  OBVIOUS
<1>7. QED
  BY <1>1, <1>5, <1>6

\* The transactions of top-ups and charges never wait for each other in a ring,
\* however many there are, of however many organizations (top_up,
\* charge_invoice): PostgreSQL has no deadlock to resolve.
THEOREM NoDeadlock == Spec => []NoCircularWait
<1>1. Init => WaitInv
  BY InvariantInit, Kinds DEF Init, WaitInv, WalletFound, EarlyLockIsNew
<1>2. QED
  BY <1>1, WaitStep, WaitsAreShort, PTL DEF Spec

-----------------------------------------------------------------------------
(* Charges of one close.                                                    *)

\* As long as a row keeps its status, its total and its debit, and its close
\* goes no way back, what is said of it stays true.
LEMMA LoneFrame ==
    ASSUME LoneInv, NEW c \in Closes, invoices[c] # NoRow, Lone(c) \/ ~ Lone(c)',
           invoices'[c] = invoices[c], Posted(c)' <=> Posted(c),
           pc[c] = "done" => pc'[c] = "done"
    PROVE  invoices'[c] # NoRow /\ Lone(c)' /\ invoices'[c].status # "open" =>
             /\ pc'[c] = "done"
             /\ invoices'[c].status = "paid" <=> Posted(c)' \/ invoices'[c].total = 0
BY DEF LoneInv, LoneReadsRight

\* What a lone close has still to charge is open, and not debited.
LEMMA LoneIsOpen ==
    ASSUME IInv, LoneInv, NEW c \in Closes, invoices[c] # NoRow, Lone(c), pc[c] # "done"
    PROVE  invoices[c].status = "open" /\ ~ Posted(c)
<1>1. invoices[c].status = "open"
  BY DEF LoneInv
<1>2. QED
  BY <1>1 DEF IInv, DebitsMatchInvoices, Posted

\* Requests that touch no invoice and debit none keep it.
LEMMA LoneElsewhere ==
    ASSUME IInv, LoneInv, UNCHANGED <<invoices, invoice>>,
           \A c \in Closes : Posted(c)' <=> Posted(c),
           \A c \in Closes : pc[c] = "done" => pc'[c] = "done",
           \A c \in Closes :
             pc'[c] \in {"idle", "timing", "summing", "invoicing"} => invoice[c] = Nobody
    PROVE  LoneInv'
<1>1. \A c \in Closes : Lone(c)' <=> Lone(c)
  BY DEF Lone
<1>2. ASSUME NEW c \in Closes
      PROVE  invoices'[c] # NoRow /\ Lone(c)' /\ invoices'[c].status # "open" =>
               /\ pc'[c] = "done"
               /\ invoices'[c].status = "paid" <=> Posted(c)' \/ invoices'[c].total = 0
  BY <1>1, LoneFrame
<1>3. \A c \in Closes :
        pc'[c] \in {"idle", "timing", "summing", "invoicing"} => invoice'[c] = Nobody
  OBVIOUS
<1>4. QED
  BY <1>2, <1>3 DEF LoneInv, LoneReadsRight

\* Nor do requests that move no close.
LEMMA LoneUnmoved ==
    ASSUME IInv, LoneInv, UNCHANGED <<invoices, invoice>>,
           \A c \in Closes : Posted(c)' <=> Posted(c),
           \A c \in Closes : pc'[c] = pc[c]
    PROVE  LoneInv'
<1>1. \A c \in Closes : pc[c] = "done" => pc'[c] = "done"
  OBVIOUS
<1>2. \A c \in Closes :
        pc'[c] \in {"idle", "timing", "summing", "invoicing"} => invoice[c] = Nobody
  BY DEF LoneInv
<1>3. QED
  BY <1>1, <1>2, LoneElsewhere

\* A charge that settles its invoice: if no other close has taken it up, the
\* status says what was done.
LEMMA LoneSettles ==
    ASSUME IInv, LoneInv, NEW c \in Closes, pc[c] \in Charging, Goto(c, "done"),
           NEW s \in {"paid", "uncollectible"}, SetStatus(c, s), UNCHANGED invoice,
           \A d \in Closes : d # invoice[c] => (Posted(d)' <=> Posted(d)),
           invoice[c] = c /\ ~ Posted(c) =>
             (s = "paid" <=> Posted(c)' \/ invoices[c].total = 0)
    PROVE  LoneInv'
<1> USE Kinds
<1>1. TypeOK /\ ChargeTarget
  BY DEF IInv
<1>2. /\ \A d \in Closes : d # invoice[c] => invoices'[d] = invoices[d]
      /\ invoice[c] \in Closes /\ invoices[invoice[c]] # NoRow
  <2>1. invoice[c] \in Closes /\ invoices[invoice[c]] # NoRow
    BY <1>1 DEF ChargeTarget
  <2>2. \A d \in Closes : d # invoice[c] => invoices'[d] = invoices[d]
    BY <1>1, <2>1 DEF SetStatus, TypeOK
  <2>3. QED
    BY <2>1, <2>2
<1>3. SameRows /\ invoices'[invoice[c]].status = s
  BY <1>1, StatusKeepsRows
<1>4. pc'[c] = "done" /\ \A d \in Closes : d # c => pc'[d] = pc[d]
  BY <1>1 DEF Goto, TypeOK
<1>5. \A d \in Closes : Lone(d)' <=> Lone(d)
  BY DEF Lone
<1>6. ASSUME NEW d \in Closes
      PROVE  invoices'[d] # NoRow /\ Lone(d)' /\ invoices'[d].status # "open" =>
               /\ pc'[d] = "done"
               /\ invoices'[d].status = "paid" <=> Posted(d)' \/ invoices'[d].total = 0
  <2>1. CASE d # invoice[c]
    <3>1. invoices'[d] = invoices[d] /\ (Posted(d)' <=> Posted(d)) /\ (pc[d] = "done" => pc'[d] = "done")
      BY <1>2, <1>4, <2>1
    <3>2. QED
      BY <1>5, <3>1, LoneFrame
  <2>2. CASE d = invoice[c] /\ Lone(d)
    <3>1. d = c
      BY <2>2 DEF Lone
    <3>2. ~ Posted(c)
      BY <1>2, <2>2, <3>1, LoneIsOpen DEF Charging
    <3>3. invoices'[c].total = invoices[c].total
      BY <1>2, <1>3, <2>2, <3>1 DEF SameRows
    <3>4. QED
      BY <1>3, <1>4, <2>2, <3>1, <3>2, <3>3
  <2>3. QED
    BY <1>5, <2>1, <2>2
<1>7. \A d \in Closes :
        pc'[d] \in {"idle", "timing", "summing", "invoicing"} => invoice'[d] = Nobody
  BY <1>4 DEF LoneInv
<1>8. QED
  BY <1>6, <1>7 DEF LoneInv, LoneReadsRight

\* A close that inserts its invoice has it open, and one that finds another's
\* takes it from being lone (invoice_period).
LEMMA LoneInserts ==
    ASSUME IInv, LoneInv, NEW c \in Closes, InsertInvoice(c)
    PROVE  LoneInv'
<1> USE Kinds DEF walletVars
<1>1. /\ pc[c] = "invoicing" /\ Goto(c, "loading") /\ UNCHANGED ledger
      /\ \/ /\ invoices' = [invoices EXCEPT ![c] = NewRow(c)]
            /\ invoice' = [invoice EXCEPT ![c] = c]
         \/ \E d \in SamePeriod(c) : invoice' = [invoice EXCEPT ![c] = d] /\ invoices' = invoices
  BY DEF InsertInvoice, NewRow
<1>2. invoice[c] = Nobody /\ invoices[c] = NoRow
  BY <1>1 DEF LoneInv, IInv, InvoiceOfClose, Charging
<1>3. pc'[c] = "loading" /\ \A d \in Closes : d # c => pc'[d] = pc[d]
  BY <1>1 DEF Goto, IInv, TypeOK
<1>4. \A d \in Closes : d # c => invoices'[d] = invoices[d] /\ invoice'[d] = invoice[d]
  BY <1>1 DEF IInv, TypeOK
<1>5. invoices'[c] # NoRow => invoices'[c].status = "open"
  BY <1>1, <1>2 DEF NewRow, IInv, TypeOK
<1>6. \A d \in Closes : Posted(d)' <=> Posted(d)
  BY <1>1 DEF Posted
<1>7. \A d \in Closes : d # c /\ Lone(d)' => Lone(d)
  BY <1>2, <1>4 DEF Lone
<1>8. ASSUME NEW d \in Closes
      PROVE  invoices'[d] # NoRow /\ Lone(d)' /\ invoices'[d].status # "open" =>
               /\ pc'[d] = "done"
               /\ invoices'[d].status = "paid" <=> Posted(d)' \/ invoices'[d].total = 0
  <2>1. CASE d = c
    BY <1>5, <2>1
  <2>2. CASE d # c
    BY <1>3, <1>4, <1>6, <1>7, <2>2 DEF LoneInv, LoneReadsRight
  <2>3. QED
    BY <2>1, <2>2
<1>9. \A d \in Closes :
        pc'[d] \in {"idle", "timing", "summing", "invoicing"} => invoice'[d] = Nobody
  BY <1>3, <1>4 DEF LoneInv
<1>10. QED
  BY <1>8, <1>9 DEF LoneInv, LoneReadsRight

\* A close, step by step (invoice_period, charge_invoice).
LEMMA LoneClose ==
    ASSUME IInv, LoneInv, NEW c \in Closes, CloseStep(c)
    PROVE  LoneInv'
<1> USE Kinds DEF walletVars, closeVars
<1>1. ASSUME NEW s, Goto(c, s), pc[c] # "done",
             \/ s \in {"timing", "summing", "invoicing"} /\ invoice[c] = Nobody
             \/ s \notin {"idle", "timing", "summing", "invoicing"},
             UNCHANGED <<invoices, invoice, ledger>>
      PROVE  LoneInv'
  <2>1. pc'[c] = s /\ \A d \in Closes : d # c => pc'[d] = pc[d]
    BY <1>1 DEF Goto, IInv, TypeOK
  <2>2. \A d \in Closes : Posted(d)' <=> Posted(d)
    BY <1>1 DEF Posted
  <2>3. \A d \in Closes : pc[d] = "done" => pc'[d] = "done"
    BY <1>1, <2>1
  <2>4. \A d \in Closes :
          pc'[d] \in {"idle", "timing", "summing", "invoicing"} => invoice[d] = Nobody
    BY <1>1, <2>1 DEF LoneInv
  <2>5. QED
    BY <1>1, <2>2, <2>3, <2>4, LoneElsewhere
<1>2. CASE ReadStart(c) \/ ReadClock(c) \/ SumUsage(c)
  <2>1. invoice[c] = Nobody
    BY <1>2 DEF ReadStart, ReadClock, SumUsage, LoneInv
  <2>2. QED
    BY <1>1, <1>2, <2>1 DEF ReadStart, ReadClock, SumUsage
<1>3. CASE InsertInvoice(c)
  BY <1>3, LoneInserts
<1>4. CASE LoadInvoice(c)
  BY <1>1, <1>4 DEF LoadInvoice
<1>5. CASE Debit(c)
  BY <1>1, <1>5 DEF Debit
<1>6. CASE SettleFree(c)
  <2>1. Total(c) = 0 /\ pc[c] \in Charging
    BY <1>6 DEF SettleFree, IInv, ChargeTarget, Charging
  <2>2. \A d \in Closes : Posted(d)' <=> Posted(d)
    BY <1>6 DEF SettleFree, Posted
  <2>3. QED
    BY <1>6, <2>1, <2>2, LoneSettles DEF SettleFree, Total
<1>7. CASE MarkUncollectible(c)
  <2>1. Total(c) > 0 /\ Total(c) \in Nat /\ pc[c] \in Charging
    BY <1>7, TotalType DEF MarkUncollectible, IInv, ChargeTarget, Charging
  <2>2. \A d \in Closes : Posted(d)' <=> Posted(d)
    BY <1>7 DEF MarkUncollectible, Posted
  <2>3. Total(c) # 0
    BY <2>1
  <2>4. QED
    BY <1>7, <2>1, <2>2, <2>3, LoneSettles DEF MarkUncollectible, Total
<1>8. CASE CommitCharge(c) /\ Posted(invoice[c])
  BY <1>1, <1>8 DEF CommitCharge
<1>9. CASE CommitCharge(c) /\ ~ Posted(invoice[c])
  <2>1. /\ pc[c] \in Charging /\ Goto(c, "done") /\ SetStatus(c, "paid") /\ UNCHANGED invoice
        /\ ledger' = ledger \cup {[org |-> OrgOf[c], key |-> invoice[c], delta |-> -Total(c)]}
    BY <1>9 DEF CommitCharge, Post, Charging
  <2>2. \A d \in Closes : d # invoice[c] => (Posted(d)' <=> Posted(d))
    BY <2>1 DEF Posted
  <2>3. ASSUME invoice[c] = c PROVE Posted(c)'
    <3>1. [org |-> OrgOf[c], key |-> invoice[c], delta |-> -Total(c)] \in ledger'
      BY <2>1
    <3>2. [org |-> OrgOf[c], key |-> invoice[c], delta |-> -Total(c)].key = c
      BY <2>3
    <3>3. QED
      BY <3>1, <3>2 DEF Posted
  <2>4. QED
    BY <2>1, <2>2, <2>3, LoneSettles
<1>10. QED
  BY <1>2, <1>3, <1>4, <1>5, <1>6, <1>7, <1>8, <1>9 DEF CloseStep

\* Every step keeps it: a top-up posts no invoice's key, and a death settles
\* nothing.
LEMMA LoneStep == IInv /\ LoneInv /\ [Next]_vars => LoneInv'
<1> SUFFICES ASSUME IInv, LoneInv, [Next]_vars PROVE LoneInv'
  OBVIOUS
<1> USE Kinds DEF walletVars, closeVars
<1>1. ASSUME NEW u \in Usages, UsageStep(u) PROVE LoneInv'
  <2>1. UNCHANGED <<invoices, invoice, ledger>> /\ \A c \in Closes : pc'[c] = pc[c]
    BY <1>1 DEF UsageStep, BeginUsage, InsertUsage, Goto, IInv, TypeOK
  <2>2. QED
    BY <2>1, LoneUnmoved DEF Posted
<1>2. ASSUME NEW t \in TopUps, TopUpStep(t) PROVE LoneInv'
  <2>1. UNCHANGED <<invoices, invoice>> /\ \A c \in Closes : pc'[c] = pc[c]
    BY <1>2 DEF TopUpStep, FindWallet, CreateWallet, InsertCredit, UpdateBalance, CommitTopUp,
                Goto, IInv, TypeOK
  <2>2. \/ UNCHANGED ledger
        \/ ledger' = ledger \cup {[org |-> OrgOf[t], key |-> KeyOf[t], delta |-> AmountOf[t]]}
    BY <1>2 DEF TopUpStep, FindWallet, CreateWallet, InsertCredit, UpdateBalance, CommitTopUp, Post
  <2>3. KeyOf[t] \notin Closes
    BY KeysAssumption
  <2>4. \A c \in Closes : Posted(c)' <=> Posted(c)
    BY <2>2, <2>3 DEF Posted
  <2>5. QED
    BY <2>1, <2>4, LoneUnmoved
<1>3. ASSUME NEW c \in Closes, CloseStep(c) PROVE LoneInv'
  BY <1>3, LoneClose
<1>4. ASSUME NEW r \in Requests, Die(r) PROVE LoneInv'
  <2>1. /\ UNCHANGED <<invoices, invoice, ledger>> /\ pc[r] # "done" /\ pc'[r] = "done"
        /\ \A c \in Closes : c # r => pc'[c] = pc[c]
    BY <1>4 DEF Die, Goto, IInv, TypeOK
  <2>2. \A c \in Closes : Posted(c)' <=> Posted(c)
    BY <2>1 DEF Posted
  <2>3. \A c \in Closes : pc[c] = "done" => pc'[c] = "done"
    BY <2>1
  <2>4. \A c \in Closes :
          pc'[c] \in {"idle", "timing", "summing", "invoicing"} => invoice[c] = Nobody
    BY <2>1 DEF LoneInv
  <2>5. QED
    BY <2>1, <2>2, <2>3, <2>4, LoneElsewhere
<1>5. CASE UNCHANGED vars
  BY <1>5, LoneUnmoved DEF vars, Posted
<1>6. QED
  BY <1>1, <1>2, <1>3, <1>4, <1>5 DEF Next

\* An invoice that only its own close charges reads paid exactly if it was
\* debited or is free (charge_invoice, invoice_period).
THEOREM LoneReadsRightHolds == Spec => []LoneReadsRight
<1>1. Init => LoneInv
  BY DEF Init, LoneInv, LoneReadsRight
<1>2. LoneInv => LoneReadsRight
  BY DEF LoneInv
<1>3. QED
  BY <1>1, <1>2, LoneStep, Invariant, PTL DEF Spec

-----------------------------------------------------------------------------
(* Credits of one key.                                                      *)

\* What a call without the key has found posted is its own credit, if no other
\* organization uses its key.
LEMMA OwnCredit ==
    ASSUME NEW t \in TopUps, OwnKey(t), Posted(KeyOf[t]),
           \A e \in ledger : e.key \notin Closes =>
             \E s \in TopUps : /\ pc[s] = "done" /\ s \notin died
                              /\ e = [org |-> OrgOf[s], key |-> KeyOf[s], delta |-> AmountOf[s]]
    PROVE  \E e \in ledger : e.org = OrgOf[t] /\ e.key = KeyOf[t]
<1>1. PICK e \in ledger : e.key = KeyOf[t]
  BY DEF Posted
<1>2. PICK s \in TopUps : e = [org |-> OrgOf[s], key |-> KeyOf[s], delta |-> AmountOf[s]]
  BY <1>1, Kinds
<1>3. KeyOf[s] = KeyOf[t] /\ e.org = OrgOf[s]
  BY <1>1, <1>2
<1>4. QED
  BY <1>1, <1>3 DEF OwnKey

\* Calls that end without a credit, and the entries of charges, keep it.
LEMMA CreditFrame ==
    ASSUME CreditInv, ledger \subseteq ledger', \A e \in ledger' \ ledger : e.key \in Closes,
           \A t \in TopUps : pc[t] = "done" => pc'[t] = "done",
           died \subseteq died',
           \A t \in TopUps : t \in died' \ died => pc[t] # "done" /\ pc'[t] = "done",
           \A t \in TopUps : pc'[t] = "done" /\ pc[t] # "done" =>
                              t \in died' \/ Posted(KeyOf[t])
    PROVE  CreditInv'
<1>1. \A e \in ledger' : e.key \notin Closes =>
        \E t \in TopUps : /\ pc'[t] = "done" /\ t \notin died'
                         /\ e = [org |-> OrgOf[t], key |-> KeyOf[t], delta |-> AmountOf[t]]
  BY DEF CreditInv, OwnKeysApply
<1>2. ASSUME NEW t \in TopUps, pc'[t] = "done", t \notin died' PROVE Posted(KeyOf[t])'
  <2>1. Posted(KeyOf[t])
    BY <1>2 DEF CreditInv
  <2>2. QED
    BY <2>1 DEF Posted
<1>3. ASSUME NEW t \in TopUps, pc'[t] = "done", t \notin died', OwnKey(t)
      PROVE  \E e \in ledger' : e.org = OrgOf[t] /\ e.key = KeyOf[t]
  <2>1. Posted(KeyOf[t])
    BY <1>3 DEF CreditInv
  <2>2. \E e \in ledger : e.org = OrgOf[t] /\ e.key = KeyOf[t]
    BY <1>3, <2>1, OwnCredit DEF CreditInv, OwnKeysApply
  <2>3. QED
    BY <2>2
<1>4. \A t \in TopUps \cap died' : pc'[t] = "done"
  BY DEF CreditInv
<1>5. QED
  BY <1>1, <1>2, <1>3, <1>4 DEF CreditInv, OwnKeysApply, OwnKey

\* The commit of a top-up posts its own key, to its own wallet.
LEMMA CreditPosted ==
    ASSUME IInv, CreditInv, NEW t \in TopUps, CommitTopUp(t)
    PROVE  CreditInv'
<1> USE Kinds
<1> DEFINE mine == [org |-> OrgOf[t], key |-> KeyOf[t], delta |-> AmountOf[t]]
<1>1. /\ ledger' = ledger \cup {mine} /\ died' = died /\ pc[t] = "committing"
      /\ pc'[t] = "done" /\ \A s \in TopUps : s # t => pc'[s] = pc[s]
  BY DEF CommitTopUp, Post, Goto, IInv, TypeOK, historyVars
<1>2. t \notin died'
  BY <1>1 DEF CreditInv
<1>3. \A e \in ledger' : e.key \notin Closes =>
        \E s \in TopUps : /\ pc'[s] = "done" /\ s \notin died'
                         /\ e = [org |-> OrgOf[s], key |-> KeyOf[s], delta |-> AmountOf[s]]
  <2>1. \A e \in ledger : e.key \notin Closes =>
          \E s \in TopUps : /\ pc'[s] = "done" /\ s \notin died'
                           /\ e = [org |-> OrgOf[s], key |-> KeyOf[s], delta |-> AmountOf[s]]
    BY <1>1 DEF CreditInv, OwnKeysApply
  <2>2. QED
    BY <1>1, <1>2, <2>1
<1>4. mine.key = KeyOf[t] /\ mine.org = OrgOf[t] /\ mine \in ledger'
  BY <1>1
<1>5. ASSUME NEW s \in TopUps, pc'[s] = "done", s \notin died' PROVE Posted(KeyOf[s])'
  <2>1. CASE s = t
    BY <1>4, <2>1 DEF Posted
  <2>2. CASE s # t
    <3>1. Posted(KeyOf[s])
      BY <1>1, <1>5, <2>2 DEF CreditInv
    <3>2. QED
      BY <1>1, <3>1 DEF Posted
  <2>3. QED
    BY <2>1, <2>2
<1>6. ASSUME NEW s \in TopUps, pc'[s] = "done", s \notin died', OwnKey(s)
      PROVE  \E e \in ledger' : e.org = OrgOf[s] /\ e.key = KeyOf[s]
  <2>1. CASE s = t
    BY <1>4, <2>1
  <2>2. CASE s # t
    <3>1. \E e \in ledger : e.org = OrgOf[s] /\ e.key = KeyOf[s]
      BY <1>1, <1>6, <2>2 DEF CreditInv, OwnKeysApply
    <3>2. QED
      BY <1>1, <3>1
  <2>3. QED
    BY <2>1, <2>2
<1>7. \A s \in TopUps \cap died' : pc'[s] = "done"
  BY <1>1 DEF CreditInv
<1>8. QED
  BY <1>3, <1>5, <1>6, <1>7 DEF CreditInv, OwnKeysApply, OwnKey

\* Every step keeps it.
LEMMA CreditStep == IInv /\ CreditInv /\ [Next]_vars => CreditInv'
<1> SUFFICES ASSUME IInv, CreditInv, [Next]_vars PROVE CreditInv'
  OBVIOUS
<1> USE Kinds DEF usageVars, walletVars, closeVars, historyVars
<1>1. ASSUME NEW u \in Usages, UsageStep(u) PROVE CreditInv'
  <2>1. UNCHANGED <<ledger, died>> /\ \A t \in TopUps : pc'[t] = pc[t]
    BY <1>1 DEF UsageStep, BeginUsage, InsertUsage, Goto, IInv, TypeOK
  <2>2. QED
    BY <2>1, CreditFrame
<1>2. ASSUME NEW t \in TopUps, TopUpStep(t) PROVE CreditInv'
  <2>1. CASE FindWallet(t) \/ CreateWallet(t) \/ UpdateBalance(t)
    <3>1. /\ UNCHANGED <<ledger, died>> /\ pc[t] # "done" /\ pc'[t] # "done"
          /\ \A s \in TopUps : s # t => pc'[s] = pc[s]
      BY <2>1 DEF FindWallet, CreateWallet, UpdateBalance, Goto, IInv, TypeOK
    <3>2. QED
      BY <3>1, CreditFrame
  <2>2. CASE InsertCredit(t)
    <3>1. /\ UNCHANGED <<ledger, died>> /\ pc[t] # "done" /\ (pc'[t] = "done" => Posted(KeyOf[t]))
          /\ \A s \in TopUps : s # t => pc'[s] = pc[s]
      BY <2>2 DEF InsertCredit, Goto, IInv, TypeOK
    <3>2. QED
      BY <3>1, CreditFrame
  <2>3. CASE CommitTopUp(t)
    BY <2>3, CreditPosted
  <2>4. QED
    BY <1>2, <2>1, <2>2, <2>3 DEF TopUpStep
<1>3. ASSUME NEW c \in Closes, CloseStep(c) PROVE CreditInv'
  <2>1. died' = died /\ \A t \in TopUps : pc'[t] = pc[t]
    BY <1>3 DEF CloseStep, ReadStart, ReadClock, SumUsage, InsertInvoice, LoadInvoice, SettleFree,
                Debit, MarkUncollectible, CommitCharge, Goto, IInv, TypeOK
  <2>2. \/ ledger' = ledger
        \/ /\ pc[c] = "charging"
           /\ ledger' = ledger \cup {[org |-> OrgOf[c], key |-> invoice[c], delta |-> -Total(c)]}
    BY <1>3 DEF CloseStep, ReadStart, ReadClock, SumUsage, InsertInvoice, LoadInvoice, SettleFree,
                Debit, MarkUncollectible, CommitCharge, Post
  <2>3. ledger \subseteq ledger' /\ \A e \in ledger' \ ledger : e.key \in Closes
    BY <2>2 DEF IInv, ChargeTarget, Charging
  <2>4. QED
    BY <2>1, <2>3, CreditFrame
<1>4. ASSUME NEW r \in Requests, Die(r) PROVE CreditInv'
  <2>1. /\ UNCHANGED ledger /\ died' = died \cup {r} /\ pc[r] # "done" /\ pc'[r] = "done"
        /\ \A t \in TopUps : t # r => pc'[t] = pc[t]
    BY <1>4 DEF Die, Goto, IInv, TypeOK
  <2>2. QED
    BY <2>1, CreditFrame
<1>5. CASE UNCHANGED vars
  BY <1>5, CreditFrame DEF vars
<1>6. QED
  BY <1>1, <1>2, <1>3, <1>4, <1>5 DEF Next

\* A wallet is credited with what a top-up of its organization asked for and with
\* nothing else, and a top-up is dropped only for another of its key (top_up).
THEOREM OwnKeysApplyHolds == Spec => []OwnKeysApply
<1>1. Init => CreditInv
  BY Kinds DEF Init, CreditInv, OwnKeysApply
<1>2. CreditInv => OwnKeysApply
  BY DEF CreditInv
<1>3. QED
  BY <1>1, <1>2, CreditStep, Invariant, PTL DEF Spec
=============================================================================
