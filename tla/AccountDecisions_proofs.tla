---------------------- MODULE AccountDecisions_proofs ----------------------
(***************************************************************************)
(* For any number of requests, cases and decisions, any amounts and any    *)
(* order of calls: the account's version tells its balances apart, a       *)
(* tenure change is published over what it was priced on, and a case takes *)
(* money once.                                                             *)
(***************************************************************************)
EXTENDS AccountDecisions, TLAPS

-----------------------------------------------------------------------------
(* The inductive invariant, in two halves that only an applied case joins  *)

\* The half that is about the account and what was read of it.
AccountShape ==
    /\ account \in [contract : Nat, penalty : Nat, settled : BOOLEAN,
                    version : Nat, planned : BOOLEAN]
    /\ row \in [due : Nat, contract : Nat, penalty : Nat]
    /\ month \in 0 .. MaxMonth
    /\ tenures \in [Requests -> Tenure]
    /\ seen \in [version : Nat, balances : Balances]

\* The version only grows, so what was read has an older one or this one.
LooksAreNotLater ==
    /\ account.version > 0
    /\ seen.version <= account.version
    /\ \A t \in Requests :
          /\ tenures[t].version <= account.version
          /\ tenures[t].month <= month
          /\ tenures[t].step \in {"previewed", "priced", "clear", "PENDING"} =>
                tenures[t].version > 0

\* A price that no event and no month has overtaken is still the price: the official row
\* changes with one or the other.
PricesStand ==
    \A t \in Requests :
        /\ tenures[t].step \in {"priced", "clear", "PENDING"}
        /\ tenures[t].version = account.version
        /\ tenures[t].month = month
        => tenures[t].proposed = Future(Current)

\* Publishing is an event: its request is older than the account from then on.
PublishedAreOlder ==
    \A t \in Requests :
        Owing(tenures[t].published) =>
            /\ tenures[t].version < account.version
            /\ tenures[t].step \in {"APPROVED", "REJECTED"}

AccountInv ==
    /\ AccountShape
    /\ LooksAreNotLater
    /\ VersionsNameBalances
    /\ PricesStand
    /\ PublishedAreOlder
    /\ PublishedAsProposed

\* The half that is about cases, the decisions on them and their receipts.
CaseShape ==
    /\ cases \in [Cases -> CaseStatus] /\ receipts \subseteq Cases /\ taken \in [Cases -> Nat]
    /\ decisions \in [Deciders -> Decision] /\ faults \in 0 .. MaxFaults

\* The statuses a liquidation request and a stray repayment can have.
CasesKeepToTheirKind ==
    \A c \in Cases :
        IF c = Liquidation
        THEN cases[c] \in {"NONE", "PENDING", "REVIEWING", "APPROVED", "REJECTED"}
        ELSE cases[c] \in {"MANUAL_RESOLUTION", "FULFILLED"}

\* Only a stored receipt has taken money.
ReceiptsTakeMoney == \A c \in Cases : c \notin receipts => taken[c] = 0

\* A job is for a case somebody decided; past the payment there is a receipt, and only a
\* liquidation has steps there.
JobsAreDecided ==
    \A d \in Deciders :
        /\ decisions[d].step \in {"read", "applied", "marked"} => decisions[d].case = Liquidation
        /\ decisions[d].step \in {"queued", "applied", "marked"} =>
              /\ decisions[d].case \in Cases
              /\ decisions[d].case = Liquidation => cases[Liquidation] \notin {"NONE", "PENDING"}
        /\ decisions[d].step \in {"applied", "marked"} => Liquidation \in receipts

CaseInv ==
    /\ CaseShape
    /\ CasesKeepToTheirKind
    /\ ReceiptsTakeMoney
    /\ JobsAreDecided
    /\ CasesTakeMoneyOnce

IInv == AccountInv /\ CaseInv

LEMMA Shapes == TypeOK <=> AccountShape /\ CaseShape
BY DEF TypeOK, AccountShape, CaseShape

-----------------------------------------------------------------------------
(* Amounts                                                                 *)

\* Of two amounts the smaller is one of them.
LEMMA LeastNat ==
    ASSUME NEW m \in Nat, NEW n \in Nat
    PROVE  /\ Least(m, n) \in Nat /\ Least(m, n) <= m /\ Least(m, n) <= n
           /\ Minus(m, n) \in Nat
           /\ n <= m => Minus(m, n) = m - n
           /\ Minus(m, 0) = m
BY DEF Least, Minus

\* What is left to plan of natural balances is natural.
LEMMA FutureType ==
    ASSUME AccountShape, NEW b \in Balances
    PROVE  Future(b) \in Balances
BY LeastNat DEF AccountShape, Future, Balances

LEMMA CurrentType ==
    ASSUME AccountShape
    PROVE  Current \in Balances
BY DEF AccountShape, Current, Balances

\* A payment is split between penalty and contract without loss.
LEMMA TakenType ==
    ASSUME AccountShape, NEW applied \in Nat, applied <= account.contract + account.penalty
    PROVE  /\ Taken(applied) \in Balances
           /\ Taken(applied).contract <= account.contract
           /\ Taken(applied).penalty <= account.penalty
<1>1. account.contract \in Nat /\ account.penalty \in Nat
    BY DEF AccountShape
<1> DEFINE p == Least(applied, account.penalty)
<1>2. p \in Nat /\ p <= applied /\ p <= account.penalty /\ applied - p <= account.contract
    BY <1>1 DEF Least
<1>3. Taken(applied) = [penalty |-> p, contract |-> applied - p]
    BY DEF Taken
<1> HIDE DEF p
<1>4. applied - p \in Nat
    BY <1>2
<1> QED BY <1>2, <1>3, <1>4 DEF Balances

LEMMA AfterType ==
    ASSUME AccountShape, NEW sum \in Balances
    PROVE  After(sum) \in Balances
BY LeastNat DEF AccountShape, After, Balances

-----------------------------------------------------------------------------
(* Events                                                                  *)

AccountRow == [contract : Nat, penalty : Nat, settled : BOOLEAN, version : Nat, planned : BOOLEAN]

\* What every transaction on the obligation does: the version moves on.
Event ==
    /\ account' \in AccountRow
    /\ account'.version > account.version

\* A transaction that stores balances is one.
LEMMA RecordIsEvent ==
    ASSUME AccountInv, NEW type, NEW balances \in Balances, NEW plan,
           Record(type, balances, plan)
    PROVE  Event
<1>1. account.version \in Nat /\ account.settled \in BOOLEAN /\ account.planned \in BOOLEAN
    BY DEF AccountInv, AccountShape
<1>2. balances.contract \in Nat /\ balances.penalty \in Nat
      /\ balances = [contract |-> balances.contract, penalty |-> balances.penalty]
    BY DEF Balances
<1> DEFINE settled == type # "DISBURSED" /\ (account.settled \/ ~Owing(balances))
           planned == IF plan = "kept" THEN account.planned ELSE plan = "published"
<1>3. account' = [contract |-> balances.contract, penalty |-> balances.penalty,
                  settled |-> settled, version |-> NewVersion(plan), planned |-> planned]
    BY DEF Record
<1>4. NewVersion(plan) \in Nat /\ NewVersion(plan) > account.version
    BY <1>1 DEF NewVersion
<1>5. settled \in BOOLEAN /\ planned \in BOOLEAN
    BY <1>1
<1> HIDE DEF settled, planned
<1>6. account' \in AccountRow /\ account'.version > account.version
    BY <1>2, <1>3, <1>4, <1>5 DEF AccountRow
<1> QED BY <1>6 DEF Event

\* After an event every look at the account is an old one.
LEMMA EventKeepsAccount ==
    ASSUME AccountInv, Event, row' \in [due : Nat, contract : Nat, penalty : Nat],
           UNCHANGED <<month, tenures, seen>>
    PROVE  AccountInv'
<1>1. AccountShape'
    BY DEF AccountInv, AccountShape, Event, AccountRow, Current, Balances
<1>2. account.version \in Nat /\ account'.version \in Nat /\ account'.version > account.version
    BY DEF AccountInv, AccountShape, Event, AccountRow
<1>3. /\ seen.version \in Nat
      /\ \A t \in Requests : tenures[t].version \in Nat
    BY DEF AccountInv, AccountShape, Tenure
<1>4. /\ seen.version < account'.version
      /\ \A t \in Requests : tenures[t].version < account'.version
    BY <1>2, <1>3 DEF AccountInv, LooksAreNotLater
<1>5. LooksAreNotLater'
    BY <1>2, <1>3, <1>4 DEF AccountInv, LooksAreNotLater
<1>6. VersionsNameBalances'
    BY <1>2, <1>3, <1>4 DEF AccountInv, VersionsNameBalances
<1>7. PricesStand'
    BY <1>2, <1>3, <1>4 DEF PricesStand
<1>8. PublishedAreOlder'
    BY <1>4 DEF AccountInv, PublishedAreOlder
<1>9. PublishedAsProposed'
    BY DEF AccountInv, PublishedAsProposed
<1> QED BY <1>1, <1>5, <1>6, <1>7, <1>8, <1>9 DEF AccountInv

\* What applying any payment does, on the official row or off it.
LEMMA PaymentIsEvent ==
    ASSUME AccountInv, NEW applied \in Nat, applied <= account.contract + account.penalty, NEW plan,
           Record("RECEIVED", After(Taken(applied)), plan)
    PROVE  Event
<1> DEFINE sum == Taken(applied)
<1>1. sum \in Balances
    BY TakenType DEF AccountInv
<1>2. After(sum) \in Balances
    BY <1>1, AfterType DEF AccountInv
<1> QED BY <1>2, RecordIsEvent

LEMMA DisburseTopUpKeeps ==
    ASSUME AccountInv, DisburseTopUp
    PROVE  AccountInv'
<1> DEFINE balances == [Current EXCEPT !.contract = @ + 1]
<1>1. account.contract \in Nat /\ account.penalty \in Nat
    BY DEF AccountInv, AccountShape
<1>2. balances = [contract |-> account.contract + 1, penalty |-> account.penalty]
    BY DEF Current
<1>3. balances \in Balances
    BY <1>1, <1>2 DEF Balances
<1>5. Record("DISBURSED", balances, "published")
    BY DEF DisburseTopUp
<1> HIDE DEF balances
<1>6. Event
    BY <1>3, <1>5, RecordIsEvent
<1>7. UNCHANGED <<row, month, tenures, seen>>
    BY DEF DisburseTopUp
<1> QED BY <1>6, <1>7, EventKeepsAccount DEF AccountInv, AccountShape

LEMMA PayrollPaymentKeeps ==
    ASSUME AccountInv, NEW amount \in 1 .. row.due, PayrollPayment(amount)
    PROVE  AccountInv'
<1> DEFINE applied == Least(amount, account.contract + account.penalty)
           sum == Taken(applied)
<1>1. /\ account.contract \in Nat /\ account.penalty \in Nat
      /\ row.due \in Nat /\ row.contract \in Nat /\ row.penalty \in Nat
    BY DEF AccountInv, AccountShape
<1>2. applied \in Nat /\ applied <= account.contract + account.penalty
    BY <1>1 DEF Least
<1>3. Record("RECEIVED", After(sum), "kept")
    BY DEF PayrollPayment
<1> HIDE DEF applied
<1>4. Event
    BY <1>2, <1>3, PaymentIsEvent
<1>5. sum \in Balances
    BY <1>2, TakenType DEF AccountInv
<1>6. row' = IF amount = row.due THEN NoRow
             ELSE [due |-> row.due - amount,
                   contract |-> Minus(row.contract, sum.contract),
                   penalty |-> Minus(row.penalty, sum.penalty)]
    BY DEF PayrollPayment, applied
<1> HIDE DEF sum
<1>7. Minus(row.contract, sum.contract) \in Nat /\ Minus(row.penalty, sum.penalty) \in Nat
    BY <1>1, <1>5, LeastNat DEF Balances
<1>8. row' \in [due : Nat, contract : Nat, penalty : Nat]
    BY <1>1, <1>6, <1>7 DEF NoRow
<1>9. UNCHANGED <<month, tenures, seen>>
    BY DEF PayrollPayment
<1> QED BY <1>4, <1>8, <1>9, EventKeepsAccount

LEMMA DefaultRowKeeps ==
    ASSUME AccountInv, DefaultRow
    PROVE  AccountInv'
<1> DEFINE balances == [Current EXCEPT !.penalty = @ + row.due * PenaltyRate]
<1>1. account.contract \in Nat /\ account.penalty \in Nat /\ row.due * PenaltyRate \in Nat
    BY DecisionConstants DEF AccountInv, AccountShape
<1>2. balances = [contract |-> account.contract,
                  penalty |-> account.penalty + row.due * PenaltyRate]
    BY DEF Current
<1>3. balances \in Balances
    BY <1>1, <1>2 DEF Balances
<1>5. Record("DEFAULTED", balances, IF Owing(balances) THEN "published" ELSE "kept")
    BY DEF DefaultRow
<1> HIDE DEF balances
<1>6. Event
    BY <1>3, <1>5, RecordIsEvent
<1>7. row' = NoRow /\ UNCHANGED <<month, tenures, seen>>
    BY DEF DefaultRow
<1>8. row' \in [due : Nat, contract : Nat, penalty : Nat]
    BY <1>7 DEF NoRow
<1> QED BY <1>6, <1>7, <1>8, EventKeepsAccount

LEMMA AdjustPenaltyKeeps ==
    ASSUME AccountInv, NEW amount \in 1 .. account.penalty, AdjustPenalty(amount)
    PROVE  AccountInv'
<1> DEFINE sum == [contract |-> 0, penalty |-> amount]
<1>1. sum \in Balances
    BY DEF Balances
<1>2. After(sum) \in Balances
    BY <1>1, AfterType DEF AccountInv
<1>3. Record("ADJUSTED", After(sum), Replanned(After(sum)))
    BY DEF AdjustPenalty
<1> HIDE DEF sum
<1>4. Event
    BY <1>2, <1>3, RecordIsEvent
<1>5. UNCHANGED <<row, month, tenures, seen>>
    BY DEF AdjustPenalty
<1> QED BY <1>4, <1>5, EventKeepsAccount DEF AccountInv, AccountShape

\* A case that is applied pays like any other payment.
LEMMA ApplyKeepsAccount ==
    ASSUME AccountInv, CaseInv, NEW d \in Deciders, Apply(d)
    PROVE  AccountInv'
<1> DEFINE c == decisions[d].case
           applied == Least(Amount[c], account.contract + account.penalty)
<1>1. c \in Cases
    BY DEF CaseInv, JobsAreDecided, Apply
<1>2. Amount[c] \in Nat /\ account.contract \in Nat /\ account.penalty \in Nat
    BY <1>1, DecisionConstants DEF AccountInv, AccountShape
<1>3. applied \in Nat /\ applied <= account.contract + account.penalty
    BY <1>2 DEF Least
<1>4. Record("RECEIVED", After(Taken(applied)), Replanned(After(Taken(applied))))
    BY DEF Apply
<1>5. UNCHANGED <<row, month, tenures, seen>>
    BY DEF Apply
<1> HIDE DEF applied
<1>6. Event
    BY <1>3, <1>4, PaymentIsEvent
<1> QED BY <1>5, <1>6, EventKeepsAccount DEF AccountInv, AccountShape

-----------------------------------------------------------------------------
(* Months, looks and requests                                              *)

\* A month that opens, with a schedule or without one, leaves the prices of the month
\* before behind.
LEMMA MonthKeepsAccount ==
    ASSUME AccountInv, month < MaxMonth, month' = month + 1,
           row' \in [due : Nat, contract : Nat, penalty : Nat],
           UNCHANGED <<account, tenures, seen>>
    PROVE  AccountInv'
<1>1. month \in Nat /\ MaxMonth \in Nat /\ \A t \in Requests : tenures[t].month \in Nat
    BY DecisionConstants DEF AccountInv, AccountShape, Tenure
<1>2. AccountShape'
    BY <1>1 DEF AccountInv, AccountShape
<1>3. \A t \in Requests : tenures[t].month < month'
    BY <1>1 DEF AccountInv, LooksAreNotLater
<1>4. Current' = Current
    BY DEF Current
<1>5. LooksAreNotLater'
    BY <1>1, <1>3 DEF AccountInv, LooksAreNotLater
<1>6. PricesStand'
    BY <1>1, <1>3 DEF PricesStand
<1>7. VersionsNameBalances' /\ PublishedAreOlder' /\ PublishedAsProposed'
    BY <1>4 DEF AccountInv, VersionsNameBalances, PublishedAreOlder, PublishedAsProposed
<1> QED BY <1>2, <1>5, <1>6, <1>7 DEF AccountInv

LEMMA SubmitMonthKeeps ==
    ASSUME AccountInv, SubmitMonth
    PROVE  AccountInv'
<1>1. account.contract \in Nat /\ account.penalty \in Nat
    BY DEF AccountInv, AccountShape
<1> DEFINE contract == Least(1, account.contract)
<1>2. contract \in Nat
    BY <1>1, LeastNat
<1>3. row' = [due |-> contract + account.penalty, contract |-> contract,
               penalty |-> account.penalty]
    BY DEF SubmitMonth
<1> HIDE DEF contract
<1>4. row' \in [due : Nat, contract : Nat, penalty : Nat]
    BY <1>1, <1>2, <1>3
<1>5. month < MaxMonth /\ month' = month + 1 /\ UNCHANGED <<account, tenures, seen>>
    BY DEF SubmitMonth
<1> QED BY <1>4, <1>5, MonthKeepsAccount

LEMMA MonthTurnsKeeps ==
    ASSUME AccountInv, MonthTurns
    PROVE  AccountInv'
BY MonthKeepsAccount DEF MonthTurns, AccountInv, AccountShape

LEMMA ViewKeeps ==
    ASSUME AccountInv, View
    PROVE  AccountInv'
<1>1. seen' = [version |-> account.version, balances |-> Current]
      /\ UNCHANGED <<account, row, month, tenures>>
    BY DEF View, ledger
<1>2. account.version \in Nat
    BY DEF AccountInv, AccountShape
<1>3. AccountShape'
    BY <1>1, <1>2, CurrentType DEF AccountInv, AccountShape
<1>4. Current' = Current
    BY <1>1 DEF Current
<1>5. LooksAreNotLater' /\ VersionsNameBalances'
    BY <1>1, <1>2, <1>4 DEF AccountInv, LooksAreNotLater, VersionsNameBalances
<1>6. PricesStand'
    BY <1>1, <1>4 DEF AccountInv, PricesStand, Future
<1>7. PublishedAreOlder' /\ PublishedAsProposed'
    BY <1>1, <1>4 DEF AccountInv, PublishedAreOlder, PublishedAsProposed
<1> QED BY <1>3, <1>5, <1>6, <1>7 DEF AccountInv

\* What a call may make of request t: a look that is not later than the account, a price
\* that is still the price, and nothing it did not publish.
Fits(t, request) ==
    /\ request \in Tenure
    /\ request.version <= account.version /\ request.month <= month
    /\ request.step \in {"previewed", "priced", "clear", "PENDING"} => request.version > 0
    /\ request.version > 0 /\ request.version = account.version => request.balances = Current
    /\ request.version > 0 /\ request.version = seen.version => request.balances = seen.balances
    /\ request.step \in {"priced", "clear", "PENDING"} /\ request.version = account.version
          /\ request.month = month => request.proposed = Future(Current)
    /\ Owing(request.published) =>
          /\ request.published = tenures[t].published /\ request.proposed = tenures[t].proposed
          /\ request.version = tenures[t].version /\ request.step \in {"APPROVED", "REJECTED"}

LEMMA RequestKeepsAccount ==
    ASSUME AccountInv, NEW t \in Requests, NEW request, Fits(t, request),
           tenures' = [tenures EXCEPT ![t] = request],
           UNCHANGED <<account, row, month, seen>>
    PROVE  AccountInv'
<1>1. tenures \in [Requests -> Tenure] /\ request \in Tenure
    BY DEF AccountInv, AccountShape, Fits
<1>2. /\ tenures' \in [Requests -> Tenure]
      /\ tenures'[t] = request
      /\ \A u \in Requests \ {t} : tenures'[u] = tenures[u]
    BY <1>1
<1> USE DEF AccountInv
<1>3. AccountShape'
    BY <1>2 DEF AccountShape
<1>4. Current' = Current /\ Future(Current)' = Future(Current)
    BY DEF Current, Future
<1>5. LooksAreNotLater'
    BY <1>2 DEF LooksAreNotLater, Fits
<1>6. VersionsNameBalances'
    BY <1>2, <1>4 DEF VersionsNameBalances, Fits
<1>7. PricesStand'
    BY <1>2, <1>4 DEF PricesStand, Fits
<1>9. \A u \in Requests : Owing(tenures'[u].published) =>
          /\ Owing(tenures[u].published)
          /\ tenures'[u].published = tenures[u].published
          /\ tenures'[u].proposed = tenures[u].proposed
          /\ tenures'[u].version = tenures[u].version
          /\ tenures'[u].step \in {"APPROVED", "REJECTED"}
    BY <1>2 DEF Fits, PublishedAreOlder
<1>10. PublishedAreOlder'
    BY <1>9 DEF PublishedAreOlder
<1>11. PublishedAsProposed'
    BY <1>9 DEF PublishedAsProposed
<1> QED BY <1>3, <1>5, <1>6, <1>7, <1>10, <1>11

\* A request that is gone promises nothing.
LEMMA NoTenureFits ==
    ASSUME AccountInv, NEW t \in Requests
    PROVE  Fits(t, NoTenure) /\ Fits(t, [NoTenure EXCEPT !.step = "REJECTED"])
<1>1. account.version \in Nat /\ month \in Nat
    BY DecisionConstants DEF AccountInv, AccountShape
<1>2. NoTenure \in Tenure /\ [NoTenure EXCEPT !.step = "REJECTED"] \in Tenure
    BY DEF NoTenure, Tenure, Balances
<1> QED BY <1>1, <1>2 DEF NoTenure, Fits, Owing

\* What is stored of a request fits it, and still does as the request moves on unpublished
\* without being looked at again.
LEMMA StoredFits ==
    ASSUME AccountInv, NEW t \in Requests
    PROVE  Fits(t, tenures[t])
<1>1. tenures[t] \in Tenure
    BY DEF AccountInv, AccountShape
<1> QED BY <1>1 DEF AccountInv, Fits, LooksAreNotLater, VersionsNameBalances, PricesStand,
                    PublishedAreOlder

LEMMA PreviewKeeps ==
    ASSUME AccountInv, NEW t \in Requests, Preview(t)
    PROVE  AccountInv'
<1> DEFINE request == [NoTenure EXCEPT !.step = "previewed", !.version = account.version,
                                       !.month = month, !.balances = Current]
<1>1. account.version \in Nat /\ month \in Nat /\ Current \in Balances
    BY CurrentType, DecisionConstants DEF AccountInv, AccountShape
<1>2. request \in Tenure
    BY <1>1 DEF NoTenure, Tenure, Balances
<1>3. /\ request.step = "previewed" /\ request.version = account.version
      /\ request.month = month /\ request.balances = Current /\ ~Owing(request.published)
    BY DEF NoTenure, Owing
<1> HIDE DEF request
<1>4. Fits(t, request)
    BY <1>1, <1>2, <1>3 DEF Fits, AccountInv, LooksAreNotLater, VersionsNameBalances
<1>5. tenures' = [tenures EXCEPT ![t] = request]
      /\ UNCHANGED <<account, row, month, seen>>
    BY DEF Preview, ledger, request
<1> QED BY <1>4, <1>5, RequestKeepsAccount

\* The price is the plan for the balances that were read: where the version has not moved
\* these are the account's.
LEMMA PriceKeeps ==
    ASSUME AccountInv, NEW t \in Requests, Price(t)
    PROVE  AccountInv'
<1> DEFINE future == Future(tenures[t].balances)
           request == [tenures[t] EXCEPT !.step = "priced", !.proposed = future]
<1>1. tenures[t] \in Tenure /\ tenures[t].balances \in Balances
    BY DEF AccountInv, AccountShape, Tenure
<1>2. future \in Balances
    BY <1>1, FutureType DEF AccountInv
<1>3. tenures[t].step = "previewed"
    BY DEF Price
<1>4. tenures[t].version = account.version => future = Future(Current)
    BY <1>3 DEF AccountInv, VersionsNameBalances, LooksAreNotLater
<1>5. ~Owing(tenures[t].published)
    BY <1>3 DEF AccountInv, PublishedAreOlder
<1> HIDE DEF future
<1>6. /\ request \in Tenure
      /\ request.step = "priced" /\ request.proposed = future
      /\ request.version = tenures[t].version /\ request.month = tenures[t].month
      /\ request.balances = tenures[t].balances /\ request.published = tenures[t].published
    BY <1>1, <1>2 DEF Tenure
<1> HIDE DEF request
<1>7. Fits(t, request)
    BY <1>3, <1>4, <1>5, <1>6, StoredFits DEF Fits
<1>8. tenures' = [tenures EXCEPT ![t].step = "priced", ![t].proposed = Future(tenures[t].balances)]
      /\ UNCHANGED <<account, row, month, seen>>
    BY DEF Price, ledger
<1>9. tenures' = [tenures EXCEPT ![t] = request]
    BY <1>8, <1>1 DEF request, future, Tenure, AccountInv, AccountShape
<1> QED BY <1>7, <1>8, <1>9, RequestKeepsAccount

\* Storing the request, or looking whether it may be, reads nothing of the account again.
LEMMA StepKeeps ==
    ASSUME AccountInv, NEW t \in Requests, NEW step \in {"clear", "PENDING"},
           tenures[t].step \in {"priced", "clear"},
           tenures' = [tenures EXCEPT ![t].step = step],
           UNCHANGED <<account, row, month, seen>>
    PROVE  AccountInv'
<1> DEFINE request == [tenures[t] EXCEPT !.step = step]
<1>1. tenures[t] \in Tenure
    BY DEF AccountInv, AccountShape
<1>2. /\ request \in Tenure
      /\ request.step = step /\ request.proposed = tenures[t].proposed
      /\ request.version = tenures[t].version /\ request.month = tenures[t].month
      /\ request.balances = tenures[t].balances /\ request.published = tenures[t].published
    BY <1>1 DEF Tenure
<1>3. tenures' = [tenures EXCEPT ![t] = request]
    BY DEF AccountInv, AccountShape
<1> HIDE DEF request
<1>4. Fits(t, request)
    BY <1>2, StoredFits DEF Fits
<1> QED BY <1>3, <1>4, RequestKeepsAccount

LEMMA WithdrawKeeps ==
    ASSUME AccountInv, NEW t \in Requests, Withdraw(t),
           UNCHANGED <<account, row, month, seen>>
    PROVE  AccountInv'
BY NoTenureFits, RequestKeepsAccount DEF Withdraw

LEMMA CheckPendingKeeps ==
    ASSUME AccountInv, NEW t \in Requests, CheckPending(t)
    PROVE  AccountInv'
<1>1. UNCHANGED <<account, row, month, seen>>
    BY DEF CheckPending, ledger
<1>2. CASE Pending = {}
    BY <1>1, <1>2, StepKeeps DEF CheckPending
<1>3. CASE Pending # {}
    BY <1>1, <1>3, WithdrawKeeps DEF CheckPending
<1> QED BY <1>2, <1>3

\* An approval publishes over the balances that were priced: version and month are the ones
\* of the price, so nothing overtook it.
LEMMA ApproveTenureChangeKeeps ==
    ASSUME AccountInv, NEW t \in Requests, ApproveTenureChange(t)
    PROVE  AccountInv'
<1> DEFINE request == [tenures[t] EXCEPT !.step = "APPROVED", !.published = Future(Current)]
<1>1. tenures[t] \in Tenure /\ tenures \in [Requests -> Tenure] /\ account.version \in Nat
    BY DEF AccountInv, AccountShape, Tenure
<1>2. Current \in Balances /\ Future(Current) \in Balances
    BY CurrentType, FutureType DEF AccountInv
<1>4. Record("TENURE", Current, "published")
    BY DEF ApproveTenureChange, Publish
<1>5. Event
    BY <1>2, <1>4, RecordIsEvent
<1>6. Future(Current) = tenures[t].proposed
    BY DEF ApproveTenureChange, AccountInv, PricesStand
<1>7. /\ request \in Tenure
      /\ request.step = "APPROVED" /\ request.published = request.proposed
      /\ request.version = account.version /\ request.month = tenures[t].month
      /\ request.balances = tenures[t].balances
    BY <1>1, <1>2, <1>6 DEF ApproveTenureChange, Tenure
<1>8. tenures' = [tenures EXCEPT ![t] = request] /\ UNCHANGED <<row, month, seen>>
    BY DEF ApproveTenureChange, Publish, AccountInv, AccountShape
<1> HIDE DEF request
<1>9. /\ tenures' \in [Requests -> Tenure]
      /\ tenures'[t] = request
      /\ \A u \in Requests \ {t} : tenures'[u] = tenures[u]
    BY <1>1, <1>7, <1>8
<1>10. AccountShape'
    BY <1>5, <1>8, <1>9 DEF AccountInv, AccountShape, Event, AccountRow, Current, Balances
<1>11. account'.version \in Nat /\ account'.version > account.version
    BY <1>5 DEF Event, AccountRow
<1>12. seen.version \in Nat /\ \A u \in Requests : tenures[u].version \in Nat
    BY DEF AccountInv, AccountShape, Tenure
<1>13. \A u \in Requests : tenures'[u].version < account'.version
    BY <1>1, <1>7, <1>9, <1>11, <1>12 DEF AccountInv, LooksAreNotLater
<1>14. seen'.version < account'.version
    BY <1>1, <1>8, <1>11, <1>12 DEF AccountInv, LooksAreNotLater
<1>15. LooksAreNotLater'
    <2>1. account'.version > 0 /\ seen'.version <= account'.version
        BY <1>1, <1>8, <1>11, <1>12, <1>14 DEF AccountInv, LooksAreNotLater
    <2>2. ASSUME NEW u \in Requests
          PROVE  /\ tenures'[u].version <= account'.version
                 /\ tenures'[u].month <= month'
                 /\ tenures'[u].step \in {"previewed", "priced", "clear", "PENDING"} =>
                        tenures'[u].version > 0
        <3>1. tenures'[u].version \in Nat
            BY <1>9 DEF Tenure
        <3>2. tenures'[u].version <= account'.version
            BY <3>1, <1>11, <1>13
        <3>3. CASE u = t
            BY <3>2, <3>3, <1>7, <1>8, <1>9 DEF AccountInv, LooksAreNotLater
        <3>4. CASE u # t
            BY <3>2, <3>4, <1>8, <1>9 DEF AccountInv, LooksAreNotLater
        <3> QED BY <3>3, <3>4
    <2> QED BY <2>1, <2>2 DEF LooksAreNotLater
<1>16. VersionsNameBalances'
    <2>1. tenures'[t].version = tenures[t].version /\ tenures'[t].balances = tenures[t].balances
        BY <1>7, <1>9 DEF ApproveTenureChange
    <2>2. \A u \in Requests : tenures'[u].version = tenures[u].version
                              /\ tenures'[u].balances = tenures[u].balances
        BY <1>9, <2>1
    <2> QED BY <1>8, <1>12, <1>11, <1>13, <1>14, <2>2 DEF AccountInv, VersionsNameBalances
<1>17. PricesStand'
    BY <1>11, <1>13, <1>12, <1>9, <1>7, <1>1 DEF PricesStand
<1>18. PublishedAreOlder'
    BY <1>7, <1>9, <1>13 DEF AccountInv, PublishedAreOlder
<1>19. PublishedAsProposed'
    <2>1. \A u \in Requests \ {t} : Owing(tenures[u].published) =>
              tenures[u].version # account.version
        BY <1>1, <1>12 DEF AccountInv, PublishedAreOlder
    <2> QED BY <1>7, <1>9, <2>1 DEF AccountInv, PublishedAsProposed
<1> QED BY <1>5, <1>10, <1>15, <1>16, <1>17, <1>18, <1>19
        DEF AccountInv

LEMMA ReadForRejectionKeeps ==
    ASSUME AccountInv, NEW t \in Requests, ReadForRejection(t)
    PROVE  AccountInv'
<1> DEFINE request == [tenures[t] EXCEPT !.rejecting = TRUE]
<1>1. tenures[t] \in Tenure
    BY DEF AccountInv, AccountShape
<1>2. /\ request \in Tenure
      /\ request.step = tenures[t].step /\ request.proposed = tenures[t].proposed
      /\ request.version = tenures[t].version /\ request.month = tenures[t].month
      /\ request.balances = tenures[t].balances /\ request.published = tenures[t].published
    BY <1>1 DEF Tenure
<1>3. tenures' = [tenures EXCEPT ![t] = request]
      /\ UNCHANGED <<account, row, month, seen>>
    BY DEF ReadForRejection, ledger, AccountInv, AccountShape
<1> HIDE DEF request
<1>4. Fits(t, request)
    BY <1>2, StoredFits DEF Fits
<1> QED BY <1>3, <1>4, RequestKeepsAccount

\* A rejection may overwrite an approval: what was published stays on record.
LEMMA RejectTenureChangeKeeps ==
    ASSUME AccountInv, NEW t \in Requests, RejectTenureChange(t)
    PROVE  AccountInv'
<1>1. tenures[t] \in Tenure
    BY DEF AccountInv, AccountShape
<1>2. tenures' = [tenures EXCEPT ![t] = Rejected(tenures[t])]
      /\ UNCHANGED <<account, row, month, seen>>
    BY DEF RejectTenureChange, ledger, AccountInv, AccountShape
<1>3. CASE Owing(tenures[t].published)
    <2> DEFINE request == [tenures[t] EXCEPT !.step = "REJECTED", !.rejecting = FALSE]
    <2>1. /\ request \in Tenure
          /\ request.step = "REJECTED" /\ request.proposed = tenures[t].proposed
          /\ request.version = tenures[t].version /\ request.month = tenures[t].month
          /\ request.balances = tenures[t].balances /\ request.published = tenures[t].published
        BY <1>1 DEF Tenure
    <2>2. Rejected(tenures[t]) = request
        BY <1>3 DEF Rejected
    <2> HIDE DEF request
    <2>3. Fits(t, request)
        BY <2>1, StoredFits DEF Fits
    <2> QED BY <1>2, <2>2, <2>3, RequestKeepsAccount
<1>4. CASE ~Owing(tenures[t].published)
    <2>1. Rejected(tenures[t]) = [NoTenure EXCEPT !.step = "REJECTED"]
        BY <1>4 DEF Rejected
    <2> QED BY <1>2, <2>1, NoTenureFits, RequestKeepsAccount
<1> QED BY <1>3, <1>4

-----------------------------------------------------------------------------
(* Cases                                                                   *)

\* A decision that moves to a step it may be in, with the cases and receipts of before.
LEMMA DecisionMoves ==
    ASSUME CaseInv, NEW d \in Deciders, NEW decision \in Decision,
           decisions' = [decisions EXCEPT ![d] = decision], faults' \in 0 .. MaxFaults,
           UNCHANGED <<cases, receipts, taken>>,
           decision.step \in {"read", "applied", "marked"} => decision.case = Liquidation,
           decision.step \in {"queued", "applied", "marked"} =>
              /\ decision.case \in Cases
              /\ decision.case = Liquidation => cases[Liquidation] \notin {"NONE", "PENDING"},
           decision.step \in {"applied", "marked"} => Liquidation \in receipts
    PROVE  CaseInv'
<1>1. /\ decisions' \in [Deciders -> Decision] /\ decisions'[d] = decision
      /\ \A e \in Deciders \ {d} : decisions'[e] = decisions[e]
    BY DEF CaseInv, CaseShape
<1>2. CaseShape'
    BY <1>1 DEF CaseInv, CaseShape
<1>3. JobsAreDecided'
    BY <1>1 DEF CaseInv, JobsAreDecided
<1>4. CasesKeepToTheirKind' /\ ReceiptsTakeMoney' /\ CasesTakeMoneyOnce'
    BY DEF CaseInv, CasesKeepToTheirKind, ReceiptsTakeMoney, CasesTakeMoneyOnce
<1> QED BY <1>2, <1>3, <1>4 DEF CaseInv

LEMMA OverType == Over \in Decision /\ Over.step = "done"
BY DEF Over, Decision

\* A decision that ends asks nothing of anything.
LEMMA DecisionEnds ==
    ASSUME CaseInv, NEW d \in Deciders, To(d, "done"), faults' \in 0 .. MaxFaults,
           UNCHANGED <<cases, receipts, taken>>
    PROVE  CaseInv'
<1>1. decisions' = [decisions EXCEPT ![d] = Over]
    BY DEF To
<1> QED BY <1>1, OverType, DecisionMoves

\* Where To leads, short of the end.
LEMMA ToStep ==
    ASSUME CaseInv, NEW d \in Deciders, NEW step \in {"queued", "applied", "marked"}, To(d, step)
    PROVE  /\ decisions' = [decisions EXCEPT ![d] = [decisions[d] EXCEPT !.step = step]]
           /\ [decisions[d] EXCEPT !.step = step] \in Decision
           /\ [decisions[d] EXCEPT !.step = step].step = step
           /\ [decisions[d] EXCEPT !.step = step].case = decisions[d].case
BY DEF CaseInv, CaseShape, Decision, To

LEMMA RequestLiquidationKeeps ==
    ASSUME CaseInv, RequestLiquidation
    PROVE  CaseInv'
<1>1. /\ cases[Liquidation] = "NONE" /\ cases' = [cases EXCEPT ![Liquidation] = "PENDING"]
      /\ UNCHANGED <<receipts, taken, decisions, faults>> /\ Liquidation \in Cases
    BY DecisionConstants DEF RequestLiquidation
<1>2. CaseShape'
    BY <1>1 DEF CaseInv, CaseShape, CaseStatus
<1>3. cases'[Liquidation] = "PENDING" /\ \A c \in Cases \ {Liquidation} : cases'[c] = cases[c]
    BY <1>1 DEF CaseInv, CaseShape
<1>4. \A d \in Deciders : decisions[d].step \in {"queued", "applied", "marked"} =>
          decisions[d].case # Liquidation
    BY <1>1 DEF CaseInv, JobsAreDecided
<1>5. JobsAreDecided'
    BY <1>1, <1>4 DEF CaseInv, JobsAreDecided
<1>6. CasesKeepToTheirKind' /\ ReceiptsTakeMoney'
    BY <1>1, <1>3 DEF CaseInv, CasesKeepToTheirKind, ReceiptsTakeMoney
<1>7. CasesTakeMoneyOnce'
    BY <1>1, <1>3 DEF CaseInv, CasesTakeMoneyOnce
<1> QED BY <1>2, <1>5, <1>6, <1>7 DEF CaseInv

\* A decision on the liquidation request that writes its status too: APPROVED only once
\* there is a receipt.
LEMMA LiquidationMoves ==
    ASSUME CaseInv, NEW d \in Deciders, NEW decision \in Decision,
           NEW status \in {"REVIEWING", "APPROVED", "REJECTED"},
           cases' = [cases EXCEPT ![Liquidation] = status],
           decisions' = [decisions EXCEPT ![d] = decision], faults' \in 0 .. MaxFaults,
           UNCHANGED <<receipts, taken>>,
           status = "APPROVED" => Liquidation \in receipts,
           decision.step \in {"read", "queued", "applied", "marked"} => decision.case = Liquidation,
           decision.step \in {"applied", "marked"} => Liquidation \in receipts
    PROVE  CaseInv'
<1>1. /\ decisions' \in [Deciders -> Decision] /\ decisions'[d] = decision
      /\ \A e \in Deciders \ {d} : decisions'[e] = decisions[e]
    BY DEF CaseInv, CaseShape
<1>2. Liquidation \in Cases
    BY DecisionConstants
<1>3. CaseShape'
    BY <1>1 DEF CaseInv, CaseShape, CaseStatus
<1>4. cases'[Liquidation] = status /\ \A c \in Cases \ {Liquidation} : cases'[c] = cases[c]
    BY <1>2 DEF CaseInv, CaseShape
<1>5. JobsAreDecided'
    BY <1>1, <1>2, <1>4 DEF CaseInv, JobsAreDecided
<1>6. CasesKeepToTheirKind'
    BY <1>2, <1>4 DEF CaseInv, CasesKeepToTheirKind
<1>7. ReceiptsTakeMoney'
    BY DEF CaseInv, ReceiptsTakeMoney
<1>8. CasesTakeMoneyOnce'
    BY <1>2, <1>4 DEF CaseInv, CasesTakeMoneyOnce
<1> QED BY <1>3, <1>5, <1>6, <1>7, <1>8 DEF CaseInv

LEMMA ReadRequestKeeps ==
    ASSUME CaseInv, NEW d \in Deciders, NEW accept \in BOOLEAN, ReadRequest(d, accept)
    PROVE  CaseInv'
<1> DEFINE decision == [case |-> Liquidation, accept |-> accept, step |-> "read"]
<1>1. decision \in Decision
    BY DecisionConstants DEF Decision
<1>2. /\ decisions' = [decisions EXCEPT ![d] = decision]
      /\ UNCHANGED <<cases, receipts, taken, faults>>
    BY DEF ReadRequest
<1> QED BY <1>1, <1>2, DecisionMoves DEF CaseInv, CaseShape

LEMMA WriteRequestKeeps ==
    ASSUME CaseInv, NEW d \in Deciders, WriteRequest(d)
    PROVE  CaseInv'
<1>1. decisions[d].step = "read" /\ decisions[d].case = Liquidation
    BY DEF WriteRequest, CaseInv, JobsAreDecided
<1>2. faults' \in 0 .. MaxFaults /\ UNCHANGED <<receipts, taken>>
    BY DEF WriteRequest, CaseInv, CaseShape
<1>3. CASE decisions[d].accept
    <2>1. cases' = [cases EXCEPT ![Liquidation] = "REVIEWING"] /\ To(d, "queued")
        BY <1>3 DEF WriteRequest
    <2> DEFINE decision == [decisions[d] EXCEPT !.step = "queued"]
    <2>2. /\ decisions' = [decisions EXCEPT ![d] = decision]
          /\ decision \in Decision /\ decision.step = "queued" /\ decision.case = Liquidation
        BY <1>1, <2>1, ToStep
    <2> HIDE DEF decision
    <2> QED BY <1>2, <2>1, <2>2, LiquidationMoves
<1>4. CASE ~decisions[d].accept
    <2>1. cases' = [cases EXCEPT ![Liquidation] = "REJECTED"] /\ To(d, "done")
        BY <1>4 DEF WriteRequest
    <2>2. decisions' = [decisions EXCEPT ![d] = Over]
        BY <2>1 DEF To
    <2> QED BY <1>2, <2>1, <2>2, OverType, LiquidationMoves
<1> QED BY <1>3, <1>4

LEMMA ResolveKeeps ==
    ASSUME CaseInv, NEW d \in Deciders, NEW c \in Cases, Resolve(d, c)
    PROVE  CaseInv'
<1> DEFINE decision == [case |-> c, accept |-> TRUE, step |-> "queued"]
<1>1. decision \in Decision
    BY DEF Decision
<1>2. c # Liquidation
    BY DEF Resolve, CaseInv, CasesKeepToTheirKind
<1>3. /\ decisions' = [decisions EXCEPT ![d] = decision]
      /\ UNCHANGED <<cases, receipts, taken, faults>>
    BY DEF Resolve
<1> QED BY <1>1, <1>2, <1>3, DecisionMoves DEF CaseInv, CaseShape

\* A job that is past the payment: the liquidation goes on, any other case is over.
LEMMA AppliedMoves ==
    ASSUME CaseInv, NEW d \in Deciders, decisions[d].step = "queued", Applied(d)
    PROVE  \E decision \in Decision :
              /\ decisions' = [decisions EXCEPT ![d] = decision]
              /\ decision.step \notin {"read", "queued"}
              /\ decision.step \in {"applied", "marked"} =>
                    decision.case = Liquidation /\ decisions[d].case = Liquidation
<1>1. CASE decisions[d].case = Liquidation
    <2>1. To(d, "applied")
        BY <1>1 DEF Applied
    <2> DEFINE decision == [decisions[d] EXCEPT !.step = "applied"]
    <2>2. /\ decisions' = [decisions EXCEPT ![d] = decision]
          /\ decision \in Decision /\ decision.step = "applied" /\ decision.case = Liquidation
        BY <1>1, <2>1, ToStep
    <2> HIDE DEF decision
    <2> QED BY <1>1, <2>2
<1>2. CASE decisions[d].case # Liquidation
    <2>1. decisions' = [decisions EXCEPT ![d] = Over]
        BY <1>2 DEF Applied, To
    <2> QED BY <2>1, OverType
<1> QED BY <1>1, <1>2

LEMMA SkipDuplicateKeeps ==
    ASSUME CaseInv, NEW d \in Deciders, SkipDuplicate(d)
    PROVE  CaseInv'
<1>1. /\ decisions[d].step = "queued" /\ decisions[d].case \in receipts /\ Applied(d)
      /\ UNCHANGED <<cases, receipts, taken, faults>>
    BY DEF SkipDuplicate
<1>2. PICK decision \in Decision :
          /\ decisions' = [decisions EXCEPT ![d] = decision]
          /\ decision.step \notin {"read", "queued"}
          /\ decision.step \in {"applied", "marked"} =>
                decision.case = Liquidation /\ decisions[d].case = Liquidation
    BY <1>1, AppliedMoves
<1>3. decisions[d].case = Liquidation => cases[Liquidation] \notin {"NONE", "PENDING"}
    BY <1>1 DEF CaseInv, JobsAreDecided
<1> QED BY <1>1, <1>2, <1>3, DecisionMoves, DecisionConstants DEF CaseInv, CaseShape

\* The receipt is stored with the money it stands for, and it was not there before.
LEMMA ApplyKeepsCases ==
    ASSUME AccountInv, CaseInv, NEW d \in Deciders, Apply(d)
    PROVE  CaseInv'
<1> DEFINE c == decisions[d].case
           applied == Least(Amount[c], account.contract + account.penalty)
<1>1. /\ decisions[d].step = "queued" /\ cases[c] # "FULFILLED" /\ c \notin receipts
      /\ receipts' = receipts \cup {c} /\ taken' = [taken EXCEPT ![c] = @ + applied]
      /\ Fulfil(c) /\ Applied(d) /\ UNCHANGED faults
    BY DEF Apply
<1>2. /\ c \in Cases
      /\ c = Liquidation => cases[Liquidation] \notin {"NONE", "PENDING"}
    BY <1>1 DEF CaseInv, JobsAreDecided
<1>3. Amount[c] \in Nat /\ account.contract + account.penalty \in Nat
    BY <1>2, DecisionConstants DEF AccountInv, AccountShape
<1>4. applied \in Nat /\ applied <= Amount[c]
    BY <1>3, LeastNat
<1>5. PICK decision \in Decision :
          /\ decisions' = [decisions EXCEPT ![d] = decision]
          /\ decision.step \notin {"read", "queued"}
          /\ decision.step \in {"applied", "marked"} =>
                decision.case = Liquidation /\ decisions[d].case = Liquidation
    BY <1>1, AppliedMoves
<1>6. /\ cases \in [Cases -> CaseStatus] /\ taken \in [Cases -> Nat] /\ receipts \subseteq Cases
      /\ decisions \in [Deciders -> Decision] /\ taken[c] = 0
    BY <1>1, <1>2 DEF CaseInv, CaseShape, ReceiptsTakeMoney
<1> HIDE DEF applied
<1>7. /\ taken' \in [Cases -> Nat] /\ taken'[c] = applied
      /\ \A e \in Cases \ {c} : taken'[e] = taken[e]
    BY <1>1, <1>2, <1>4, <1>6
<1>8. /\ cases' \in [Cases -> CaseStatus]
      /\ cases'[Liquidation] = cases[Liquidation]
      /\ c # Liquidation => cases'[c] = "FULFILLED"
      /\ \A e \in Cases \ {c} : cases'[e] = cases[e]
    BY <1>1, <1>2, <1>6, DecisionConstants DEF Fulfil, CaseStatus
<1> HIDE DEF c
<1>9. /\ decisions' \in [Deciders -> Decision] /\ decisions'[d] = decision
      /\ \A e \in Deciders \ {d} : decisions'[e] = decisions[e]
    BY <1>5, <1>6
<1>10. CaseShape'
    BY <1>1, <1>2, <1>6, <1>7, <1>8, <1>9 DEF CaseInv, CaseShape
<1>11. CasesKeepToTheirKind'
    <2>1. c # Liquidation => cases'[c] = "FULFILLED" /\ c \in Cases
        BY <1>2, <1>8
    <2> QED BY <1>8, <2>1 DEF CaseInv, CasesKeepToTheirKind
<1>12. ReceiptsTakeMoney'
    BY <1>1, <1>7 DEF CaseInv, ReceiptsTakeMoney
<1>13. JobsAreDecided'
    <2> SUFFICES ASSUME NEW e \in Deciders
                 PROVE  /\ decisions'[e].step \in {"read", "applied", "marked"} =>
                              decisions'[e].case = Liquidation
                        /\ decisions'[e].step \in {"queued", "applied", "marked"} =>
                              /\ decisions'[e].case \in Cases
                              /\ decisions'[e].case = Liquidation =>
                                    cases'[Liquidation] \notin {"NONE", "PENDING"}
                        /\ decisions'[e].step \in {"applied", "marked"} => Liquidation \in receipts'
        BY DEF JobsAreDecided
    <2>1. CASE e = d
        BY <2>1, <1>1, <1>2, <1>5, <1>8, <1>9, DecisionConstants DEF c
    <2>2. CASE e # d
        BY <2>2, <1>1, <1>8, <1>9 DEF CaseInv, JobsAreDecided
    <2> QED BY <2>1, <2>2
<1>14. CasesTakeMoneyOnce'
    <2> SUFFICES ASSUME NEW e \in Cases
                 PROVE  /\ taken'[e] <= Amount[e]
                        /\ cases'[e] \in {"APPROVED", "FULFILLED"} => e \in receipts'
                        /\ cases'[e] \in {"NONE", "PENDING", "MANUAL_RESOLUTION"} =>
                              e \notin receipts'
        BY DEF CasesTakeMoneyOnce
    <2>1. CASE e = c
        BY <2>1, <1>1, <1>2, <1>4, <1>7, <1>8 DEF CaseInv, CasesKeepToTheirKind
    <2>2. CASE e # c
        BY <2>2, <1>1, <1>7, <1>8 DEF CaseInv, CasesTakeMoneyOnce
    <2> QED BY <2>1, <2>2
<1> QED BY <1>10, <1>11, <1>12, <1>13, <1>14 DEF CaseInv

LEMMA MarkApprovedKeeps ==
    ASSUME CaseInv, NEW d \in Deciders, MarkApproved(d)
    PROVE  CaseInv'
<1>1. /\ decisions[d].case = Liquidation /\ Liquidation \in receipts
      /\ cases' = [cases EXCEPT ![Liquidation] = "APPROVED"] /\ To(d, "marked")
      /\ faults' \in 0 .. MaxFaults /\ UNCHANGED <<receipts, taken>>
    BY DEF MarkApproved, Decide, CaseInv, CaseShape, JobsAreDecided
<1> DEFINE decision == [decisions[d] EXCEPT !.step = "marked"]
<1>2. /\ decisions' = [decisions EXCEPT ![d] = decision]
      /\ decision \in Decision /\ decision.step = "marked" /\ decision.case = Liquidation
    BY <1>1, ToStep
<1> HIDE DEF decision
<1> QED BY <1>1, <1>2, LiquidationMoves

LEMMA RunAgainKeeps ==
    ASSUME CaseInv, NEW d \in Deciders, RunAgain(d)
    PROVE  CaseInv'
<1>1. /\ decisions[d].case = Liquidation /\ Liquidation \in Cases
      /\ cases[Liquidation] \notin {"NONE", "PENDING"} /\ To(d, "queued")
      /\ faults' \in 0 .. MaxFaults /\ UNCHANGED <<cases, receipts, taken>>
    BY DecisionConstants DEF RunAgain, CaseInv, CaseShape, JobsAreDecided
<1> DEFINE decision == [decisions[d] EXCEPT !.step = "queued"]
<1>2. /\ decisions' = [decisions EXCEPT ![d] = decision]
      /\ decision \in Decision /\ decision.step = "queued" /\ decision.case = Liquidation
    BY <1>1, ToStep
<1> HIDE DEF decision
<1> QED BY <1>1, <1>2, DecisionMoves

LEMMA CallFailsKeeps ==
    ASSUME CaseInv, NEW d \in Deciders, CallFails(d)
    PROVE  CaseInv'
<1>1. /\ To(d, "done") /\ UNCHANGED <<receipts, taken>> /\ faults' \in 0 .. MaxFaults
      /\ decisions' = [decisions EXCEPT ![d] = Over]
    BY DecisionConstants DEF CallFails, CaseInv, CaseShape, To
<1>2. CASE decisions[d].case = Liquidation
    <2>1. cases' = [cases EXCEPT ![Liquidation] = "REJECTED"]
        BY <1>2 DEF CallFails
    <2> QED BY <1>1, <2>1, OverType, LiquidationMoves
<1>3. CASE decisions[d].case # Liquidation
    BY <1>1, <1>3, DecisionEnds DEF CallFails
<1> QED BY <1>2, <1>3

LEMMA JobEndsKeeps ==
    ASSUME CaseInv, NEW d \in Deciders, SkipResolved(d) \/ Notify(d) \/ Lose(d)
    PROVE  CaseInv'
<1>1. To(d, "done") /\ UNCHANGED <<cases, receipts, taken>> /\ faults' \in 0 .. MaxFaults
    BY DecisionConstants DEF SkipResolved, Notify, Lose, CaseInv, CaseShape
<1> QED BY <1>1, DecisionEnds

-----------------------------------------------------------------------------
(* Every step                                                              *)

LEMMA InitAccount == Init => AccountInv
<1> SUFFICES ASSUME Init PROVE AccountInv
    OBVIOUS
<1> DEFINE balances == [contract |-> Debt, penalty |-> Penalty]
<1>1. Debt \in Nat /\ Penalty \in Nat /\ MaxMonth \in Nat /\ balances \in Balances
    BY DecisionConstants DEF Balances
<1>2. NoTenure \in Tenure /\ NoTenure.version = 0 /\ NoTenure.month = 0 /\ NoTenure.step = "none"
      /\ ~Owing(NoTenure.published)
    BY DEF NoTenure, Tenure, Balances, Owing
<1>3. \A t \in Requests : tenures[t] = NoTenure
    BY DEF Init
<1>4. AccountShape
    BY <1>1, <1>2 DEF Init, AccountShape, NoRow, Balances
<1>6. LooksAreNotLater
    BY <1>2, <1>3 DEF Init, LooksAreNotLater
<1>7. VersionsNameBalances
    BY <1>2, <1>3 DEF Init, VersionsNameBalances
<1>8. PricesStand /\ PublishedAreOlder /\ PublishedAsProposed
    BY <1>2, <1>3 DEF PricesStand, PublishedAreOlder, PublishedAsProposed
<1> QED BY <1>4, <1>6, <1>7, <1>8 DEF AccountInv

LEMMA InitCases == Init => CaseInv
<1> SUFFICES ASSUME Init PROVE CaseInv
    OBVIOUS
<1>1. CaseShape
    BY DecisionConstants DEF Init, CaseShape, CaseStatus, Decision
<1>2. CasesKeepToTheirKind /\ ReceiptsTakeMoney
    BY DEF Init, CasesKeepToTheirKind, ReceiptsTakeMoney
<1>3. JobsAreDecided
    BY DEF Init, JobsAreDecided
<1>4. CasesTakeMoneyOnce
    BY DecisionConstants DEF Init, CasesTakeMoneyOnce
<1> QED BY <1>1, <1>2, <1>3, <1>4 DEF CaseInv

\* A step on the account alone leaves the cases, and a step on a case that pays nothing
\* leaves the account.
LEMMA WorkStands ==
    ASSUME CaseInv, UNCHANGED work
    PROVE  CaseInv'
BY DEF work, CaseInv, CaseShape, CasesKeepToTheirKind, ReceiptsTakeMoney, JobsAreDecided,
       CasesTakeMoneyOnce

LEMMA AccountStands ==
    ASSUME AccountInv, UNCHANGED Others
    PROVE  AccountInv'
BY DEF Others, AccountInv, AccountShape, LooksAreNotLater,
       VersionsNameBalances, PricesStand, PublishedAreOlder, PublishedAsProposed, Current, Future

LEMMA AccountStepKeeps ==
    ASSUME IInv,
           \/ DisburseTopUp \/ SubmitMonth \/ MonthTurns \/ DefaultRow
           \/ \E amount \in 1 .. row.due : PayrollPayment(amount)
           \/ View \/ \E amount \in 1 .. account.penalty : AdjustPenalty(amount)
    PROVE  IInv'
<1>1. UNCHANGED work
    BY DEF DisburseTopUp, SubmitMonth, MonthTurns, DefaultRow, PayrollPayment, View, AdjustPenalty
<1>2. AccountInv'
    BY DisburseTopUpKeeps, SubmitMonthKeeps, MonthTurnsKeeps, DefaultRowKeeps,
       PayrollPaymentKeeps, ViewKeeps, AdjustPenaltyKeeps DEF IInv
<1> QED BY <1>1, <1>2, WorkStands DEF IInv

LEMMA TenureStepKeeps ==
    ASSUME IInv, NEW t \in Requests,
           \/ Preview(t) \/ Price(t) \/ NothingToPlan(t) \/ CheckPending(t) \/ CreateRequest(t)
           \/ ApproveTenureChange(t) \/ ReadForRejection(t) \/ RejectTenureChange(t)
    PROVE  IInv'
<1>1. UNCHANGED work
    BY DEF Preview, Price, NothingToPlan, CheckPending, CreateRequest, ApproveTenureChange,
           Publish, ReadForRejection, RejectTenureChange
<1>2. CASE NothingToPlan(t)
    BY <1>1, <1>2, WithdrawKeeps, WorkStands DEF NothingToPlan, ledger, IInv
<1>3. CASE CreateRequest(t)
    BY <1>1, <1>3, StepKeeps, WorkStands DEF CreateRequest, ledger, IInv
<1>4. CASE \/ Preview(t) \/ Price(t) \/ CheckPending(t) \/ ApproveTenureChange(t)
           \/ ReadForRejection(t) \/ RejectTenureChange(t)
    BY <1>1, <1>4, PreviewKeeps, PriceKeeps, CheckPendingKeeps, ApproveTenureChangeKeeps,
       ReadForRejectionKeeps, RejectTenureChangeKeeps, WorkStands DEF IInv
<1> QED BY <1>2, <1>3, <1>4

LEMMA DecisionStepKeeps ==
    ASSUME IInv, NEW d \in Deciders,
           \/ \E accept \in BOOLEAN : ReadRequest(d, accept)
           \/ \E c \in Cases : Resolve(d, c)
           \/ WriteRequest(d) \/ SkipResolved(d) \/ SkipDuplicate(d)
           \/ MarkApproved(d) \/ Notify(d) \/ CallFails(d) \/ RunAgain(d) \/ Lose(d)
    PROVE  IInv'
<1>1. UNCHANGED Others
    BY DEF ReadRequest, Resolve, WriteRequest, SkipResolved, SkipDuplicate, MarkApproved,
           Notify, CallFails, RunAgain, Lose
<1>2. CaseInv'
    BY ReadRequestKeeps, ResolveKeeps, WriteRequestKeeps, JobEndsKeeps, SkipDuplicateKeeps,
       MarkApprovedKeeps, CallFailsKeeps, RunAgainKeeps DEF IInv
<1> QED BY <1>1, <1>2, AccountStands DEF IInv

LEMMA NextPreserves ==
    ASSUME IInv, [Next]_vars
    PROVE  IInv'
<1>1. CASE UNCHANGED vars
    <2>1. UNCHANGED Others /\ UNCHANGED work
        BY <1>1 DEF vars, Others, work
    <2> QED BY <2>1, AccountStands, WorkStands DEF IInv
<1>2. CASE \/ DisburseTopUp \/ SubmitMonth \/ MonthTurns \/ DefaultRow
           \/ \E amount \in 1 .. row.due : PayrollPayment(amount)
           \/ View \/ \E amount \in 1 .. account.penalty : AdjustPenalty(amount)
    BY <1>2, AccountStepKeeps
<1>3. CASE \E t \in Requests :
              \/ Preview(t) \/ Price(t) \/ NothingToPlan(t) \/ CheckPending(t) \/ CreateRequest(t)
              \/ ApproveTenureChange(t) \/ ReadForRejection(t) \/ RejectTenureChange(t)
    BY <1>3, TenureStepKeeps
<1>4. CASE RequestLiquidation
    <2>1. UNCHANGED Others
        BY <1>4 DEF RequestLiquidation
    <2> QED BY <1>4, <2>1, RequestLiquidationKeeps, AccountStands DEF IInv
<1>5. CASE \E d \in Deciders : Apply(d)
    BY <1>5, ApplyKeepsAccount, ApplyKeepsCases DEF IInv
<1>6. CASE \E d \in Deciders :
              \/ \E accept \in BOOLEAN : ReadRequest(d, accept)
              \/ \E c \in Cases : Resolve(d, c)
              \/ WriteRequest(d) \/ SkipResolved(d) \/ SkipDuplicate(d)
              \/ MarkApproved(d) \/ Notify(d) \/ CallFails(d) \/ RunAgain(d) \/ Lose(d)
    BY <1>6, DecisionStepKeeps
<1> QED BY <1>1, <1>2, <1>3, <1>4, <1>5, <1>6, Zenon DEF Next

\* The invariant the theorems below rest on.
THEOREM Inductive == Spec => []IInv
<1>1. Init => IInv
    BY InitAccount, InitCases DEF IInv
<1>2. IInv /\ [Next]_vars => IInv'
    BY NextPreserves
<1> QED BY <1>1, <1>2, PTL DEF Spec

(***************************************************************************)
(* Every variable keeps its shape.                                         *)
(***************************************************************************)
THEOREM TypeCorrect == Spec => []TypeOK
<1>1. IInv => TypeOK
    BY Shapes DEF IInv, AccountInv, CaseInv
<1> QED BY <1>1, Inductive, PTL

(***************************************************************************)
(* The version every decision is checked against tells the account's       *)
(* balances apart.                                                         *)
(***************************************************************************)
THEOREM VersionsTellBalances == Spec => []VersionsNameBalances
<1>1. IInv => VersionsNameBalances
    BY DEF IInv, AccountInv
<1> QED BY <1>1, Inductive, PTL

(***************************************************************************)
(* approveTenureChange publishes over the balances previewTenureChange     *)
(* priced, and of the requests of one version publishes one at most.       *)
(***************************************************************************)
THEOREM PublishesWhatWasPriced == Spec => []PublishedAsProposed
<1>1. IInv => PublishedAsProposed
    BY DEF IInv, AccountInv
<1> QED BY <1>1, Inductive, PTL

(***************************************************************************)
(* However often a liquidation or a manual resolution is decided and its   *)
(* jobs are run, applyUnscheduledPayment takes its money once.             *)
(***************************************************************************)
THEOREM MoneyIsTakenOnce == Spec => []CasesTakeMoneyOnce
<1>1. IInv => CasesTakeMoneyOnce
    BY DEF IInv, CaseInv
<1> QED BY <1>1, Inductive, PTL
=============================================================================
