--------------------- MODULE RepaymentObligation_proofs ---------------------
(***************************************************************************)
(* The two books of a borrower's debt agree until a backfill doubles the   *)
(* claim on the loans, and the loans never owe more than the obligations   *)
(* ask for; at most two obligations are open, repaid loans owe nothing,    *)
(* the current plan is the published one, published rows stand and a loan  *)
(* statement shows what the account holds, for every value of the          *)
(* constants.  The inductive invariant IInv joins the books with the shape *)
(* of the rows and the references between them, which they rest on;        *)
(* PlanInv adds the current plans, StatementInv the statements.            *)
(*                                                                         *)
(* First what the oldest-first loops over loan rows take, for every number *)
(* of loans and every amount.  Then the shapes of the rows, and what       *)
(* publishing, superseding and withdrawing a plan, or writing one          *)
(* installment, does to them: no plan and no month of a plan ever goes     *)
(* away, and every term, amount and month a new plan is made from is one   *)
(* it can be made from.                                                    *)
(***************************************************************************)
EXTENDS RepaymentObligation, FiniteSums_proofs, SequenceTheorems

-----------------------------------------------------------------------------
(* Running totals                                                          *)

\* The recursion of RunningTotal holds, and it is the only function with it.
LEMMA RunningTotalExists ==
    ASSUME NEW a \in Seq(Int)
    PROVE  \E f : f = [n \in 0 .. Len(a) |-> IF n = 0 THEN 0 ELSE f[n - 1] + a[n]]
<1> DEFINE G(f, m) == f = [n \in 0 .. m |-> IF n = 0 THEN 0 ELSE f[n - 1] + a[n]]
           S == {m \in Nat : m <= Len(a) => \E f : G(f, m)}
<1>1. 0 \in S
    <2> G([n \in 0 .. 0 |-> 0], 0)
        OBVIOUS
    <2> QED OBVIOUS
<1>2. ASSUME NEW m \in Nat, m \in S
      PROVE  m + 1 \in S
    <2>1. CASE m + 1 <= Len(a)
        <3>1. PICK f : G(f, m)
            BY <1>2, <2>1
        <3> DEFINE g == [n \in 0 .. m + 1 |-> IF n = m + 1 THEN f[m] + a[m + 1] ELSE f[n]]
        <3>5. \A n \in 1 .. m : f[n] = f[n - 1] + a[n]
            BY <3>1
        <3>2. \A n \in 1 .. m + 1 : g[n] = g[n - 1] + a[n]
            <4> TAKE n \in 1 .. m + 1
            <4>1. CASE n = m + 1
                BY <4>1
            <4>2. CASE n # m + 1
                <5>1. n \in 1 .. m /\ n - 1 \in 0 .. m /\ n - 1 # m + 1 /\ n \in 0 .. m + 1
                    BY <4>2
                <5> QED BY <5>1, <3>5, <4>2
            <4> QED BY <4>1, <4>2
        <3>3. g[0] = 0
            BY <3>1
        <3>6. g = [n \in 0 .. m + 1 |-> g[n]]
            OBVIOUS
        <3> HIDE DEF g
        <3>7. \A n \in 0 .. m + 1 : g[n] = IF n = 0 THEN 0 ELSE g[n - 1] + a[n]
            BY <3>2, <3>3
        <3>4. G(g, m + 1)
            BY <3>6, <3>7, Zenon
        <3> QED BY <3>4
    <2>2. CASE ~ (m + 1 <= Len(a))
        BY <2>2
    <2> QED BY <2>1, <2>2
<1>3. Nat \subseteq S
    <2> HIDE DEF S
    <2> QED BY <1>1, <1>2, SetInduction
<1> QED BY <1>3, LenProperties

\* Each running total adds one amount to the one before.
LEMMA RunningTotalStep ==
    ASSUME NEW a \in Seq(Int)
    PROVE  /\ RunningTotal(a) \in [0 .. Len(a) -> Int]
           /\ RunningTotal(a)[0] = 0
           /\ \A n \in 1 .. Len(a) : RunningTotal(a)[n] = RunningTotal(a)[n - 1] + a[n]
<1> DEFINE f == RunningTotal(a)
<1>1. f = [n \in 0 .. Len(a) |-> IF n = 0 THEN 0 ELSE f[n - 1] + a[n]]
    BY RunningTotalExists DEF RunningTotal
<1> HIDE DEF f
<1>2. Len(a) \in Nat /\ \A n \in 1 .. Len(a) : a[n] \in Int
    BY LenProperties, ElementOfSeq
<1>3. f[0] = 0
    BY <1>1, <1>2
<1>4. \A n \in 1 .. Len(a) : f[n] = f[n - 1] + a[n]
    BY <1>1, <1>2
<1>5. \A n \in 0 .. Len(a) : f[n] \in Int
    <2> DEFINE S == {n \in Nat : n <= Len(a) => f[n] \in Int}
    <2>1. 0 \in S
        BY <1>3
    <2>2. \A n \in Nat : n \in S => n + 1 \in S
        <3> SUFFICES ASSUME NEW n \in Nat, n \in S, n + 1 <= Len(a)
                     PROVE  f[n + 1] \in Int
            OBVIOUS
        <3>1. n + 1 \in 1 .. Len(a) /\ (n + 1) - 1 = n
            BY <1>2
        <3>2. f[n + 1] = f[n] + a[n + 1]
            BY <3>1, <1>4
        <3>3. f[n] \in Int /\ a[n + 1] \in Int
            BY <3>1, <1>2
        <3> QED BY <3>2, <3>3
    <2>3. Nat \subseteq S
        <3> HIDE DEF S
        <3> QED BY <2>1, <2>2, SetInduction
    <2> QED BY <2>3, <1>2
<1>6. f \in [0 .. Len(a) -> Int]
    BY <1>1, <1>5
<1> QED BY <1>3, <1>4, <1>6 DEF f

\* Sequences that agree on their first n amounts agree on the running total there.
LEMMA RunningTotalPrefix ==
    ASSUME NEW a \in Seq(Int), NEW b \in Seq(Int), NEW m \in Nat,
           m <= Len(a), m <= Len(b),
           \A n \in 1 .. m : a[n] = b[n]
    PROVE  RunningTotal(a)[m] = RunningTotal(b)[m]
<1> DEFINE S == {n \in Nat : n <= m => RunningTotal(a)[n] = RunningTotal(b)[n]}
<1>1. 0 \in S
    BY RunningTotalStep
<1>2. \A n \in Nat : n \in S => n + 1 \in S
    <2> SUFFICES ASSUME NEW n \in Nat, n \in S, n + 1 <= m
                 PROVE  RunningTotal(a)[n + 1] = RunningTotal(b)[n + 1]
        OBVIOUS
    <2>1. n + 1 \in 1 .. Len(a) /\ n + 1 \in 1 .. Len(b) /\ n + 1 \in 1 .. m /\ (n + 1) - 1 = n
        BY LenProperties
    <2>2. RunningTotal(a)[n + 1] = RunningTotal(a)[n] + a[n + 1]
        BY <2>1, RunningTotalStep
    <2>3. RunningTotal(b)[n + 1] = RunningTotal(b)[n] + b[n + 1]
        BY <2>1, RunningTotalStep
    <2> QED BY <2>1, <2>2, <2>3
<1>3. Nat \subseteq S
    <2> HIDE DEF S
    <2> QED BY <1>1, <1>2, SetInduction
<1> QED BY <1>3

\* A new loan row adds its amount to the total.
LEMMA TotalAppend ==
    ASSUME NEW a \in Seq(Int), NEW x \in Int
    PROVE  Total(Append(a, x)) = Total(a) + x
<1> DEFINE b == Append(a, x)
<1>1. /\ Len(a) \in Nat
      /\ b \in Seq(Int)
      /\ Len(b) = Len(a) + 1
      /\ b[Len(a) + 1] = x
      /\ \A n \in 1 .. Len(a) : b[n] = a[n]
    BY AppendProperties, LenProperties
<1> HIDE DEF b
<1>2. RunningTotal(b)[Len(a)] = RunningTotal(a)[Len(a)]
    <2>1. Len(a) <= Len(b) /\ Len(a) <= Len(a)
        BY <1>1
    <2> QED BY <1>1, <2>1, RunningTotalPrefix
<1>3. RunningTotal(b)[Len(a) + 1] = RunningTotal(b)[Len(a)] + x
    <2>1. Len(a) + 1 \in 1 .. Len(b) /\ (Len(a) + 1) - 1 = Len(a)
        BY <1>1
    <2> QED BY <1>1, <2>1, RunningTotalStep
<1> QED BY <1>1, <1>2, <1>3 DEF Total, b

\* A changed amount moves the total by its change.
LEMMA TotalUpdate ==
    ASSUME NEW a \in Seq(Int), NEW i \in DOMAIN a, NEW x \in Int
    PROVE  Total([a EXCEPT ![i] = x]) = Total(a) - a[i] + x
<1> DEFINE b == [a EXCEPT ![i] = x]
           T(n) == RunningTotal(a)[n] + (IF n < i THEN 0 ELSE x - a[i])
           S == {n \in Nat : n <= Len(a) => RunningTotal(b)[n] = T(n)}
<1>0. /\ Len(a) \in Nat /\ DOMAIN a = 1 .. Len(a) /\ i \in 1 .. Len(a)
      /\ \A n \in 1 .. Len(a) : a[n] \in Int
    BY LenProperties, ElementOfSeq
<1>1. b \in Seq(Int) /\ Len(b) = Len(a) /\ \A n \in 1 .. Len(a) : b[n] = IF n = i THEN x ELSE a[n]
    BY <1>0, ExceptSeq
<1> HIDE DEF b
<1>2. 0 \in S
    BY <1>0, <1>1, RunningTotalStep
<1>3. \A n \in Nat : n \in S => n + 1 \in S
    <2> SUFFICES ASSUME NEW n \in Nat, n \in S, n + 1 <= Len(a)
                 PROVE  RunningTotal(b)[n + 1] = T(n + 1)
        OBVIOUS
    <2>1. n + 1 \in 1 .. Len(a) /\ (n + 1) - 1 = n /\ n \in 0 .. Len(a)
        BY <1>0
    <2>2. RunningTotal(a)[n + 1] = RunningTotal(a)[n] + a[n + 1] /\ RunningTotal(a)[n] \in Int
        BY <2>1, RunningTotalStep
    <2>3. RunningTotal(b)[n + 1] = RunningTotal(b)[n] + b[n + 1]
        BY <1>1, <2>1, RunningTotalStep
    <2>4. RunningTotal(b)[n] = T(n)
        BY <2>1
    <2>5. a[i] \in Int /\ a[n + 1] \in Int /\ b[n + 1] = IF n + 1 = i THEN x ELSE a[n + 1]
        BY <1>0, <1>1, <2>1
    <2> QED BY <1>0, <2>2, <2>3, <2>4, <2>5
<1>4. Nat \subseteq S
    <2> HIDE DEF S
    <2> QED BY <1>2, <1>3, SetInduction
<1>5. RunningTotal(b)[Len(a)] = RunningTotal(a)[Len(a)] + (x - a[i])
    BY <1>0, <1>4
<1>6. RunningTotal(a)[Len(a)] \in Int /\ a[i] \in Int
    BY <1>0, RunningTotalStep
<1> QED BY <1>1, <1>5, <1>6 DEF Total, b

\* Amounts are not negative, so neither are their running totals.
LEMMA RunningTotalNat ==
    ASSUME NEW a \in Seq(Nat)
    PROVE  \A n \in 0 .. Len(a) : RunningTotal(a)[n] \in Nat
<1> DEFINE S == {n \in Nat : n <= Len(a) => RunningTotal(a)[n] \in Nat}
<1>0. a \in Seq(Int) /\ Len(a) \in Nat /\ \A n \in 1 .. Len(a) : a[n] \in Nat
    BY LenProperties, ElementOfSeq, Nat \subseteq Int
<1>1. 0 \in S
    BY <1>0, RunningTotalStep
<1>2. \A n \in Nat : n \in S => n + 1 \in S
    <2> SUFFICES ASSUME NEW n \in Nat, n \in S, n + 1 <= Len(a)
                 PROVE  RunningTotal(a)[n + 1] \in Nat
        OBVIOUS
    <2>1. n + 1 \in 1 .. Len(a) /\ (n + 1) - 1 = n
        BY <1>0
    <2>2. RunningTotal(a)[n + 1] = RunningTotal(a)[n] + a[n + 1]
        BY <1>0, <2>1, RunningTotalStep
    <2> QED BY <1>0, <2>1, <2>2
<1>3. Nat \subseteq S
    <2> HIDE DEF S
    <2> QED BY <1>1, <1>2, SetInduction
<1> QED BY <1>3, <1>0

\* Amounts that are all zero add up to zero.
LEMMA TotalZero ==
    ASSUME NEW a \in Seq(Int), \A n \in 1 .. Len(a) : a[n] = 0
    PROVE  Total(a) = 0
<1> DEFINE S == {n \in Nat : n <= Len(a) => RunningTotal(a)[n] = 0}
<1>0. Len(a) \in Nat
    BY LenProperties
<1>1. 0 \in S
    BY RunningTotalStep
<1>2. \A n \in Nat : n \in S => n + 1 \in S
    <2> SUFFICES ASSUME NEW n \in Nat, n \in S, n + 1 <= Len(a)
                 PROVE  RunningTotal(a)[n + 1] = 0
        OBVIOUS
    <2>1. n + 1 \in 1 .. Len(a) /\ (n + 1) - 1 = n
        BY <1>0
    <2>2. RunningTotal(a)[n + 1] = RunningTotal(a)[n] + a[n + 1]
        BY <2>1, RunningTotalStep
    <2> QED BY <2>1, <2>2
<1>3. Nat \subseteq S
    <2> HIDE DEF S
    <2> QED BY <1>1, <1>2, SetInduction
<1> QED BY <1>3, <1>0 DEF Total

-----------------------------------------------------------------------------
(* The oldest-first loops                                                  *)

\* A loan takes no more than it owes, and nothing when it owes nothing.
LEMMA ShareBounds ==
    ASSUME NEW a \in Seq(Nat), NEW amount \in Nat, NEW i \in DOMAIN a
    PROVE  /\ Share(a, amount, i) \in Nat
           /\ Share(a, amount, i) <= a[i]
           /\ a[i] - Share(a, amount, i) \in Nat
           /\ a[i] = 0 => Share(a, amount, i) = 0
<1>1. Len(a) \in Nat /\ i \in 1 .. Len(a) /\ a[i] \in Nat
    BY LenProperties, ElementOfSeq
<1>2. RunningTotal(a)[i - 1] \in Nat
    BY <1>1, RunningTotalNat
<1> DEFINE owed == a[i]
           left == amount - RunningTotal(a)[i - 1]
<1>3. owed \in Nat /\ left \in Int /\ Share(a, amount, i) = Least(Floor0(left), owed)
    BY <1>1, <1>2 DEF Share
<1> HIDE DEF owed, left
<1>4. /\ Share(a, amount, i) \in Nat /\ Share(a, amount, i) <= owed
      /\ owed - Share(a, amount, i) \in Nat
      /\ owed = 0 => Share(a, amount, i) = 0
    BY <1>3 DEF Least, Floor0
<1> QED BY <1>4 DEF owed

\* What one loan takes of a payment, when the loans before it have had their shares.
LEMMA FloorStep ==
    ASSUME NEW total \in Nat, NEW x \in Nat, NEW amount \in Nat
    PROVE  Floor0((total + x) - amount)
             = Floor0(total - amount) + (x - Least(Floor0(amount - total), x))
BY DEF Floor0, Least

\* What the loans owe, less what each of them takes of an amount.
AfterShares(a, amount) == [i \in DOMAIN a |-> a[i] - Share(a, amount, i)]

(***************************************************************************)
(* However many loans there are, together they take the amount or all they *)
(* owe, whichever is less.                                                 *)
(***************************************************************************)
THEOREM WaterfallTakesAll ==
    ASSUME NEW a \in Seq(Nat), NEW amount \in Nat
    PROVE  /\ AfterShares(a, amount) \in Seq(Nat)
           /\ Total(AfterShares(a, amount)) = Floor0(Total(a) - amount)
<1> DEFINE b == AfterShares(a, amount)
<1>0. /\ Len(a) \in Nat
      /\ DOMAIN a = 1 .. Len(a)
      /\ \A n \in 1 .. Len(a) : a[n] \in Nat
      /\ a \in Seq(Int)
    BY LenProperties, ElementOfSeq, Nat \subseteq Int
<1>1. /\ b \in Seq(Nat)
      /\ Len(b) = Len(a)
      /\ \A n \in 1 .. Len(a) : b[n] = a[n] - Share(a, amount, n)
    <2>1. b \in [1 .. Len(a) -> Nat]
        BY <1>0, ShareBounds DEF AfterShares
    <2>2. b \in Seq(Nat)
        BY <1>0, <2>1, SeqDef
    <2>3. Len(b) = Len(a)
        BY <1>0, <2>1, <2>2, LenProperties
    <2> QED BY <1>0, <2>2, <2>3 DEF AfterShares
<1> HIDE DEF b
<1> DEFINE S == {n \in Nat : n <= Len(a) =>
                    RunningTotal(b)[n] = Floor0(RunningTotal(a)[n] - amount)}
<1>b. b \in Seq(Int)
    BY <1>1, Nat \subseteq Int
<1>2. 0 \in S
    BY <1>0, <1>b, RunningTotalStep DEF Floor0
<1>3. \A n \in Nat : n \in S => n + 1 \in S
    <2> SUFFICES ASSUME NEW n \in Nat, n \in S, n + 1 <= Len(a)
                 PROVE  RunningTotal(b)[n + 1] = Floor0(RunningTotal(a)[n + 1] - amount)
        OBVIOUS
    <2>1. n + 1 \in 1 .. Len(a) /\ (n + 1) - 1 = n /\ n \in 0 .. Len(a)
        BY <1>0
    <2>2. RunningTotal(a)[n + 1] = RunningTotal(a)[n] + a[n + 1]
        BY <1>0, <2>1, RunningTotalStep
    <2>3. RunningTotal(b)[n + 1] = RunningTotal(b)[n] + b[n + 1]
        BY <1>1, <1>b, <2>1, RunningTotalStep
    <2>4. b[n + 1] = a[n + 1] - Least(Floor0(amount - RunningTotal(a)[n]), a[n + 1])
        BY <1>1, <2>1 DEF Share
    <2>5. RunningTotal(a)[n] \in Nat /\ a[n + 1] \in Nat
        BY <1>0, <2>1, RunningTotalNat
    <2>6. RunningTotal(b)[n] = Floor0(RunningTotal(a)[n] - amount)
        BY <2>1
    <2>7. Floor0((RunningTotal(a)[n] + a[n + 1]) - amount)
            = Floor0(RunningTotal(a)[n] - amount)
              + (a[n + 1] - Least(Floor0(amount - RunningTotal(a)[n]), a[n + 1]))
        BY <2>5, FloorStep
    <2> QED BY <2>2, <2>3, <2>4, <2>6, <2>7
<1>4. Nat \subseteq S
    <2> HIDE DEF S
    <2> QED BY <1>2, <1>3, SetInduction
<1> QED BY <1>0, <1>1, <1>4 DEF Total, b

\* What each loan takes of an amount.
Shares(a, amount) == [i \in DOMAIN a |-> Share(a, amount, i)]

\* However many loans there are, what they take adds up to the lesser of the two.
LEMMA SharesTotal ==
    ASSUME NEW a \in Seq(Nat), NEW amount \in Nat
    PROVE  /\ Shares(a, amount) \in Seq(Nat)
           /\ Total(Shares(a, amount)) = Least(amount, Total(a))
<1> DEFINE b == Shares(a, amount)
<1>0. /\ Len(a) \in Nat
      /\ DOMAIN a = 1 .. Len(a)
      /\ \A n \in 1 .. Len(a) : a[n] \in Nat
      /\ a \in Seq(Int)
    BY LenProperties, ElementOfSeq, Nat \subseteq Int
<1>1. /\ b \in Seq(Nat)
      /\ Len(b) = Len(a)
      /\ \A n \in 1 .. Len(a) : b[n] = Share(a, amount, n)
    <2>1. b \in [1 .. Len(a) -> Nat]
        BY <1>0, ShareBounds DEF Shares
    <2>2. b \in Seq(Nat)
        BY <1>0, <2>1, SeqDef
    <2>3. Len(b) = Len(a)
        BY <1>0, <2>1, <2>2, LenProperties
    <2> QED BY <1>0, <2>2, <2>3 DEF Shares
<1> HIDE DEF b
<1> DEFINE S == {n \in Nat : n <= Len(a) =>
                    RunningTotal(b)[n] = Least(amount, RunningTotal(a)[n])}
<1>b. b \in Seq(Int)
    BY <1>1, Nat \subseteq Int
<1>2. 0 \in S
    BY <1>0, <1>b, RunningTotalStep DEF Least
<1>3. \A n \in Nat : n \in S => n + 1 \in S
    <2> SUFFICES ASSUME NEW n \in Nat, n \in S, n + 1 <= Len(a)
                 PROVE  RunningTotal(b)[n + 1] = Least(amount, RunningTotal(a)[n + 1])
        OBVIOUS
    <2>1. n + 1 \in 1 .. Len(a) /\ (n + 1) - 1 = n /\ n \in 0 .. Len(a)
        BY <1>0
    <2>2. RunningTotal(a)[n + 1] = RunningTotal(a)[n] + a[n + 1]
        BY <1>0, <2>1, RunningTotalStep
    <2>3. RunningTotal(b)[n + 1] = RunningTotal(b)[n] + b[n + 1]
        BY <1>1, <1>b, <2>1, RunningTotalStep
    <2>4. b[n + 1] = Least(Floor0(amount - RunningTotal(a)[n]), a[n + 1])
        BY <1>1, <2>1 DEF Share
    <2>5. RunningTotal(a)[n] \in Nat /\ a[n + 1] \in Nat
        BY <1>0, <2>1, RunningTotalNat
    <2>6. RunningTotal(b)[n] = Least(amount, RunningTotal(a)[n])
        BY <2>1
    <2>7. \A t, x \in Nat :
             Least(amount, t + x) = Least(amount, t) + Least(Floor0(amount - t), x)
        BY DEF Least, Floor0
    <2> QED BY <2>2, <2>3, <2>4, <2>5, <2>6, <2>7
<1>4. Nat \subseteq S
    <2> HIDE DEF S
    <2> QED BY <1>2, <1>3, SetInduction
<1> QED BY <1>0, <1>1, <1>4 DEF Total, b

-----------------------------------------------------------------------------
(* The operations on loan rows                                             *)

\* A function on 1 .. n is a sequence.
LEMMA SeqOfFunction ==
    ASSUME NEW T, NEW n \in Nat, NEW f \in [1 .. n -> T]
    PROVE  f \in Seq(T) /\ Len(f) = n /\ DOMAIN f = 1 .. n
<1>1. f \in Seq(T)
    BY SeqDef
<1> QED BY <1>1, LenProperties

\* Sequences of amounts are sequences of integers.
LEMMA SeqNatInt == Seq(Nat) \subseteq Seq(Int)
BY SeqDef

\* What membership in Seq(LoanRow) says of the rows.
LEMMA LoanSeq ==
    ASSUME NEW ledger \in Seq(LoanRow)
    PROVE  /\ Len(ledger) \in Nat
           /\ DOMAIN ledger = 1 .. Len(ledger)
           /\ \A i \in DOMAIN ledger :
                 /\ ledger[i] \in LoanRow
                 /\ ledger[i].status \in {"DISBURSED", "REPAID"}
                 /\ ledger[i].owed \in Nat
                 /\ ledger[i].penalty \in Nat
<1>1. Len(ledger) \in Nat /\ DOMAIN ledger = 1 .. Len(ledger)
    BY LenProperties
<1>2. \A i \in DOMAIN ledger : ledger[i] \in LoanRow
    BY <1>1, ElementOfSeq
<1> QED BY <1>1, <1>2 DEF LoanRow

\* The amounts of loan rows are sequences of natural numbers.
LEMMA AmountsType ==
    ASSUME NEW ledger \in Seq(LoanRow)
    PROVE  /\ OwedAmounts(ledger) \in Seq(Nat)
           /\ PenaltyAmounts(ledger) \in Seq(Nat)
           /\ AllPenaltyAmounts(ledger) \in Seq(Nat)
           /\ DOMAIN OwedAmounts(ledger) = DOMAIN ledger
           /\ DOMAIN PenaltyAmounts(ledger) = DOMAIN ledger
           /\ DOMAIN AllPenaltyAmounts(ledger) = DOMAIN ledger
           /\ Len(OwedAmounts(ledger)) = Len(ledger)
<1>1. OwedAmounts(ledger) \in [1 .. Len(ledger) -> Nat]
    BY LoanSeq DEF OwedAmounts
<1>2. PenaltyAmounts(ledger) \in [1 .. Len(ledger) -> Nat]
    BY LoanSeq DEF PenaltyAmounts
<1>3. AllPenaltyAmounts(ledger) \in [1 .. Len(ledger) -> Nat]
    BY LoanSeq DEF AllPenaltyAmounts
<1> QED BY <1>1, <1>2, <1>3, LoanSeq, SeqOfFunction

\* A total of natural amounts is one.
LEMMA TotalNat ==
    ASSUME NEW a \in Seq(Nat)
    PROVE  Total(a) \in Nat
<1>1. Len(a) \in 0 .. Len(a)
    BY LenProperties
<1> QED BY <1>1, RunningTotalNat DEF Total

\* A REPAID loan owes nothing.
RepaidClear(ledger) ==
    \A i \in DOMAIN ledger :
        ledger[i].status = "REPAID" => ledger[i].owed = 0 /\ ledger[i].penalty = 0

(***************************************************************************)
(* A payment keeps the rows well-formed and takes its contractual part     *)
(* from what the disbursed loans owe, up to all of it.                     *)
(***************************************************************************)
LEMMA PayLoansEffect ==
    ASSUME NEW ledger \in Seq(LoanRow), NEW p \in Nat, NEW c \in Nat
    PROVE  /\ PayLoans(ledger, p, c) \in Seq(LoanRow)
           /\ Total(OwedAmounts(PayLoans(ledger, p, c)))
                 = Floor0(Total(OwedAmounts(ledger)) - c)
           /\ RepaidClear(ledger) => RepaidClear(PayLoans(ledger, p, c))
<1> DEFINE new == PayLoans(ledger, p, c)
<1>1. ASSUME NEW i \in DOMAIN ledger
      PROVE  /\ ledger[i].penalty - Share(PenaltyAmounts(ledger), p, i) \in Nat
             /\ ledger[i].owed - Share(OwedAmounts(ledger), c, i) \in Nat
             /\ ledger[i].owed = 0 => Share(OwedAmounts(ledger), c, i) = 0
             /\ ledger[i].penalty = 0 => Share(PenaltyAmounts(ledger), p, i) = 0
             /\ ledger[i].status # "DISBURSED" => Share(OwedAmounts(ledger), c, i) = 0
    <2>2. /\ OwedAmounts(ledger)[i] = IF ledger[i].status = "DISBURSED" THEN ledger[i].owed ELSE 0
          /\ PenaltyAmounts(ledger)[i]
                = IF ledger[i].status = "DISBURSED" THEN ledger[i].penalty ELSE 0
        BY DEF OwedAmounts, PenaltyAmounts
    <2>3. /\ Share(OwedAmounts(ledger), c, i) \in Nat
          /\ Share(OwedAmounts(ledger), c, i) <= OwedAmounts(ledger)[i]
          /\ OwedAmounts(ledger)[i] = 0 => Share(OwedAmounts(ledger), c, i) = 0
        BY AmountsType, ShareBounds
    <2>4. /\ Share(PenaltyAmounts(ledger), p, i) \in Nat
          /\ Share(PenaltyAmounts(ledger), p, i) <= PenaltyAmounts(ledger)[i]
          /\ PenaltyAmounts(ledger)[i] = 0 => Share(PenaltyAmounts(ledger), p, i) = 0
        BY AmountsType, ShareBounds
    <2>5. ledger[i].owed \in Nat /\ ledger[i].penalty \in Nat
        BY LoanSeq
    <2> QED BY <2>2, <2>3, <2>4, <2>5
<1>2. DOMAIN new = DOMAIN ledger
    BY DEF PayLoans
<1>3. ASSUME NEW i \in DOMAIN ledger
      PROVE  /\ new[i] \in LoanRow
             /\ new[i].status = ledger[i].status
             /\ new[i].owed = ledger[i].owed - Share(OwedAmounts(ledger), c, i)
             /\ new[i].penalty = ledger[i].penalty - Share(PenaltyAmounts(ledger), p, i)
    <2>1. ledger[i] \in LoanRow
        BY LoanSeq
    <2>2. new[i] = [ledger[i] EXCEPT
                    !.penalty = ledger[i].penalty - Share(PenaltyAmounts(ledger), p, i),
                    !.owed    = ledger[i].owed - Share(OwedAmounts(ledger), c, i)]
        BY DEF PayLoans
    <2> QED BY <1>1, <2>1, <2>2 DEF LoanRow
<1>4. new \in Seq(LoanRow)
    <2>1. new \in [1 .. Len(ledger) -> LoanRow]
        BY <1>2, <1>3, LoanSeq DEF PayLoans
    <2> QED BY <2>1, LoanSeq, SeqOfFunction
<1> HIDE DEF new
<1>5. OwedAmounts(new) = AfterShares(OwedAmounts(ledger), c)
    <2>1. \A i \in DOMAIN ledger :
             (IF new[i].status = "DISBURSED" THEN new[i].owed ELSE 0)
                = OwedAmounts(ledger)[i] - Share(OwedAmounts(ledger), c, i)
        <3> TAKE i \in DOMAIN ledger
        <3>1. OwedAmounts(ledger)[i] = IF ledger[i].status = "DISBURSED" THEN ledger[i].owed ELSE 0
            BY DEF OwedAmounts
        <3> QED BY <1>1, <1>3, <3>1
    <2>2. OwedAmounts(new)
             = [i \in DOMAIN ledger |-> IF new[i].status = "DISBURSED" THEN new[i].owed ELSE 0]
        BY <1>2 DEF OwedAmounts
    <2>3. AfterShares(OwedAmounts(ledger), c)
             = [i \in DOMAIN ledger |-> OwedAmounts(ledger)[i] - Share(OwedAmounts(ledger), c, i)]
        BY AmountsType DEF AfterShares
    <2> QED BY <2>1, <2>2, <2>3, Zenon
<1>6. RepaidClear(ledger) => RepaidClear(new)
    <2> SUFFICES ASSUME RepaidClear(ledger), NEW i \in DOMAIN ledger, ledger[i].status = "REPAID"
                 PROVE  new[i].owed = 0 /\ new[i].penalty = 0
        BY <1>2, <1>3 DEF RepaidClear
    <2>1. ledger[i].owed = 0 /\ ledger[i].penalty = 0
        BY DEF RepaidClear
    <2> QED BY <1>1, <1>3, <2>1
<1> QED BY <1>4, <1>5, <1>6, AmountsType, WaterfallTakesAll DEF new

\* Settlement changes statuses only, of loans that owe nothing.
LEMMA SettleEffect ==
    ASSUME NEW ledger \in Seq(LoanRow)
    PROVE  /\ SettleFullyPaid(ledger) \in Seq(LoanRow)
           /\ OwedAmounts(SettleFullyPaid(ledger)) = OwedAmounts(ledger)
           /\ RepaidClear(ledger) => RepaidClear(SettleFullyPaid(ledger))
<1> DEFINE new == SettleFullyPaid(ledger)
<1>1. DOMAIN new = DOMAIN ledger
    BY DEF SettleFullyPaid
<1>2. ASSUME NEW i \in DOMAIN ledger
      PROVE  /\ new[i] \in LoanRow
             /\ new[i].owed = ledger[i].owed
             /\ new[i].penalty = ledger[i].penalty
             /\ new[i].status = IF ledger[i].owed = 0 /\ ledger[i].penalty = 0
                                THEN "REPAID" ELSE ledger[i].status
    <2>1. ledger[i] \in LoanRow
        BY LoanSeq
    <2>2. new[i] = [ledger[i] EXCEPT !.status =
                        IF ledger[i].owed = 0 /\ ledger[i].penalty = 0
                        THEN "REPAID" ELSE ledger[i].status]
        BY DEF SettleFullyPaid
    <2> QED BY <2>1, <2>2 DEF LoanRow
<1>3. new \in Seq(LoanRow)
    <2>1. new \in [1 .. Len(ledger) -> LoanRow]
        BY <1>1, <1>2, LoanSeq DEF SettleFullyPaid
    <2> QED BY <2>1, LoanSeq, SeqOfFunction
<1> HIDE DEF new
<1>4. OwedAmounts(new) = OwedAmounts(ledger)
    <2>1. \A i \in DOMAIN ledger :
             (IF new[i].status = "DISBURSED" THEN new[i].owed ELSE 0)
                = (IF ledger[i].status = "DISBURSED" THEN ledger[i].owed ELSE 0)
        BY <1>2, LoanSeq
    <2>2. OwedAmounts(new)
             = [i \in DOMAIN ledger |-> IF new[i].status = "DISBURSED" THEN new[i].owed ELSE 0]
        BY <1>1 DEF OwedAmounts
    <2> QED BY <2>1, <2>2, Zenon DEF OwedAmounts
<1>5. RepaidClear(ledger) => RepaidClear(new)
    BY <1>1, <1>2 DEF RepaidClear
<1> QED BY <1>3, <1>4, <1>5 DEF new

\* Two portfolios that differ in penalties alone owe the same contractual debt.
LEMMA OwedIgnoresPenalty ==
    ASSUME NEW ledger \in Seq(LoanRow), NEW new, DOMAIN new = DOMAIN ledger,
           \A i \in DOMAIN ledger :
              new[i].status = ledger[i].status /\ new[i].owed = ledger[i].owed
    PROVE  OwedAmounts(new) = OwedAmounts(ledger)
<1>1. \A i \in DOMAIN ledger :
         (IF new[i].status = "DISBURSED" THEN new[i].owed ELSE 0)
            = (IF ledger[i].status = "DISBURSED" THEN ledger[i].owed ELSE 0)
    OBVIOUS
<1>2. OwedAmounts(new)
         = [i \in DOMAIN ledger |-> IF new[i].status = "DISBURSED" THEN new[i].owed ELSE 0]
    BY DEF OwedAmounts
<1> QED BY <1>1, <1>2, Zenon DEF OwedAmounts

\* A waiver takes penalty only, and none from a loan that has none.
LEMMA WaiveEffect ==
    ASSUME NEW ledger \in Seq(LoanRow), NEW amount \in Nat
    PROVE  /\ WaiveOnLoans(ledger, amount) \in Seq(LoanRow)
           /\ OwedAmounts(WaiveOnLoans(ledger, amount)) = OwedAmounts(ledger)
           /\ RepaidClear(ledger) => RepaidClear(WaiveOnLoans(ledger, amount))
<1> DEFINE new == WaiveOnLoans(ledger, amount)
           taken(i) == Share(AllPenaltyAmounts(ledger), amount, i)
<1>1. DOMAIN new = DOMAIN ledger
    BY DEF WaiveOnLoans
<1>2. ASSUME NEW i \in DOMAIN ledger
      PROVE  /\ ledger[i].penalty - taken(i) \in Nat
             /\ ledger[i].penalty = 0 => ledger[i].penalty - taken(i) = 0
    <2>1. AllPenaltyAmounts(ledger)[i] = ledger[i].penalty
        BY DEF AllPenaltyAmounts
    <2>2. /\ AllPenaltyAmounts(ledger)[i] - taken(i) \in Nat
          /\ AllPenaltyAmounts(ledger)[i] = 0 => taken(i) = 0
        BY AmountsType, ShareBounds
    <2> QED BY <2>1, <2>2
<1>3. ASSUME NEW i \in DOMAIN ledger
      PROVE  /\ new[i] \in LoanRow
             /\ new[i].status = ledger[i].status
             /\ new[i].owed = ledger[i].owed
             /\ new[i].penalty = ledger[i].penalty - taken(i)
    <2>1. ledger[i] \in LoanRow
        BY LoanSeq
    <2>2. new[i] = [ledger[i] EXCEPT !.penalty = ledger[i].penalty - taken(i)]
        BY DEF WaiveOnLoans
    <2> QED BY <1>2, <2>1, <2>2 DEF LoanRow
<1>4. new \in Seq(LoanRow)
    <2>1. new \in [1 .. Len(ledger) -> LoanRow]
        BY <1>1, <1>3, LoanSeq DEF WaiveOnLoans
    <2> QED BY <2>1, LoanSeq, SeqOfFunction
<1> HIDE DEF new, taken
<1>5. OwedAmounts(new) = OwedAmounts(ledger)
    BY <1>1, <1>3, OwedIgnoresPenalty
<1>6. RepaidClear(ledger) => RepaidClear(new)
    BY <1>1, <1>2, <1>3 DEF RepaidClear
<1> QED BY <1>4, <1>5, <1>6 DEF new

\* A default charges a disbursed loan or none.
LEMMA ChargeEffect ==
    ASSUME NEW ledger \in Seq(LoanRow), NEW amount \in Nat
    PROVE  /\ ChargeOldest(ledger, amount) \in Seq(LoanRow)
           /\ OwedAmounts(ChargeOldest(ledger, amount)) = OwedAmounts(ledger)
           /\ RepaidClear(ledger) => RepaidClear(ChargeOldest(ledger, amount))
<1> DEFINE new == ChargeOldest(ledger, amount)
           oldest(i) == i \in Disbursed(ledger) /\ \A j \in Disbursed(ledger) : i <= j
<1>1. DOMAIN new = DOMAIN ledger
    BY DEF ChargeOldest
<1>2. ASSUME NEW i \in DOMAIN ledger
      PROVE  /\ new[i] \in LoanRow
             /\ new[i].status = ledger[i].status
             /\ new[i].owed = ledger[i].owed
             /\ ledger[i].status = "REPAID" => new[i].penalty = ledger[i].penalty
    <2>1. ledger[i] \in LoanRow /\ ledger[i].penalty \in Nat
        BY LoanSeq
    <2>2. new[i] = [ledger[i] EXCEPT !.penalty =
                        IF oldest(i) THEN ledger[i].penalty + amount ELSE ledger[i].penalty]
        BY DEF ChargeOldest
    <2>3. ledger[i].status = "REPAID" => ~ oldest(i)
        BY DEF Disbursed
    <2> DEFINE charged == IF oldest(i) THEN ledger[i].penalty + amount ELSE ledger[i].penalty
    <2> HIDE DEF oldest
    <2>4. charged \in Nat /\ (ledger[i].status = "REPAID" => charged = ledger[i].penalty)
        BY <2>1, <2>3
    <2>5. new[i] = [ledger[i] EXCEPT !.penalty = charged]
        BY <2>2
    <2> HIDE DEF charged, new
    <2> QED BY <2>1, <2>4, <2>5 DEF LoanRow
<1>3. new \in Seq(LoanRow)
    <2>1. new \in [1 .. Len(ledger) -> LoanRow]
        BY <1>1, <1>2, LoanSeq DEF ChargeOldest
    <2> QED BY <2>1, LoanSeq, SeqOfFunction
<1> HIDE DEF new
<1>4. OwedAmounts(new) = OwedAmounts(ledger)
    BY <1>1, <1>2, OwedIgnoresPenalty
<1>5. RepaidClear(ledger) => RepaidClear(new)
    BY <1>1, <1>2 DEF RepaidClear
<1> QED BY <1>3, <1>4, <1>5 DEF new

\* A new loan adds what it owes.
LEMMA NewLoanEffect ==
    ASSUME NEW ledger \in Seq(LoanRow), NEW total \in Nat
    PROVE  LET new == Append(ledger, [status |-> "DISBURSED", owed |-> total, penalty |-> 0])
           IN  /\ new \in Seq(LoanRow)
               /\ Total(OwedAmounts(new)) = Total(OwedAmounts(ledger)) + total
               /\ RepaidClear(ledger) => RepaidClear(new)
<1> DEFINE row == [status |-> "DISBURSED", owed |-> total, penalty |-> 0]
           new == Append(ledger, row)
<1>1. row \in LoanRow /\ row.status = "DISBURSED" /\ row.owed = total
    BY DEF LoanRow
<1> HIDE DEF row
<1>2. /\ new \in Seq(LoanRow)
      /\ Len(new) = Len(ledger) + 1
      /\ \A i \in 1 .. Len(ledger) : new[i] = ledger[i]
      /\ new[Len(ledger) + 1] = row
    BY <1>1, AppendProperties
<1> HIDE DEF new
<1>3. Len(ledger) \in Nat /\ DOMAIN ledger = 1 .. Len(ledger) /\ DOMAIN new = 1 .. Len(ledger) + 1
    BY <1>2, LoanSeq
<1>4. OwedAmounts(new) = Append(OwedAmounts(ledger), total)
    <2> DEFINE a == OwedAmounts(ledger)
               b == OwedAmounts(new)
    <2>1. a \in Seq(Nat) /\ b \in Seq(Nat) /\ Len(a) = Len(ledger) /\ Len(b) = Len(ledger) + 1
        BY <1>2, AmountsType
    <2>2. \A i \in 1 .. Len(ledger) : b[i] = a[i]
        BY <1>2, <1>3 DEF OwedAmounts
    <2>3. b[Len(ledger) + 1] = total
        BY <1>1, <1>2, <1>3 DEF OwedAmounts
    <2>4. /\ Append(a, total) \in Seq(Nat)
          /\ Len(Append(a, total)) = Len(ledger) + 1
          /\ \A i \in 1 .. Len(ledger) : Append(a, total)[i] = a[i]
          /\ Append(a, total)[Len(ledger) + 1] = total
        BY <2>1, AppendProperties
    <2> HIDE DEF a, b
    <2>5. \A i \in 1 .. Len(ledger) + 1 : b[i] = Append(a, total)[i]
        BY <1>3, <2>2, <2>3, <2>4
    <2>6. b = Append(a, total)
        BY <2>1, <2>4, <2>5, SeqEqual
    <2> QED BY <2>6 DEF a, b
<1>5. Total(OwedAmounts(new)) = Total(OwedAmounts(ledger)) + total
    BY <1>4, AmountsType, TotalAppend, SeqNatInt
<1>6. RepaidClear(ledger) => RepaidClear(new)
    BY <1>1, <1>2, <1>3 DEF RepaidClear
<1> QED BY <1>2, <1>5, <1>6 DEF new, row

\* A borrower without disbursed loans owes nothing.
LEMMA NoLoansOweNothing ==
    ASSUME NEW ledger \in Seq(LoanRow), Disbursed(ledger) = {}
    PROVE  Total(OwedAmounts(ledger)) = 0
<1>1. \A i \in 1 .. Len(OwedAmounts(ledger)) : OwedAmounts(ledger)[i] = 0
    BY AmountsType, LoanSeq DEF OwedAmounts, Disbursed
<1> QED BY <1>1, AmountsType, SeqNatInt, TotalZero

-----------------------------------------------------------------------------
(* Rows and references                                                     *)

\* The installments of a plan, by period.
RowMap == UNION {[D -> Installment] : D \in FiniteSubsetsOf(Int)}

Plan == [obligation : Nat, status : {"PUBLISHED", "SUPERSEDED"}, rows : RowMap]

Shapes ==
    /\ month \in Periods
    /\ official \in SUBSET Periods
    /\ loans \in Seq(LoanRow)
    /\ obligations \in Seq(Obligation)
    /\ baselined \in BOOLEAN /\ doubled \in BOOLEAN
    /\ plans \in Seq(Plan)
    /\ closing \in [period : Periods \cup {0}, todo : SUBSET Nat]
    /\ backfills \in [Workers -> {"idle", "listed", "clear"}]

\* Plans name obligations, current plans and the work list name plans.
PlanRefs(obs, ps) ==
    /\ \A k \in DOMAIN ps : ps[k].obligation \in DOMAIN obs
    /\ \A o \in DOMAIN obs : obs[o].currentPlan \in DOMAIN ps \cup {NoPlan}

TodoRefs(ps, work) ==
    work.todo \subseteq {k \in DOMAIN ps : work.period \in DOMAIN ps[k].rows}

-----------------------------------------------------------------------------
(* Months and counts                                                       *)

\* The payroll months are integers, finitely many.
LEMMA PeriodsFinite ==
    /\ IsFiniteSet(Periods)
    /\ Periods \subseteq Int
    /\ \A S \in SUBSET Periods : IsFiniteSet(S) /\ Cardinality(S) \in Nat
<1>1. IsFiniteSet(Periods) /\ Periods \subseteq Int
    BY FS_Interval, ConstantsAssumption DEF Periods
<1> QED BY <1>1, FS_Subset, FS_CardinalityType

\* Among one more candidate than there are official months, one is free.
LEMMA FreePeriodExists ==
    ASSUME NEW c \in Int, NEW off, IsFiniteSet(off)
    PROVE  \E m \in c .. c + Cardinality(off) : m \notin off
<1>1. Cardinality(off) \in Nat
    BY FS_CardinalityType
<1> DEFINE S == c .. c + Cardinality(off)
<1>2. Cardinality(S) = Cardinality(off) + 1
    BY <1>1, FS_Interval
<1> SUFFICES ASSUME S \subseteq off PROVE FALSE
    OBVIOUS
<1>3. Cardinality(S) <= Cardinality(off)
    BY FS_Subset
<1> QED BY <1>1, <1>2, <1>3

(***************************************************************************)
(* The search for the first open month always ends: its month is open and  *)
(* every month from the candidate up to it is official.                    *)
(***************************************************************************)
THEOREM FirstOpenPeriodFound ==
    ASSUME NEW c \in Int, NEW off, IsFiniteSet(off)
    PROVE  /\ FirstOpenPeriod(c, off) \in Int
           /\ FirstOpenPeriod(c, off) >= c
           /\ FirstOpenPeriod(c, off) \notin off
           /\ \A n \in c .. FirstOpenPeriod(c, off) - 1 : n \in off
<1>1. Cardinality(off) \in Nat
    BY FS_CardinalityType
<1> DEFINE First(m) == m \notin off /\ \A n \in c .. m - 1 : n \in off
           S == {n \in Nat : \E i \in 0 .. n : c + i \notin off /\ \A j \in 0 .. i - 1 : c + j \in off}
           T == {n \in Nat : (\A j \in 0 .. n : c + j \in off) \/ n \in S}
<1>2. 0 \in T
    OBVIOUS
<1>3. ASSUME NEW n \in Nat, n \in T
      PROVE  n + 1 \in T
    <2>1. CASE n \in S
        <3>1. 0 .. n \subseteq 0 .. n + 1
            OBVIOUS
        <3> QED BY <2>1, <3>1
    <2>2. CASE \A j \in 0 .. n : c + j \in off
        <3>1. CASE c + (n + 1) \in off
            <4>1. \A j \in 0 .. n + 1 : j \in 0 .. n \/ j = n + 1
                OBVIOUS
            <4> QED BY <2>2, <3>1, <4>1
        <3>2. CASE c + (n + 1) \notin off
            <4>1. n + 1 \in 0 .. n + 1 /\ (n + 1) - 1 = n
                OBVIOUS
            <4> QED BY <2>2, <3>2, <4>1
        <3> QED BY <3>1, <3>2
    <2> QED BY <1>3, <2>1, <2>2
<1>4. Nat \subseteq T
    <2> HIDE DEF T
    <2> QED BY <1>2, <1>3, SetInduction
<1>5. Cardinality(off) \in S
    <2>1. PICK m \in c .. c + Cardinality(off) : m \notin off
        BY FreePeriodExists
    <2>2. m - c \in 0 .. Cardinality(off) /\ c + (m - c) = m
        BY <1>1
    <2> QED BY <1>1, <1>4, <2>1, <2>2
<1>6. \E m \in c .. c + Cardinality(off) : First(m)
    <2>1. PICK i \in 0 .. Cardinality(off) :
             c + i \notin off /\ \A j \in 0 .. i - 1 : c + j \in off
        BY <1>5
    <2>2. c + i \in c .. c + Cardinality(off)
        BY <1>1
    <2>3. \A n \in c .. (c + i) - 1 : n \in off
        <3> TAKE n \in c .. (c + i) - 1
        <3>1. n - c \in 0 .. i - 1 /\ c + (n - c) = n
            BY <1>1
        <3> QED BY <2>1, <3>1
    <2> QED BY <2>1, <2>2, <2>3
<1> DEFINE f == FirstOpenPeriod(c, off)
<1>7. f \in c .. c + Cardinality(off) /\ First(f)
    BY <1>6 DEF FirstOpenPeriod
<1> QED BY <1>1, <1>7

-----------------------------------------------------------------------------
(* Plans and their rows                                                    *)

\* A plan has finitely many months, each with an installment.
LEMMA RowMapFacts ==
    ASSUME NEW rows \in RowMap
    PROVE  /\ IsFiniteSet(DOMAIN rows)
           /\ DOMAIN rows \subseteq Int
           /\ rows \in [DOMAIN rows -> Installment]
           /\ \A m \in DOMAIN rows : rows[m] \in Installment
<1>1. PICK D \in FiniteSubsetsOf(Int) : rows \in [D -> Installment]
    BY DEF RowMap
<1>2. DOMAIN rows = D
    BY <1>1
<1> QED BY <1>1, <1>2 DEF FiniteSubsetsOf

\* Installments over finitely many months make a row map.
LEMMA RowMapIntro ==
    ASSUME NEW D, IsFiniteSet(D), D \subseteq Int, NEW rows \in [D -> Installment]
    PROVE  rows \in RowMap
BY DEF RowMap, FiniteSubsetsOf

\* What membership in Seq(Plan) says of the plans.
LEMMA PlanFacts ==
    ASSUME NEW ps \in Seq(Plan)
    PROVE  /\ Len(ps) \in Nat
           /\ DOMAIN ps = 1 .. Len(ps)
           /\ \A k \in DOMAIN ps :
                 /\ ps[k] \in Plan
                 /\ ps[k].obligation \in Nat
                 /\ ps[k].rows \in RowMap
                 /\ IsFiniteSet(DOMAIN ps[k].rows)
                 /\ DOMAIN ps[k].rows \subseteq Int
                 /\ \A m \in DOMAIN ps[k].rows : ps[k].rows[m] \in Installment
<1>1. Len(ps) \in Nat /\ DOMAIN ps = 1 .. Len(ps)
    BY LenProperties
<1>2. \A k \in DOMAIN ps : ps[k] \in Plan
    BY <1>1, ElementOfSeq
<1>3. \A k \in DOMAIN ps : ps[k].obligation \in Nat /\ ps[k].rows \in RowMap
    BY <1>2 DEF Plan
<1> QED BY <1>1, <1>2, <1>3, RowMapFacts

\* `new' is `old' with plans added at most: what names a plan or a row still does.
Keeps(old, new) ==
    /\ Len(new) >= Len(old)
    /\ \A k \in DOMAIN old :
          /\ new[k].obligation = old[k].obligation
          /\ DOMAIN new[k].rows = DOMAIN old[k].rows

\* A work list still names rows when the plans are kept.
LEMMA KeepsRefs ==
    ASSUME NEW old \in Seq(Plan), NEW new \in Seq(Plan), Keeps(old, new),
           NEW work, TodoRefs(old, work)
    PROVE  TodoRefs(new, work) /\ DOMAIN old \subseteq DOMAIN new
<1>1. DOMAIN old \subseteq DOMAIN new
    BY PlanFacts DEF Keeps
<1> QED BY <1>1 DEF TodoRefs, Keeps

\* A plan whose rows are replaced by rows of the same months.
LEMMA SupersedeShape ==
    ASSUME NEW plan \in Plan, NEW from \in Int
    PROVE  /\ SupersedePlanned(plan, from) \in Plan
           /\ SupersedePlanned(plan, from).obligation = plan.obligation
           /\ SupersedePlanned(plan, from).status = plan.status
           /\ DOMAIN SupersedePlanned(plan, from).rows = DOMAIN plan.rows
<1> DEFINE D == DOMAIN plan.rows
           rows == [m \in D |->
                      IF m >= from /\ plan.rows[m].status = "PLANNED"
                      THEN [plan.rows[m] EXCEPT !.status = "SUPERSEDED"]
                      ELSE plan.rows[m]]
<1>1. plan.rows \in RowMap
    BY DEF Plan
<1>2. IsFiniteSet(D) /\ D \subseteq Int /\ \A m \in D : plan.rows[m] \in Installment
    BY <1>1, RowMapFacts
<1>3. \A m \in D : rows[m] \in Installment
    <2> TAKE m \in D
    <2>1. plan.rows[m] \in Installment
        BY <1>2
    <2>2. [plan.rows[m] EXCEPT !.status = "SUPERSEDED"] \in Installment
        BY <2>1 DEF Installment
    <2> QED BY <2>1, <2>2
<1>4. rows \in RowMap /\ DOMAIN rows = D
    <2>1. rows \in [D -> Installment]
        BY <1>3
    <2> QED BY <1>2, <2>1, RowMapIntro
<1>5. SupersedePlanned(plan, from) = [plan EXCEPT !.rows = rows]
    BY DEF SupersedePlanned
<1> HIDE DEF rows, D
<1>6. [plan EXCEPT !.rows = rows] \in Plan
    BY <1>4 DEF Plan
<1> QED BY <1>4, <1>5, <1>6 DEF Plan, D

\* A plan whose status alone changes is a plan with the same rows.
LEMMA StatusShape ==
    ASSUME NEW plan \in Plan, NEW status \in {"PUBLISHED", "SUPERSEDED"}
    PROVE  /\ [plan EXCEPT !.status = status] \in Plan
           /\ [plan EXCEPT !.status = status].obligation = plan.obligation
           /\ [plan EXCEPT !.status = status].rows = plan.rows
BY DEF Plan

\* Plans replaced one by one, by plans of the same months.
LEMMA PlanSeqIntro ==
    ASSUME NEW old \in Seq(Plan), NEW new, new = [k \in DOMAIN old |-> new[k]],
           \A k \in DOMAIN old :
              /\ new[k] \in Plan
              /\ new[k].obligation = old[k].obligation
              /\ DOMAIN new[k].rows = DOMAIN old[k].rows
    PROVE  new \in Seq(Plan) /\ Len(new) = Len(old) /\ Keeps(old, new)
<1>1. new \in [1 .. Len(old) -> Plan]
    BY PlanFacts
<1>2. new \in Seq(Plan) /\ Len(new) = Len(old)
    BY <1>1, PlanFacts, SeqOfFunction
<1> QED BY <1>2, PlanFacts DEF Keeps

\* Superseding the published plan keeps every plan and month.
LEMMA SupersedePublishedShape ==
    ASSUME NEW ps \in Seq(Plan), NEW o, NEW from \in Int
    PROVE  /\ SupersedePublished(ps, o, from) \in Seq(Plan)
           /\ Len(SupersedePublished(ps, o, from)) = Len(ps)
           /\ Keeps(ps, SupersedePublished(ps, o, from))
<1> DEFINE new == SupersedePublished(ps, o, from)
           superseded == [k \in DOMAIN ps |->
                            IF ps[k].obligation = o
                            THEN [SupersedePlanned(ps[k], from) EXCEPT !.status = "SUPERSEDED"]
                            ELSE ps[k]]
<1>1. \A k \in DOMAIN ps :
         /\ superseded[k] \in Plan
         /\ superseded[k].obligation = ps[k].obligation
         /\ DOMAIN superseded[k].rows = DOMAIN ps[k].rows
    <2> TAKE k \in DOMAIN ps
    <2>1. ps[k] \in Plan
        BY PlanFacts
    <2> DEFINE s == SupersedePlanned(ps[k], from)
    <2>2. s \in Plan /\ s.obligation = ps[k].obligation /\ DOMAIN s.rows = DOMAIN ps[k].rows
        BY <2>1, SupersedeShape
    <2> HIDE DEF s
    <2>3. /\ [s EXCEPT !.status = "SUPERSEDED"] \in Plan
          /\ [s EXCEPT !.status = "SUPERSEDED"].obligation = s.obligation
          /\ [s EXCEPT !.status = "SUPERSEDED"].rows = s.rows
        BY <2>2, StatusShape
    <2>4. superseded[k] = IF ps[k].obligation = o
                          THEN [s EXCEPT !.status = "SUPERSEDED"] ELSE ps[k]
        BY DEF s
    <2> QED BY <2>1, <2>2, <2>3, <2>4
<1>2. superseded = [k \in DOMAIN ps |-> superseded[k]]
    OBVIOUS
<1>3. new = superseded \/ new = ps
    BY DEF SupersedePublished
<1> HIDE DEF superseded, new
<1>4. superseded \in Seq(Plan) /\ Len(superseded) = Len(ps) /\ Keeps(ps, superseded)
    BY <1>1, <1>2, PlanSeqIntro
<1>5. Keeps(ps, ps)
    BY PlanFacts DEF Keeps
<1> QED BY <1>3, <1>4, <1>5 DEF new

\* An installment of calculateRepaymentPlan is an integer.
LEMMA ScheduledAmountInt ==
    ASSUME NEW balance \in Nat, NEW term \in Nat \ {0}, NEW sequence \in Int
    PROVE  ScheduledAmount(balance, term, sequence) \in Int
<1> DEFINE n == EffectiveTerm(balance, term)
<1>1. n \in Nat \ {0}
    BY DEF EffectiveTerm
<1> HIDE DEF n
<1>2. RoundHalfUp(balance, n) \in Int
    <2>1. 2 * balance + n \in Int /\ 2 * n \in Int /\ 2 * n > 0
        BY <1>1
    <2> QED BY <2>1 DEF RoundHalfUp
<1>3. ScheduledMonthly(balance, term) = RoundHalfUp(balance, n)
    BY DEF ScheduledMonthly, n
<1>4. (n - 1) * RoundHalfUp(balance, n) \in Int
    BY <1>1, <1>2
<1> QED BY <1>2, <1>3, <1>4 DEF ScheduledAmount, n

\* The rows publishPlan creates are installments of finitely many months.
LEMMA NewRowsShape ==
    ASSUME NEW contractual \in Nat, NEW penalty \in Nat, NEW term \in Nat \ {0}, NEW from \in Int
    PROVE  NewRows(contractual, penalty, term, from) \in RowMap
<1> DEFINE D == PlanPeriods(contractual, term, from)
           rows == NewRows(contractual, penalty, term, from)
<1>1. IsFiniteSet(D) /\ D \subseteq Int
    <2>1. from + EffectiveTerm(contractual, term) - 1 \in Int
        BY DEF EffectiveTerm
    <2> QED BY <2>1, FS_Interval DEF PlanPeriods
<1>2. \A m \in D : rows[m] \in Installment
    <2> TAKE m \in D
    <2>1. m - from + 1 \in Int
        BY <1>1
    <2>2. ScheduledAmount(contractual, term, m - from + 1) \in Int
        BY <2>1, ScheduledAmountInt
    <2>3. PenaltyDue(penalty, m - from + 1) \in Nat
        BY DEF PenaltyDue
    <2> QED BY <2>2, <2>3 DEF NewRows, Installment
<1>3. rows \in [D -> Installment]
    <2>1. rows = [m \in D |-> rows[m]]
        BY DEF NewRows
    <2> QED BY <1>2, <2>1
<1> QED BY <1>1, <1>3, RowMapIntro

\* `new' is `old' and one plan of obligation o.
Published(old, new, o) ==
    /\ new \in Seq(Plan)
    /\ Len(new) = Len(old) + 1
    /\ Keeps(old, new)
    /\ \A k \in DOMAIN new : k \in DOMAIN old \/ new[k].obligation = o
    /\ Len(old) + 1 \in DOMAIN new

(***************************************************************************)
(* Publishing appends one plan of the obligation and keeps the others'     *)
(* rows in their months.                                                   *)
(***************************************************************************)
LEMMA PublishPlanShape ==
    ASSUME NEW ps \in Seq(Plan), NEW o \in Nat, NEW contractual \in Nat, NEW penalty \in Nat,
           NEW term \in Nat \ {0}, NEW from \in Int
    PROVE  Published(ps, PublishPlan(ps, o, contractual, penalty, term, from), o)
<1> DEFINE old == SupersedePublished(ps, o, from)
           plan == [obligation |-> o, status |-> "PUBLISHED",
                    rows |-> NewRows(contractual, penalty, term, from)]
           new == Append(old, plan)
<1>1. plan \in Plan /\ plan.obligation = o
    BY NewRowsShape DEF Plan
<1>2. old \in Seq(Plan) /\ Len(old) = Len(ps) /\ Keeps(ps, old)
    BY SupersedePublishedShape
<1>3. PublishPlan(ps, o, contractual, penalty, term, from) = new
    BY DEF PublishPlan
<1> HIDE DEF plan, old
<1>4. /\ new \in Seq(Plan)
      /\ Len(new) = Len(old) + 1
      /\ \A k \in 1 .. Len(old) : new[k] = old[k]
      /\ new[Len(old) + 1] = plan
    BY <1>1, <1>2, AppendProperties
<1> HIDE DEF new
<1>5. Keeps(ps, new)
    BY <1>2, <1>4, PlanFacts DEF Keeps
<1>6. Len(ps) \in Nat /\ DOMAIN ps = 1 .. Len(ps) /\ DOMAIN new = 1 .. Len(ps) + 1
    BY <1>2, <1>4, PlanFacts
<1>7. \A k \in DOMAIN new : k \in DOMAIN ps \/ k = Len(ps) + 1
    BY <1>6
<1>8. Published(ps, new, o)
    BY <1>1, <1>2, <1>4, <1>5, <1>6, <1>7 DEF Published
<1> QED BY <1>3, <1>8

\* supersedeFuturePlanWithoutReplacement keeps every plan and month.
LEMMA WithdrawPlanShape ==
    ASSUME NEW ps \in Seq(Plan), NEW o, NEW current, NEW from \in Int
    PROVE  /\ WithdrawPlan(ps, o, current, from) \in Seq(Plan)
           /\ Len(WithdrawPlan(ps, o, current, from)) = Len(ps)
           /\ Keeps(ps, WithdrawPlan(ps, o, current, from))
<1> DEFINE new == WithdrawPlan(ps, o, current, from)
<1>1. \A k \in DOMAIN ps :
         /\ new[k] \in Plan
         /\ new[k].obligation = ps[k].obligation
         /\ DOMAIN new[k].rows = DOMAIN ps[k].rows
    <2> TAKE k \in DOMAIN ps
    <2>1. ps[k] \in Plan
        BY PlanFacts
    <2> DEFINE s == SupersedePlanned(ps[k], from)
               status == IF k = current THEN "SUPERSEDED" ELSE s.status
    <2>2. s \in Plan /\ s.obligation = ps[k].obligation /\ DOMAIN s.rows = DOMAIN ps[k].rows
        BY <2>1, SupersedeShape
    <2>3. new[k] = IF ps[k].obligation # o THEN ps[k] ELSE [s EXCEPT !.status = status]
        BY DEF WithdrawPlan
    <2> HIDE DEF s, new
    <2>4. status \in {"PUBLISHED", "SUPERSEDED"}
        BY <2>2 DEF Plan
    <2> HIDE DEF status
    <2>5. /\ [s EXCEPT !.status = status] \in Plan
          /\ [s EXCEPT !.status = status].obligation = s.obligation
          /\ [s EXCEPT !.status = status].rows = s.rows
        BY <2>2, <2>4, StatusShape
    <2> QED BY <2>1, <2>2, <2>3, <2>5
<1>2. new = [k \in DOMAIN ps |-> new[k]]
    BY DEF WithdrawPlan
<1> HIDE DEF new
<1>3. new \in Seq(Plan) /\ Len(new) = Len(ps) /\ Keeps(ps, new)
    BY <1>1, <1>2, PlanSeqIntro
<1> QED BY <1>3 DEF new

\* One row replaced by an installment.
LEMMA RowUpdateShape ==
    ASSUME NEW ps \in Seq(Plan), NEW k \in DOMAIN ps, NEW m \in DOMAIN ps[k].rows,
           NEW row \in Installment
    PROVE  /\ [ps EXCEPT ![k].rows[m] = row] \in Seq(Plan)
           /\ Len([ps EXCEPT ![k].rows[m] = row]) = Len(ps)
           /\ Keeps(ps, [ps EXCEPT ![k].rows[m] = row])
<1> DEFINE new == [ps EXCEPT ![k].rows[m] = row]
           rows == [ps[k].rows EXCEPT ![m] = row]
<1>1. rows \in RowMap /\ DOMAIN rows = DOMAIN ps[k].rows
    <2>1. rows \in [DOMAIN ps[k].rows -> Installment]
        BY PlanFacts, RowMapFacts
    <2> QED BY <2>1, PlanFacts, RowMapIntro
<1>2. \A j \in DOMAIN ps : new[j] = IF j = k THEN [ps[j] EXCEPT !.rows = rows] ELSE ps[j]
    OBVIOUS
<1>3. new = [j \in DOMAIN ps |-> new[j]]
    OBVIOUS
<1> HIDE DEF new, rows
<1>4. \A j \in DOMAIN ps :
         /\ new[j] \in Plan
         /\ new[j].obligation = ps[j].obligation
         /\ DOMAIN new[j].rows = DOMAIN ps[j].rows
    <2> TAKE j \in DOMAIN ps
    <2>1. ps[j] \in Plan
        BY PlanFacts
    <2>2. CASE j # k
        BY <1>2, <2>1, <2>2
    <2>3. CASE j = k
        <3>1. new[j] = [ps[j] EXCEPT !.rows = rows]
            BY <1>2, <2>3
        <3> QED BY <1>1, <2>1, <2>3, <3>1 DEF Plan
    <2> QED BY <2>2, <2>3
<1>5. new \in Seq(Plan) /\ Len(new) = Len(ps) /\ Keeps(ps, new)
    BY <1>3, <1>4, PlanSeqIntro
<1> QED BY <1>5 DEF new

-----------------------------------------------------------------------------
(* What the operations compute from the rows                               *)

\* What membership in Seq(Obligation) says of the obligations.
LEMMA ObligationFacts ==
    ASSUME NEW obs \in Seq(Obligation)
    PROVE  /\ Len(obs) \in Nat
           /\ DOMAIN obs = 1 .. Len(obs)
           /\ \A o \in DOMAIN obs :
                 /\ obs[o] \in Obligation
                 /\ obs[o].status \in {"ACTIVE", "SETTLED"}
                 /\ obs[o].contractual \in Nat
                 /\ obs[o].penalty \in Nat
                 /\ obs[o].credit \in Nat
                 /\ obs[o].currentPlan \in Nat
<1>1. Len(obs) \in Nat /\ DOMAIN obs = 1 .. Len(obs)
    BY LenProperties
<1>2. \A o \in DOMAIN obs : obs[o] \in Obligation
    BY <1>1, ElementOfSeq
<1> QED BY <1>1, <1>2 DEF Obligation

\* The first open month from one of the calendar's months on.
LEMMA FromInt ==
    ASSUME Shapes, NEW m \in Periods
    PROVE  FirstOpenPeriod(m, official) \in Int
BY FirstOpenPeriodFound, PeriodsFinite DEF Shapes

\* The rows still ahead in the current plan can be counted.
LEMMA CurrentRowsCount ==
    ASSUME Shapes, PlanRefs(obligations, plans), NEW o \in DOMAIN obligations,
           NEW from, NEW statuses
    PROVE  Cardinality(CurrentRows(o, from, statuses)) \in Nat
<1>1. CASE obligations[o].currentPlan = NoPlan
    BY <1>1, FS_EmptySet, FS_CardinalityType DEF CurrentRows
<1>2. CASE obligations[o].currentPlan # NoPlan
    <2> DEFINE rows == plans[obligations[o].currentPlan].rows
    <2>1. obligations[o].currentPlan \in DOMAIN plans
        BY <1>2 DEF PlanRefs
    <2>2. IsFiniteSet(DOMAIN rows)
        BY <2>1, PlanFacts DEF Shapes
    <2>3. CurrentRows(o, from, statuses) \in SUBSET DOMAIN rows
        BY <1>2 DEF CurrentRows
    <2> HIDE DEF rows
    <2> QED BY <2>2, <2>3, FS_Subset, FS_CardinalityType
<1> QED BY <1>1, <1>2

\* The remaining term is at least one month.
LEMMA RemainingTermPositive ==
    ASSUME Shapes, PlanRefs(obligations, plans), NEW o \in DOMAIN obligations, NEW from
    PROVE  RemainingTerm(o, from) \in Nat \ {0}
<1>1. Cardinality(CurrentRows(o, from, {"PLANNED", "PUBLISHED"})) \in Nat
    BY CurrentRowsCount
<1> QED BY <1>1 DEF RemainingTerm, Greatest

\* A set of <<plan, month>> pairs of existing rows is finite.
LEMMA CellsFinite ==
    ASSUME NEW ps \in Seq(Plan), NEW cells,
           \A c \in cells : \E k \in DOMAIN ps : \E m \in DOMAIN ps[k].rows : c = <<k, m>>
    PROVE  IsFiniteSet(cells) /\ Cardinality(cells) \in Nat
<1> DEFINE domains == {DOMAIN ps[k].rows : k \in DOMAIN ps}
<1>1. IsFiniteSet(DOMAIN ps)
    BY PlanFacts, FS_Interval
<1>2. IsFiniteSet(UNION domains)
    <2>1. IsFiniteSet(domains)
        <3> DEFINE f == [k \in DOMAIN ps |-> DOMAIN ps[k].rows]
        <3>1. f \in Surjection(DOMAIN ps, domains)
            BY DEF Surjection
        <3> HIDE DEF f, domains
        <3> QED BY <1>1, <3>1, FS_Surjection
    <2>2. \A D \in domains : IsFiniteSet(D)
        BY PlanFacts
    <2> HIDE DEF domains
    <2> QED BY <2>1, <2>2, FS_UNION
<1>3. cells \in SUBSET ((DOMAIN ps) \X UNION domains)
    OBVIOUS
<1>4. IsFiniteSet((DOMAIN ps) \X UNION domains)
    <2> HIDE DEF domains
    <2> QED BY <1>1, <1>2, FS_Product
<1> QED BY <1>3, <1>4, FS_Subset, FS_CardinalityType

\* Finitely many published rows claim part of the balances.
LEMMA FrozenFinite ==
    ASSUME Shapes, NEW o, NEW from
    PROVE  /\ IsFiniteSet(Frozen(o, from))
           /\ \A c \in Frozen(o, from) :
                 /\ c[1] \in DOMAIN plans
                 /\ c[2] \in DOMAIN plans[c[1]].rows
<1>1. ASSUME NEW c \in Frozen(o, from)
      PROVE  \E k \in DOMAIN plans : \E m \in DOMAIN plans[k].rows : c = <<k, m>>
    BY DEF Frozen, PlansOf
<1> QED BY <1>1, CellsFinite DEF Shapes

\* What published rows claim is a natural amount.
LEMMA FrozenNat ==
    ASSUME Shapes, NEW o, NEW from
    PROVE  FrozenContractual(o, from) \in Nat /\ FrozenPenalty(o, from) \in Nat
<1> DEFINE f == [c \in Frozen(o, from) |->
                    Floor0(plans[c[1]].rows[c[2]].scheduled - plans[c[1]].rows[c[2]].toContract)]
           g == [c \in Frozen(o, from) |->
                    Floor0(plans[c[1]].rows[c[2]].penaltyDue - plans[c[1]].rows[c[2]].toPenalty)]
<1>1. \A c \in Frozen(o, from) :
         /\ plans[c[1]].rows[c[2]].scheduled \in Int
         /\ plans[c[1]].rows[c[2]].toContract \in Int
         /\ plans[c[1]].rows[c[2]].penaltyDue \in Int
         /\ plans[c[1]].rows[c[2]].toPenalty \in Int
    <2> TAKE c \in Frozen(o, from)
    <2>1. plans[c[1]].rows[c[2]] \in Installment
        BY FrozenFinite, PlanFacts DEF Shapes
    <2> QED BY <2>1 DEF Installment
<1>2. \A n \in Int : Floor0(n) \in Nat
    BY DEF Floor0
<1>3. DOMAIN f = Frozen(o, from) /\ DOMAIN g = Frozen(o, from)
    OBVIOUS
<1>4. \A c \in Frozen(o, from) : f[c] \in Nat /\ g[c] \in Nat
    BY <1>1, <1>2
<1>5. FrozenContractual(o, from) = SumFunction(f) /\ FrozenPenalty(o, from) = SumFunction(g)
    BY DEF FrozenContractual, FrozenPenalty
<1> HIDE DEF f, g
<1> QED BY <1>3, <1>4, <1>5, FrozenFinite, FiniteSumNat

\* balancesAvailableForFuturePlan returns natural amounts.
LEMMA AvailableNat ==
    ASSUME Shapes, NEW o, NEW from, NEW contractual \in Nat, NEW penalty \in Nat
    PROVE  /\ Available(o, from, contractual, penalty).contractual \in Nat
           /\ Available(o, from, contractual, penalty).penalty \in Nat
<1>1. FrozenContractual(o, from) \in Nat /\ FrozenPenalty(o, from) \in Nat
    BY FrozenNat
<1> QED BY <1>1 DEF Available, FuturePlanBalances, Floor0

\* Months a default finds ahead, and with them the term of its plan.
LEMMA DefaultTermPositive ==
    ASSUME NEW ps \in Seq(Plan), NEW o
    PROVE  DefaultTerm(ps, o) \in Nat \ {0}
<1>1. \A c \in RowsAhead(ps, o, closing.period) :
         \E k \in DOMAIN ps : \E m \in DOMAIN ps[k].rows : c = <<k, m>>
    BY DEF RowsAhead
<1>2. Cardinality(RowsAhead(ps, o, closing.period)) \in Nat
    BY <1>1, CellsFinite
<1> QED BY <1>2 DEF DefaultTerm

-----------------------------------------------------------------------------
(* The inductive invariant                                                 *)

Contractuals(obs) == [o \in DOMAIN obs |-> obs[o].contractual]

\* What the loans owe is asked for once: one obligation is open, for all of it.
AskedOnce(obs, rows) ==
    /\ \A o, p \in DOMAIN obs : obs[o].status = "ACTIVE" /\ obs[p].status = "ACTIVE" => o = p
    /\ \A o \in DOMAIN obs : obs[o].status = "ACTIVE" => obs[o].contractual = Total(OwedAmounts(rows))

\* What the obligations tell of the debt in the loan rows.
Books(obs, rows, twice) ==
    /\ \A o \in DOMAIN obs : obs[o].status # "ACTIVE" => obs[o].contractual = 0
    /\ obs # <<>> => Total(OwedAmounts(rows)) <= Total(Contractuals(obs))
    /\ \A o, p, q \in DOMAIN obs :
          obs[o].status = "ACTIVE" /\ obs[p].status = "ACTIVE" /\ obs[q].status = "ACTIVE" =>
              o = p \/ p = q \/ o = q
    /\ ~twice => AskedOnce(obs, rows)

IInv ==
    /\ Shapes
    /\ PlanRefs(obligations, plans)
    /\ TodoRefs(plans, closing)
    /\ Books(obligations, loans, doubled)
    /\ doubled => baselined
    /\ RepaidClear(loans)

-----------------------------------------------------------------------------
(* How a step may change the two books                                     *)

Owed(rows) == Total(OwedAmounts(rows))

\* The loans owe a natural amount.
LEMMA OwedNat ==
    ASSUME NEW rows \in Seq(LoanRow)
    PROVE  Owed(rows) \in Nat
BY AmountsType, TotalNat DEF Owed

\* The contractual debts of the obligations are amounts.
LEMMA ContractualsType ==
    ASSUME NEW obs \in Seq(Obligation)
    PROVE  /\ Contractuals(obs) \in Seq(Nat)
           /\ Contractuals(obs) \in Seq(Int)
           /\ DOMAIN Contractuals(obs) = DOMAIN obs
           /\ Len(Contractuals(obs)) = Len(obs)
           /\ Total(Contractuals(obs)) \in Nat
<1>1. Contractuals(obs) \in [1 .. Len(obs) -> Nat] /\ Len(obs) \in Nat /\ DOMAIN obs = 1 .. Len(obs)
    BY ObligationFacts DEF Contractuals
<1> QED BY <1>1, SeqOfFunction, SeqNatInt, TotalNat

\* A new obligation adds what it asks for.
LEMMA ContractualsAppend ==
    ASSUME NEW obs \in Seq(Obligation), NEW ob \in Obligation
    PROVE  Total(Contractuals(Append(obs, ob))) = Total(Contractuals(obs)) + ob.contractual
<1> DEFINE new == Append(obs, ob)
           a == Contractuals(obs)
           b == Contractuals(new)
<1>1. /\ new \in Seq(Obligation)
      /\ Len(new) = Len(obs) + 1
      /\ \A o \in 1 .. Len(obs) : new[o] = obs[o]
      /\ new[Len(obs) + 1] = ob
    BY AppendProperties
<1>2. Len(obs) \in Nat /\ DOMAIN obs = 1 .. Len(obs) /\ DOMAIN new = 1 .. Len(obs) + 1
    BY <1>1, ObligationFacts
<1>3. ob.contractual \in Nat
    BY DEF Obligation
<1>4. a \in Seq(Int) /\ b \in Seq(Int) /\ Len(a) = Len(obs) /\ Len(b) = Len(obs) + 1
    BY <1>1, ContractualsType
<1>5. \A o \in 1 .. Len(obs) : b[o] = a[o]
    BY <1>1, <1>2 DEF Contractuals
<1>6. b[Len(obs) + 1] = ob.contractual
    BY <1>1, <1>2 DEF Contractuals
<1> HIDE DEF a, b
<1>7. /\ Append(a, ob.contractual) \in Seq(Int)
      /\ Len(Append(a, ob.contractual)) = Len(obs) + 1
      /\ \A o \in 1 .. Len(obs) : Append(a, ob.contractual)[o] = a[o]
      /\ Append(a, ob.contractual)[Len(obs) + 1] = ob.contractual
    BY <1>3, <1>4, AppendProperties
<1>8. \A o \in 1 .. Len(obs) + 1 : b[o] = Append(a, ob.contractual)[o]
    BY <1>2, <1>5, <1>6, <1>7
<1>9. b = Append(a, ob.contractual)
    BY <1>4, <1>7, <1>8, SeqEqual
<1> QED BY <1>3, <1>4, <1>9, TotalAppend DEF a, b

\* A changed obligation moves the total by its change.
LEMMA ContractualsUpdate ==
    ASSUME NEW obs \in Seq(Obligation), NEW o \in DOMAIN obs, NEW ob \in Obligation
    PROVE  Total(Contractuals([obs EXCEPT ![o] = ob]))
             = Total(Contractuals(obs)) - obs[o].contractual + ob.contractual
<1>1. ob.contractual \in Int
    BY DEF Obligation
<1>2. Contractuals(obs)[o] = obs[o].contractual
    BY DEF Contractuals
<1>3. Contractuals([obs EXCEPT ![o] = ob]) = [Contractuals(obs) EXCEPT ![o] = ob.contractual]
    BY DEF Contractuals
<1> QED BY <1>1, <1>2, <1>3, ContractualsType, TotalUpdate

(***************************************************************************)
(* A new obligation holds what the loans owe.  It may stand beside an open *)
(* one if that is the first time.                                          *)
(***************************************************************************)
LEMMA BooksAppend ==
    ASSUME NEW obs \in Seq(Obligation), NEW rows, NEW newRows, NEW twice \in BOOLEAN,
           Books(obs, rows, twice),
           NEW beside \in BOOLEAN,
           beside <=> \E o \in DOMAIN obs : obs[o].status = "ACTIVE",
           beside => ~ twice,
           NEW ob \in Obligation, ob.status = "ACTIVE", ob.contractual = Owed(newRows)
    PROVE  Books(Append(obs, ob), newRows, twice \/ beside)
<1> DEFINE new == Append(obs, ob)
           n == Len(obs) + 1
<1>1. /\ new \in Seq(Obligation)
      /\ Len(new) = n
      /\ \A o \in 1 .. Len(obs) : new[o] = obs[o]
      /\ new[n] = ob
    BY AppendProperties
<1>2. /\ Len(obs) \in Nat
      /\ DOMAIN obs = 1 .. Len(obs)
      /\ DOMAIN new = 1 .. n
    BY <1>1, ObligationFacts
<1>3. \A o \in DOMAIN new : o = n \/ (o \in DOMAIN obs /\ new[o] = obs[o])
    BY <1>1, <1>2
<1>4. Total(Contractuals(new)) = Total(Contractuals(obs)) + ob.contractual
    BY ContractualsAppend
<1> HIDE DEF new, n
<1>5. \A o \in DOMAIN new : new[o].status # "ACTIVE" => new[o].contractual = 0
    BY <1>1, <1>3 DEF Books
<1>6. Owed(newRows) <= Total(Contractuals(new))
    BY <1>4, ContractualsType DEF Obligation
<1>7. ASSUME NEW o \in DOMAIN new, NEW p \in DOMAIN new, NEW q \in DOMAIN new,
             new[o].status = "ACTIVE", new[p].status = "ACTIVE", new[q].status = "ACTIVE"
      PROVE  o = p \/ p = q \/ o = q
    <2>1. \A i, j \in DOMAIN obs : obs[i].status = "ACTIVE" /\ obs[j].status = "ACTIVE" => i = j
        BY DEF Books, AskedOnce
    <2> QED BY <1>3, <1>7, <2>1
<1>8. ASSUME ~ (twice \/ beside)
      PROVE  AskedOnce(new, newRows)
    <2>1. \A o \in DOMAIN new : new[o].status = "ACTIVE" => o = n
        BY <1>3, <1>8
    <2> QED BY <1>1, <2>1 DEF AskedOnce, Owed
<1> QED BY <1>5, <1>6, <1>7, <1>8 DEF Books, Owed, new

(***************************************************************************)
(* A changed obligation follows what the loans owe as long as it is open,  *)
(* and loses no more than the loans do.                                    *)
(***************************************************************************)
LEMMA BooksUpdate ==
    ASSUME NEW obs \in Seq(Obligation), NEW rows \in Seq(LoanRow), NEW newRows \in Seq(LoanRow),
           NEW twice \in BOOLEAN, Books(obs, rows, twice),
           NEW o \in DOMAIN obs, NEW ob \in Obligation,
           ob.status = "ACTIVE" => obs[o].status = "ACTIVE",
           ob.status = "SETTLED" => ob.contractual = 0,
           ~ twice /\ obs[o].status = "ACTIVE" => ob.contractual = Owed(newRows),
           ~ twice /\ obs[o].status # "ACTIVE" => Owed(newRows) = Owed(rows),
           Owed(newRows) = 0 \/ Owed(newRows) - Owed(rows) <= ob.contractual - obs[o].contractual
    PROVE  Books([obs EXCEPT ![o] = ob], newRows, twice)
<1> DEFINE new == [obs EXCEPT ![o] = ob]
<1>1. DOMAIN new = DOMAIN obs /\ \A p \in DOMAIN obs : new[p] = IF p = o THEN ob ELSE obs[p]
    OBVIOUS
<1>2. ob.status \in {"ACTIVE", "SETTLED"} /\ obs # <<>>
    BY ObligationFacts DEF Obligation
<1>t. Total(Contractuals(new)) = Total(Contractuals(obs)) - obs[o].contractual + ob.contractual
    BY ContractualsUpdate
<1>n. new \in Seq(Obligation)
    BY ExceptSeq
<1> HIDE DEF new
<1>3. \A p \in DOMAIN new : new[p].status = "ACTIVE" => obs[p].status = "ACTIVE"
    BY <1>1
<1>4. \A p \in DOMAIN new : new[p].status # "ACTIVE" => new[p].contractual = 0
    BY <1>1, <1>2 DEF Books
<1>5. \A p, q, r \in DOMAIN new :
         new[p].status = "ACTIVE" /\ new[q].status = "ACTIVE" /\ new[r].status = "ACTIVE" =>
             p = q \/ q = r \/ p = r
    BY <1>1, <1>3 DEF Books
<1>6. Owed(newRows) <= Total(Contractuals(new))
    <2>1. Owed(rows) <= Total(Contractuals(obs))
        BY <1>2 DEF Books, Owed
    <2>2. Total(Contractuals(new)) \in Nat /\ Total(Contractuals(obs)) \in Nat
        BY <1>n, ContractualsType
    <2>3. Owed(rows) \in Nat /\ Owed(newRows) \in Nat
        BY OwedNat
    <2>4. ob.contractual \in Nat /\ obs[o].contractual \in Nat
        BY ObligationFacts DEF Obligation
    <2>5. \A a, b, t, u, c, d \in Nat :
             /\ a <= t /\ u = t - c + d
             /\ b = 0 \/ b - a <= d - c
             => b <= u
        OBVIOUS
    <2>6. \/ Owed(newRows) = 0
          \/ Owed(newRows) - Owed(rows) <= ob.contractual - obs[o].contractual
        OBVIOUS
    <2> QED BY <1>t, <2>1, <2>2, <2>3, <2>4, <2>5, <2>6
<1>7. ASSUME ~ twice
      PROVE  AskedOnce(new, newRows)
    <2>1. AskedOnce(obs, rows)
        BY <1>7 DEF Books
    <2>2. \A p, q \in DOMAIN new :
             new[p].status = "ACTIVE" /\ new[q].status = "ACTIVE" => p = q
        BY <1>1, <1>3, <2>1 DEF AskedOnce
    <2>3. ASSUME NEW p \in DOMAIN new, new[p].status = "ACTIVE"
          PROVE  new[p].contractual = Owed(newRows)
        <3>1. CASE p = o
            BY <1>1, <1>3, <1>7, <2>3, <3>1
        <3>2. CASE p # o
            <4>1. new[p] = obs[p] /\ obs[p].status = "ACTIVE" /\ p \in DOMAIN obs
                BY <1>1, <2>3, <3>2
            <4>2. obs[o].status # "ACTIVE"
                BY <2>1, <3>2, <4>1 DEF AskedOnce
            <4> QED BY <1>7, <2>1, <4>1, <4>2 DEF AskedOnce, Owed
        <3> QED BY <3>1, <3>2
    <2> QED BY <2>2, <2>3 DEF AskedOnce, Owed
<1> QED BY <1>4, <1>5, <1>6, <1>7 DEF Books, Owed, new

\* A new obligation, named by the new plans only, keeps the references.
LEMMA RefsAppend ==
    ASSUME NEW obs \in Seq(Obligation), NEW ps \in Seq(Plan), NEW new \in Seq(Plan),
           PlanRefs(obs, ps), Keeps(ps, new), NEW ob \in Obligation,
           \A k \in DOMAIN new : k \in DOMAIN ps \/ new[k].obligation = Len(obs) + 1,
           ob.currentPlan \in DOMAIN new
    PROVE  PlanRefs(Append(obs, ob), new)
<1>1. /\ Append(obs, ob) \in Seq(Obligation)
      /\ Len(Append(obs, ob)) = Len(obs) + 1
      /\ \A o \in 1 .. Len(obs) : Append(obs, ob)[o] = obs[o]
      /\ Append(obs, ob)[Len(obs) + 1] = ob
    BY AppendProperties
<1>2. DOMAIN obs = 1 .. Len(obs) /\ Len(obs) \in Nat /\ DOMAIN Append(obs, ob) = 1 .. Len(obs) + 1
    BY <1>1, ObligationFacts
<1>3. DOMAIN ps \subseteq DOMAIN new
    BY PlanFacts DEF Keeps
<1>4. \A k \in DOMAIN new : new[k].obligation \in DOMAIN Append(obs, ob)
    BY <1>2 DEF PlanRefs, Keeps
<1>5. \A o \in DOMAIN Append(obs, ob) : Append(obs, ob)[o].currentPlan \in DOMAIN new \cup {NoPlan}
    <2> TAKE o \in DOMAIN Append(obs, ob)
    <2>1. CASE o = Len(obs) + 1
        BY <1>1, <2>1
    <2>2. CASE o # Len(obs) + 1
        <3>1. o \in DOMAIN obs /\ Append(obs, ob)[o] = obs[o]
            BY <1>1, <1>2, <2>2
        <3> QED BY <1>3, <3>1 DEF PlanRefs
    <2> QED BY <2>1, <2>2
<1> QED BY <1>4, <1>5 DEF PlanRefs

\* An obligation replaced together with its plans keeps the references.
LEMMA RefsUpdate ==
    ASSUME NEW obs \in Seq(Obligation), NEW ps \in Seq(Plan), NEW new \in Seq(Plan),
           PlanRefs(obs, ps), Keeps(ps, new), NEW o \in DOMAIN obs, NEW ob \in Obligation,
           \A k \in DOMAIN new : k \in DOMAIN ps \/ new[k].obligation \in DOMAIN obs,
           ob.currentPlan \in DOMAIN new \cup {NoPlan}
    PROVE  PlanRefs([obs EXCEPT ![o] = ob], new)
<1>1. DOMAIN [obs EXCEPT ![o] = ob] = DOMAIN obs
    OBVIOUS
<1>2. DOMAIN ps \subseteq DOMAIN new
    BY PlanFacts DEF Keeps
<1>3. \A k \in DOMAIN new : new[k].obligation \in DOMAIN obs
    BY DEF PlanRefs, Keeps
<1>4. \A p \in DOMAIN obs : [obs EXCEPT ![o] = ob][p].currentPlan \in DOMAIN new \cup {NoPlan}
    BY <1>2 DEF PlanRefs
<1> QED BY <1>1, <1>3, <1>4 DEF PlanRefs

-----------------------------------------------------------------------------
(* Steps                                                                   *)

\* A step that leaves the obligations and the loans alone.
LEMMA StepSame ==
    ASSUME IInv, obligations' = obligations, loans' = loans,
           month' \in Periods, official' \in SUBSET Periods,
           baselined' = baselined, doubled' = doubled,
           backfills' \in [Workers -> {"idle", "listed", "clear"}],
           plans' \in Seq(Plan), Len(plans') = Len(plans), Keeps(plans, plans'),
           closing' \in [period : Periods \cup {0}, todo : SUBSET Nat],
           TodoRefs(plans, closing')
    PROVE  IInv'
<1>1. Shapes'
    BY DEF IInv, Shapes
<1>2. DOMAIN plans' = DOMAIN plans
    BY PlanFacts DEF IInv, Shapes
<1>3. PlanRefs(obligations, plans)'
    BY <1>2 DEF IInv, PlanRefs, Keeps
<1>4. TodoRefs(plans, closing)'
    BY <1>2 DEF TodoRefs, Keeps
<1> QED BY <1>1, <1>3, <1>4 DEF IInv

\* A step that changes one obligation.
LEMMA StepUpdate ==
    ASSUME IInv, NEW o \in DOMAIN obligations, NEW ob \in Obligation,
           obligations' = [obligations EXCEPT ![o] = ob],
           month' = month, official' = official, baselined' = baselined,
           backfills' = backfills, doubled' = doubled,
           loans' \in Seq(LoanRow), RepaidClear(loans'),
           plans' \in Seq(Plan), Keeps(plans, plans'),
           \A k \in DOMAIN plans' :
              k \in DOMAIN plans \/ plans'[k].obligation \in DOMAIN obligations,
           ob.currentPlan \in DOMAIN plans' \cup {NoPlan},
           ob.status = "ACTIVE" => obligations[o].status = "ACTIVE",
           ob.status = "SETTLED" => ob.contractual = 0,
           ~ doubled /\ obligations[o].status = "ACTIVE" => ob.contractual = Owed(loans'),
           ~ doubled /\ obligations[o].status # "ACTIVE" => Owed(loans') = Owed(loans),
           \/ Owed(loans') = 0
           \/ Owed(loans') - Owed(loans) <= ob.contractual - obligations[o].contractual,
           closing' \in [period : Periods \cup {0}, todo : SUBSET Nat],
           TodoRefs(plans, closing')
    PROVE  IInv'
<1>1. obligations' \in Seq(Obligation)
    BY ExceptSeq DEF IInv, Shapes
<1>2. Shapes'
    BY <1>1 DEF IInv, Shapes
<1>3. PlanRefs(obligations', plans')
    BY RefsUpdate DEF IInv, Shapes
<1>4. TodoRefs(plans', closing')
    BY KeepsRefs DEF IInv, Shapes
<1>5. Books(obligations', loans', doubled')
    BY BooksUpdate DEF IInv, Shapes
<1> QED BY <1>2, <1>3, <1>4, <1>5 DEF IInv

\* A step that opens an obligation: beside an open one only by a key not yet used.
LEMMA StepAppend ==
    ASSUME IInv, NEW ob \in Obligation, obligations' = Append(obligations, ob),
           ob.status = "ACTIVE", ob.contractual = Owed(loans'),
           doubled' = (doubled \/ OpenObligations # {}),
           OpenObligations # {} => ~ baselined /\ baselined',
           baselined => baselined',
           month' = month, official' = official, baselined' \in BOOLEAN, closing' = closing,
           backfills' \in [Workers -> {"idle", "listed", "clear"}],
           loans' \in Seq(LoanRow), RepaidClear(loans'),
           plans' \in Seq(Plan), Keeps(plans, plans'),
           \A k \in DOMAIN plans' :
              k \in DOMAIN plans \/ plans'[k].obligation = Len(obligations) + 1,
           ob.currentPlan \in DOMAIN plans'
    PROVE  IInv'
<1>1. obligations' \in Seq(Obligation)
    BY AppendProperties DEF IInv, Shapes
<1>2. Shapes'
    BY <1>1 DEF IInv, Shapes
<1>3. PlanRefs(obligations', plans')
    BY RefsAppend DEF IInv, Shapes
<1>4. TodoRefs(plans', closing')
    BY KeepsRefs DEF IInv, Shapes
<1> DEFINE beside == OpenObligations # {}
<1>5. /\ beside \in BOOLEAN
      /\ beside <=> \E o \in DOMAIN obligations : obligations[o].status = "ACTIVE"
      /\ beside => ~ doubled
      /\ doubled' = (doubled \/ beside)
    BY DEF OpenObligations, Open, IInv
<1> HIDE DEF beside
<1>6. Books(obligations', loans', doubled \/ beside)
    BY <1>5, BooksAppend DEF IInv, Shapes
<1>7. Books(obligations', loans', doubled')
    BY <1>5, <1>6
<1>8. doubled' => baselined'
    BY <1>5 DEF IInv, beside
<1> QED BY <1>2, <1>3, <1>4, <1>7, <1>8 DEF IInv

-----------------------------------------------------------------------------
(* Each operation preserves the invariant                                  *)

\* The invariant holds at the start, whatever loans predate the obligations.
LEMMA InitEstablishes ==
    ASSUME Init
    PROVE  IInv
<1>1. loans \in Seq(LoanRow) /\ \A i \in DOMAIN loans : loans[i].status = "DISBURSED"
    <2> DEFINE Due == {row \in LoanRow : row.status = "DISBURSED"}
    <2>1. loans \in Seq(Due)
        BY ConstantsAssumption DEF Init
    <2>2. \A i \in DOMAIN loans : loans[i] \in Due
        <3> HIDE DEF Due
        <3> QED BY <2>1, LenProperties, ElementOfSeq
    <2>3. loans \in Seq(LoanRow)
        BY <2>1, SeqDef
    <2> QED BY <2>2, <2>3
<1>2. 1 \in Periods
    BY ConstantsAssumption DEF Periods
<1>3. plans = <<>> /\ obligations = <<>> /\ DOMAIN plans = {} /\ DOMAIN obligations = {}
    BY DEF Init
<1>4. Shapes
    <2>1. plans \in Seq(Plan) /\ obligations \in Seq(Obligation)
        BY <1>3, EmptySeq
    <2> QED BY <1>1, <1>2, <2>1 DEF Init, Shapes, NotClosing
<1>5. PlanRefs(obligations, plans) /\ Books(obligations, loans, doubled)
    BY <1>3 DEF PlanRefs, Books, AskedOnce
<1>6. RepaidClear(loans)
    BY <1>1 DEF RepaidClear
<1>7. TodoRefs(plans, closing) /\ ~ doubled
    BY DEF Init, TodoRefs, NotClosing
<1> QED BY <1>4, <1>5, <1>6, <1>7 DEF IInv

\* Plans that do not change are kept.
LEMMA SameKeeps ==
    ASSUME NEW ps \in Seq(Plan)
    PROVE  Keeps(ps, ps)
BY PlanFacts DEF Keeps

\* The clock reads no row.
LEMMA NextMonthPreserves ==
    ASSUME IInv, NextMonth
    PROVE  IInv'
<1>1. month' \in Periods
    BY ConstantsAssumption DEF NextMonth, IInv, Shapes, Periods
<1>2. Keeps(plans, plans)
    BY SameKeeps DEF IInv, Shapes
<1> QED BY <1>1, <1>2, StepSame DEF NextMonth, IInv, Shapes

\* A close that ends, or fails, only drops its work list.
LEMMA FinishClosingPreserves ==
    ASSUME IInv, closing' = NotClosing,
           UNCHANGED <<month, official, loans, obligations, baselined, plans, backfills, doubled>>
    PROVE  IInv'
<1>1. closing' \in [period : Periods \cup {0}, todo : SUBSET Nat] /\ TodoRefs(plans, closing')
    BY DEF NotClosing, TodoRefs
<1>2. Keeps(plans, plans)
    BY SameKeeps DEF IInv, Shapes
<1> QED BY <1>1, <1>2, StepSame DEF IInv, Shapes

\* The work list of a close names rows that exist.
LEMMA StartClosingPreserves ==
    ASSUME IInv, NEW m \in Periods, StartClosing(m)
    PROVE  IInv'
<1> DEFINE todo == UNION {Payable(o, m) : o \in DOMAIN obligations}
<1>1. \A k \in todo : k \in DOMAIN plans /\ m \in DOMAIN plans[k].rows
    BY DEF Payable, PlansOf
<1>2. closing' = [period |-> m, todo |-> todo]
    BY DEF StartClosing
<1> HIDE DEF todo
<1>3. todo \in SUBSET Nat
    <2>1. DOMAIN plans \subseteq Nat
        BY PlanFacts DEF IInv, Shapes
    <2> QED BY <1>1, <2>1
<1>4. closing' \in [period : Periods \cup {0}, todo : SUBSET Nat] /\ TodoRefs(plans, closing')
    <2>1. closing' \in [period : Periods \cup {0}, todo : SUBSET Nat]
        BY <1>2, <1>3
    <2>2. closing'.period = m /\ closing'.todo = todo
        BY <1>2
    <2> QED BY <1>1, <2>1, <2>2 DEF TodoRefs
<1>5. Keeps(plans, plans)
    BY SameKeeps DEF IInv, Shapes
<1> QED BY <1>4, <1>5, StepSame DEF StartClosing, IInv, Shapes

\* prepareVariationSchedule changes row statuses only.
LEMMA SubmitVariationPreserves ==
    ASSUME IInv, NEW m \in Periods, NEW onPayroll, SubmitVariation(m, onPayroll)
    PROVE  IInv'
<1> DEFINE listed == IF onPayroll THEN Eligible(m) ELSE {}
<1>1. \A k \in DOMAIN plans :
         /\ plans'[k] \in Plan
         /\ plans'[k].obligation = plans[k].obligation
         /\ DOMAIN plans'[k].rows = DOMAIN plans[k].rows
    <2> TAKE k \in DOMAIN plans
    <2>1. plans[k] \in Plan
        BY PlanFacts DEF IInv, Shapes
    <2>2. CASE k \notin listed
        BY <2>1, <2>2 DEF SubmitVariation
    <2>3. CASE k \in listed
        <3> DEFINE row == [plans[k].rows[m] EXCEPT !.status = "PUBLISHED"]
                   rows == [plans[k].rows EXCEPT ![m] = row]
        <3>1. m \in DOMAIN plans[k].rows
            BY <2>3 DEF Eligible
        <3>2. plans[k].rows[m] \in Installment
            BY <3>1, PlanFacts DEF IInv, Shapes
        <3>3. row \in Installment
            BY <3>2 DEF Installment
        <3>4. /\ IsFiniteSet(DOMAIN plans[k].rows)
              /\ DOMAIN plans[k].rows \subseteq Int
              /\ plans[k].rows \in [DOMAIN plans[k].rows -> Installment]
            BY PlanFacts, RowMapFacts DEF IInv, Shapes
        <3>5. plans'[k] = [plans[k] EXCEPT !.rows = rows]
            BY <2>3 DEF SubmitVariation
        <3> HIDE DEF row
        <3>6. rows \in [DOMAIN plans[k].rows -> Installment] /\ DOMAIN rows = DOMAIN plans[k].rows
            BY <3>3, <3>4
        <3> HIDE DEF rows
        <3>7. rows \in RowMap
            BY <3>4, <3>6, RowMapIntro
        <3> QED BY <2>1, <3>5, <3>6, <3>7 DEF Plan
    <2> QED BY <2>2, <2>3
<1>2. plans' = [k \in DOMAIN plans |-> plans'[k]]
    BY DEF SubmitVariation
<1>3. plans' \in Seq(Plan) /\ Len(plans') = Len(plans) /\ Keeps(plans, plans')
    BY <1>1, <1>2, PlanSeqIntro DEF IInv, Shapes
<1> QED BY <1>3, StepSame DEF SubmitVariation, IInv, Shapes

\* An entry of the work list names a row and its obligation.
LEMMA TodoRow ==
    ASSUME IInv, NEW k \in closing.todo
    PROVE  /\ k \in DOMAIN plans
           /\ closing.period \in DOMAIN plans[k].rows
           /\ plans[k].rows[closing.period] \in Installment
           /\ plans[k].obligation \in DOMAIN obligations
BY PlanFacts DEF IInv, Shapes, TodoRefs, PlanRefs

\* A work list that loses an entry still names rows.
LEMMA TodoShrinks ==
    ASSUME IInv, NEW k, closing' = [closing EXCEPT !.todo = @ \ {k}]
    PROVE  /\ closing' \in [period : Periods \cup {0}, todo : SUBSET Nat]
           /\ TodoRefs(plans, closing')
<1>1. closing.todo \in SUBSET Nat /\ closing' = [closing EXCEPT !.todo = closing.todo \ {k}]
    BY DEF IInv, Shapes
<1>2. closing'.period = closing.period /\ closing'.todo \subseteq closing.todo
    BY <1>1 DEF IInv, Shapes
<1> QED BY <1>1, <1>2 DEF IInv, Shapes, TodoRefs

\* Closing a row that was paid in full touches neither book.
LEMMA CloseSettledPreserves ==
    ASSUME IInv, NEW k \in closing.todo, CloseSettled(k)
    PROVE  IInv'
<1> DEFINE row == plans[k].rows[closing.period]
           new == [row EXCEPT !.status = "PAID", !.closed = TRUE]
<1>1. new \in Installment
    BY TodoRow DEF Installment
<1>2. plans' = [plans EXCEPT ![k].rows[closing.period] = new]
    BY DEF CloseSettled, CloseWith
<1> HIDE DEF new
<1>3. plans' \in Seq(Plan) /\ Len(plans') = Len(plans) /\ Keeps(plans, plans')
    <2> DEFINE m == closing.period
    <2>1. plans \in Seq(Plan) /\ k \in DOMAIN plans /\ m \in DOMAIN plans[k].rows
        BY TodoRow DEF IInv, Shapes
    <2>2. plans' = [plans EXCEPT ![k].rows[m] = new]
        BY <1>2
    <2> HIDE DEF m
    <2>3. /\ [plans EXCEPT ![k].rows[m] = new] \in Seq(Plan)
          /\ Len([plans EXCEPT ![k].rows[m] = new]) = Len(plans)
          /\ Keeps(plans, [plans EXCEPT ![k].rows[m] = new])
        BY <1>1, <2>1, RowUpdateShape
    <2> QED BY <2>2, <2>3
<1>4. closing' = [closing EXCEPT !.todo = @ \ {k}]
    BY DEF CloseSettled
<1> QED BY <1>3, <1>4, TodoShrinks, StepSame DEF CloseSettled, IInv, Shapes

\* What the invariant says of one obligation.
LEMMA BooksOf ==
    ASSUME IInv, NEW o \in DOMAIN obligations
    PROVE  /\ obligations[o] \in Obligation
           /\ ~ doubled /\ obligations[o].status = "ACTIVE" =>
                 obligations[o].contractual = Owed(loans)
           /\ obligations[o].status # "ACTIVE" => obligations[o].contractual = 0
           /\ obligations[o].contractual \in Nat
           /\ obligations[o].penalty \in Nat
           /\ obligations[o].credit \in Nat
           /\ obligations[o].currentPlan \in Nat
           /\ obligations[o].status \in {"ACTIVE", "SETTLED"}
           /\ o \in Nat
BY ObligationFacts DEF IInv, Shapes, Books, AskedOnce, Owed

\* An obligation whose current plan alone changes.
LEMMA PlanUpdate ==
    ASSUME NEW ob \in Obligation, NEW plan \in Nat
    PROVE  /\ [ob EXCEPT !.currentPlan = plan] \in Obligation
           /\ [ob EXCEPT !.currentPlan = plan].contractual = ob.contractual
           /\ [ob EXCEPT !.currentPlan = plan].penalty = ob.penalty
           /\ [ob EXCEPT !.currentPlan = plan].status = ob.status
           /\ [ob EXCEPT !.currentPlan = plan].currentPlan = plan
BY DEF Obligation

\* Obligation o became `ob', without its plan, and the loans became `rows'.
BooksMove(o, ob, rows) ==
    /\ ob \in Obligation
    /\ ob.status = "ACTIVE" => obligations[o].status = "ACTIVE"
    /\ ob.status = "SETTLED" => ob.contractual = 0
    /\ ~ doubled /\ obligations[o].status = "ACTIVE" => ob.contractual = Owed(rows)
    /\ ~ doubled /\ obligations[o].status # "ACTIVE" => Owed(rows) = Owed(loans)
    /\ Owed(rows) = 0 \/ Owed(rows) - Owed(loans) <= ob.contractual - obligations[o].contractual
    /\ rows \in Seq(LoanRow)
    /\ RepaidClear(rows)

Paid(o, ob, rows) ==
    /\ BooksMove(o, ob, rows)
    /\ ob.currentPlan = obligations[o].currentPlan
    /\ obligations[o].contractual > 0 /\ ob.contractual = 0 =>
          ob.status = "SETTLED" /\ ob.penalty = 0

(***************************************************************************)
(* A payment of at most the debt takes its penalty part and then its       *)
(* contractual part from both books alike.                                 *)
(***************************************************************************)
LEMMA PayEffect ==
    ASSUME IInv, NEW o \in DOMAIN obligations, NEW amount \in Nat, NEW applied \in Nat,
           applied <= amount, applied <= obligations[o].contractual + obligations[o].penalty
    PROVE  Paid(o, PayObligation(o, amount, applied), PayBorrowerLoans(o, applied))
<1> DEFINE was == obligations[o]
           pp == Least(applied, was.penalty)
           c == Floor0(was.contractual - (applied - pp))
           p == Floor0(was.penalty - pp)
           credit == was.credit + amount - applied
           status == StatusAfter(was.status, c, p)
           ob == PayObligation(o, amount, applied)
           rows == PayBorrowerLoans(o, applied)
           paid == PayLoans(loans, pp, applied - pp)
<1>1. /\ was \in Obligation /\ was.contractual \in Nat /\ was.penalty \in Nat
      /\ was.credit \in Nat /\ was.status \in {"ACTIVE", "SETTLED"}
      /\ ~ doubled /\ was.status = "ACTIVE" => was.contractual = Owed(loans)
      /\ was.status # "ACTIVE" => was.contractual = 0
    BY BooksOf
<1>2. ob = [was EXCEPT !.contractual = c, !.penalty = p, !.credit = credit, !.status = status]
    BY <1>1 DEF PayObligation, Obligation
<1>3. rows = SettleFullyPaid(paid)
    BY DEF PayBorrowerLoans
<1>l. loans \in Seq(LoanRow) /\ RepaidClear(loans) /\ Owed(loans) \in Nat
    BY OwedNat DEF IInv, Shapes
<1> HIDE DEF was, rows, ob
<1>4. /\ pp \in Nat /\ applied - pp \in Nat /\ c \in Nat /\ p \in Nat /\ credit \in Nat
      /\ was.contractual > 0 /\ c = 0 => p = 0
      /\ was.contractual = 0 => applied - pp = 0 /\ c = 0
    BY <1>1 DEF Least, Floor0, was
<1>5. /\ status \in {"ACTIVE", "SETTLED"}
      /\ status = "ACTIVE" => was.status = "ACTIVE"
      /\ status = "SETTLED" => c = 0
      /\ c = 0 /\ p = 0 => status = "SETTLED"
    BY <1>1, <1>4 DEF StatusAfter
<1>6. /\ paid \in Seq(LoanRow)
      /\ Owed(paid) = Floor0(Owed(loans) - (applied - pp))
      /\ RepaidClear(paid)
    <2> HIDE DEF pp
    <2> QED BY <1>4, <1>l, PayLoansEffect DEF Owed
<1> HIDE DEF paid
<1>7. rows \in Seq(LoanRow) /\ Owed(rows) = Owed(paid) /\ RepaidClear(rows)
    BY <1>3, <1>6, SettleEffect DEF Owed
<1>8. ~ doubled /\ was.status = "ACTIVE" => c = Owed(rows)
    BY <1>1, <1>6, <1>7
<1>9. was.status # "ACTIVE" => Owed(rows) = Owed(loans)
    BY <1>1, <1>4, <1>6, <1>7, <1>l DEF Floor0
<1>11. Owed(rows) = 0 \/ Owed(rows) - Owed(loans) <= c - was.contractual
    <2>1. c >= was.contractual - (applied - pp)
        BY <1>1, <1>4 DEF Floor0
    <2>2. Owed(rows) = 0 \/ Owed(rows) = Owed(loans) - (applied - pp)
        BY <1>4, <1>6, <1>7, <1>l DEF Floor0
    <2>3. was.contractual \in Nat /\ c \in Nat /\ applied - pp \in Nat
        BY <1>1, <1>4
    <2> DEFINE cp == applied - pp
               owed == Owed(loans)
               rest == Owed(rows)
               debt == was.contractual
    <2>4. debt \in Nat /\ c \in Nat /\ cp \in Nat /\ owed \in Nat
        BY <1>l, <2>3
    <2>5. c >= debt - cp /\ (rest = 0 \/ rest = owed - cp)
        BY <2>1, <2>2
    <2> HIDE DEF c, cp, owed, rest, debt
    <2>6. rest = 0 \/ rest - owed <= c - debt
        BY <2>4, <2>5
    <2> QED BY <2>6 DEF owed, rest, debt
<1> HIDE DEF c, p, credit, status
<1>10. /\ ob \in Obligation
       /\ ob.contractual = c /\ ob.penalty = p /\ ob.status = status
       /\ ob.currentPlan = was.currentPlan
    BY <1>1, <1>2, <1>4, <1>5 DEF Obligation
<1> QED BY <1>4, <1>5, <1>7, <1>8, <1>9, <1>10, <1>11 DEF Paid, BooksMove, was, ob, rows

(***************************************************************************)
(* What the loans take of a payment's contractual part: no more than it,   *)
(* and all of it until a second obligation asks for the same loans' debt.  *)
(***************************************************************************)
LEMMA TakenFacts ==
    ASSUME IInv, NEW o \in DOMAIN obligations, NEW applied \in Nat,
           applied <= obligations[o].contractual + obligations[o].penalty
    PROVE  LET rest == applied - Least(applied, obligations[o].penalty) IN
           /\ ContractualTaken(o, applied) \in Nat
           /\ ContractualTaken(o, applied) <= rest
           /\ ~ doubled => ContractualTaken(o, applied) = rest
<1> DEFINE rest == applied - Least(applied, obligations[o].penalty)
           taken == ContractualTaken(o, applied)
<1>1. /\ obligations[o].contractual \in Nat /\ obligations[o].penalty \in Nat
      /\ obligations[o].status # "ACTIVE" => obligations[o].contractual = 0
      /\ ~ doubled /\ obligations[o].status = "ACTIVE" => obligations[o].contractual = Owed(loans)
    BY BooksOf
<1>2. rest \in Nat /\ rest <= obligations[o].contractual
    BY <1>1 DEF Least
<1>3. loans \in Seq(LoanRow) /\ Owed(loans) \in Nat
    BY OwedNat DEF IInv, Shapes
<1> HIDE DEF rest
<1>4. taken = Least(rest, Owed(loans))
    <2>1. taken = Total(Shares(OwedAmounts(loans), rest))
        BY <1>3, AmountsType DEF ContractualTaken, Allocated, Shares, rest
    <2> QED BY <1>2, <1>3, <2>1, AmountsType, SharesTotal DEF Owed
<1>5. ~ doubled => rest <= Owed(loans)
    BY <1>1, <1>2, <1>3
<1> HIDE DEF taken
<1>6. taken \in Nat /\ taken <= rest /\ (~ doubled => taken = rest)
    BY <1>2, <1>3, <1>4, <1>5 DEF Least
<1> QED BY <1>6 DEF rest, taken

\* A move of the books that changes the plans as `Keeps' allows.
LEMMA StepMove ==
    ASSUME IInv, NEW o \in DOMAIN obligations, NEW ob,
           obligations' = [obligations EXCEPT ![o] = ob],
           BooksMove(o, ob, loans'),
           month' = month, official' = official, baselined' = baselined,
           backfills' = backfills, doubled' = doubled,
           plans' \in Seq(Plan), Keeps(plans, plans'),
           \A k \in DOMAIN plans' : k \in DOMAIN plans \/ plans'[k].obligation = o,
           ob.currentPlan \in DOMAIN plans' \cup {NoPlan},
           closing' \in [period : Periods \cup {0}, todo : SUBSET Nat],
           TodoRefs(plans, closing')
    PROVE  IInv'
BY StepUpdate DEF BooksMove

\* A move of the books may come with a new current plan.
LEMMA MoveWithPlan ==
    ASSUME NEW o, NEW ob, NEW rows, BooksMove(o, ob, rows), NEW plan \in Nat
    PROVE  /\ BooksMove(o, [ob EXCEPT !.currentPlan = plan], rows)
           /\ [ob EXCEPT !.currentPlan = plan].currentPlan = plan
BY PlanUpdate DEF BooksMove

\* A work list that does not change keeps its shape.
LEMMA ClosingUntouched ==
    ASSUME IInv, closing' = closing
    PROVE  /\ closing' \in [period : Periods \cup {0}, todo : SUBSET Nat]
           /\ TodoRefs(plans, closing')
BY DEF IInv, Shapes

\* What is left of an installment is a natural amount.
LEMMA RemainingDueNat ==
    ASSUME NEW row \in Installment
    PROVE  RemainingDue(row) \in Nat
<1>1. row.scheduled \in Int /\ row.penaltyDue \in Nat /\ row.paid \in Nat
    BY DEF Installment
<1> QED BY <1>1 DEF RemainingDue, TotalExpected, Floor0

\* An operation whose plan is replaced, or withdrawn when nothing is left to plan.
LEMMA ReplanPreserves ==
    ASSUME IInv, NEW o \in DOMAIN obligations, NEW ob, BooksMove(o, ob, loans'),
           NEW contractual \in Nat, NEW penalty \in Nat, NEW term \in Nat \ {0},
           NEW from \in Int, NEW current,
           IF contractual > 0 \/ penalty > 0
           THEN /\ plans' = PublishPlan(plans, o, contractual, penalty, term, from)
                /\ obligations' = [obligations EXCEPT
                       ![o] = [ob EXCEPT !.currentPlan = Len(plans) + 1]]
           ELSE /\ plans' = WithdrawPlan(plans, o, current, from)
                /\ obligations' = [obligations EXCEPT ![o] = [ob EXCEPT !.currentPlan = NoPlan]],
           UNCHANGED <<month, official, baselined, closing, backfills, doubled>>
    PROVE  IInv'
<1>1. plans \in Seq(Plan) /\ o \in Nat /\ Len(plans) + 1 \in Nat
    BY PlanFacts, BooksOf DEF IInv, Shapes
<1>2. CASE contractual > 0 \/ penalty > 0
    <2> DEFINE new == [ob EXCEPT !.currentPlan = Len(plans) + 1]
    <2>1. Published(plans, plans', o)
        BY <1>1, <1>2, PublishPlanShape
    <2>2. BooksMove(o, new, loans') /\ new.currentPlan = Len(plans) + 1
        BY <1>1, MoveWithPlan
    <2>3. obligations' = [obligations EXCEPT ![o] = new]
        BY <1>2
    <2> HIDE DEF new
    <2> QED BY <2>1, <2>2, <2>3, ClosingUntouched, StepMove DEF Published
<1>3. CASE ~ (contractual > 0 \/ penalty > 0)
    <2> DEFINE new == [ob EXCEPT !.currentPlan = NoPlan]
    <2>1. plans' \in Seq(Plan) /\ Len(plans') = Len(plans) /\ Keeps(plans, plans')
        BY <1>1, <1>3, WithdrawPlanShape
    <2>2. BooksMove(o, new, loans') /\ new.currentPlan = NoPlan
        BY MoveWithPlan DEF NoPlan
    <2>3. obligations' = [obligations EXCEPT ![o] = new]
        BY <1>3
    <2>4. DOMAIN plans' = DOMAIN plans
        BY <1>1, <2>1, PlanFacts
    <2> HIDE DEF new
    <2> QED BY <2>1, <2>2, <2>3, <2>4, ClosingUntouched, StepMove
<1> QED BY <1>2, <1>3

\* applyPayrollPayment: one row, one obligation and the loans.
LEMMA ApplyPayrollPaymentPreserves ==
    ASSUME IInv, NEW m \in Periods, NEW amount \in Nat, ApplyPayrollPayment(m, amount)
    PROVE  IInv'
<1> DEFINE o == Max(PayrollCandidates(m))
<1>1. PICK k \in Payable(o, m) :
         LET row      == plans[k].rows[m]
             received == Least(amount, RemainingDue(row))
             applied  == Least(received, obligations[o].contractual + obligations[o].penalty)
             penaltyPaid == Least(applied, obligations[o].penalty)
             paid     == row.paid + received
         IN /\ loans' = PayBorrowerLoans(o, applied)
            /\ obligations' = [obligations EXCEPT ![o] = PayObligation(o, amount, applied)]
            /\ plans' = [plans EXCEPT ![k].rows[m] =
                  [row EXCEPT !.paid = paid,
                              !.toPenalty = row.toPenalty + penaltyPaid,
                              !.toContract = row.toContract + ContractualTaken(o, applied),
                              !.status = IF paid >= TotalExpected(row) THEN "PAID" ELSE "PARTIAL"]]
    BY DEF ApplyPayrollPayment
<1> HIDE DEF o
<1> DEFINE row == plans[k].rows[m]
           received == Least(amount, RemainingDue(row))
           applied == Least(received, obligations[o].contractual + obligations[o].penalty)
           pp == Least(applied, obligations[o].penalty)
           taken == ContractualTaken(o, applied)
           paid == row.paid + received
           status == IF paid >= TotalExpected(row) THEN "PAID" ELSE "PARTIAL"
           new == [row EXCEPT !.paid = paid, !.toPenalty = row.toPenalty + pp,
                              !.toContract = row.toContract + taken, !.status = status]
<1>2. /\ k \in DOMAIN plans /\ m \in DOMAIN plans[k].rows /\ plans[k].obligation = o
      /\ plans \in Seq(Plan)
    BY <1>1 DEF Payable, PlansOf, IInv, Shapes
<1>3. o \in DOMAIN obligations /\ row \in Installment
    BY <1>2, PlanFacts DEF IInv, PlanRefs
<1>4. /\ obligations[o].contractual \in Nat /\ obligations[o].penalty \in Nat
      /\ obligations[o].currentPlan \in DOMAIN plans \cup {NoPlan}
    BY <1>3, BooksOf DEF IInv, PlanRefs
<1>5. RemainingDue(row) \in Nat
    BY <1>3, RemainingDueNat
<1>6. /\ received \in Nat /\ applied \in Nat /\ pp \in Nat /\ applied - pp \in Nat
      /\ applied <= amount
      /\ applied <= obligations[o].contractual + obligations[o].penalty
    <2> HIDE DEF row
    <2> QED BY <1>4, <1>5 DEF Least
<1>7. plans' = [plans EXCEPT ![k].rows[m] = new]
    BY <1>1
<1>8. loans' = PayBorrowerLoans(o, applied)
    BY <1>1
<1>9. obligations' = [obligations EXCEPT ![o] = PayObligation(o, amount, applied)]
    BY <1>1
<1>t. taken \in Nat
    BY <1>3, <1>6, TakenFacts
<1>10. new \in Installment
    <2>1. status \in {"PAID", "PARTIAL"}
        OBVIOUS
    <2> HIDE DEF row, received, applied, pp, taken, status
    <2>2. row.toPenalty + pp \in Nat /\ row.toContract + taken \in Nat /\ paid \in Nat
        BY <1>3, <1>6, <1>t DEF Installment
    <2> QED BY <1>3, <2>1, <2>2 DEF Installment
<1> HIDE DEF new, applied, received, pp
<1>11. plans' \in Seq(Plan) /\ Len(plans') = Len(plans) /\ Keeps(plans, plans')
    <2>1. /\ [plans EXCEPT ![k].rows[m] = new] \in Seq(Plan)
          /\ Len([plans EXCEPT ![k].rows[m] = new]) = Len(plans)
          /\ Keeps(plans, [plans EXCEPT ![k].rows[m] = new])
        BY <1>2, <1>10, RowUpdateShape
    <2> QED BY <1>7, <2>1
<1>12. Paid(o, PayObligation(o, amount, applied), loans')
    BY <1>3, <1>6, <1>8, PayEffect
<1>13. DOMAIN plans' = DOMAIN plans
    BY <1>2, <1>11, PlanFacts
<1>14. UNCHANGED <<month, official, baselined, closing, backfills, doubled>>
    BY DEF ApplyPayrollPayment
<1> QED BY <1>3, <1>4, <1>9, <1>11, <1>12, <1>13, <1>14, ClosingUntouched, StepMove DEF Paid

\* applyUnscheduledPayment: a payment and a plan over what is left.
LEMMA ApplyUnscheduledPaymentPreserves ==
    ASSUME IInv, NEW o \in DOMAIN obligations, NEW amount \in Nat,
           ApplyUnscheduledPayment(o, amount)
    PROVE  IInv'
<1> DEFINE from == FirstOpenPeriod(month, official)
           applied == Least(amount, obligations[o].contractual + obligations[o].penalty)
           paid == PayObligation(o, amount, applied)
           future == Available(o, from, paid.contractual, paid.penalty)
           term == RemainingTerm(o, from)
<1>1. /\ loans' = PayBorrowerLoans(o, applied)
      /\ UNCHANGED <<month, official, baselined, closing, backfills, doubled>>
    BY DEF ApplyUnscheduledPayment
<1>2. IF future.contractual > 0 \/ future.penalty > 0
      THEN /\ plans' = PublishPlan(plans, o, future.contractual, future.penalty, term, from)
           /\ obligations' = [obligations EXCEPT ![o] = [paid EXCEPT !.currentPlan = Len(plans) + 1]]
      ELSE /\ plans' = WithdrawPlan(plans, o, paid.currentPlan, from)
           /\ obligations' = [obligations EXCEPT ![o] = [paid EXCEPT !.currentPlan = NoPlan]]
    BY DEF ApplyUnscheduledPayment
<1>3. from \in Int
    BY FromInt DEF IInv, Shapes
<1>4. /\ applied \in Nat /\ applied <= amount
      /\ applied <= obligations[o].contractual + obligations[o].penalty
    BY BooksOf DEF Least
<1>5. term \in Nat \ {0}
    BY RemainingTermPositive DEF IInv
<1> HIDE DEF from, applied, paid, term
<1>6. BooksMove(o, paid, loans')
    BY <1>1, <1>4, PayEffect DEF Paid, paid
<1>7. paid.contractual \in Nat /\ paid.penalty \in Nat
    BY <1>6 DEF BooksMove, Obligation
<1>8. future.contractual \in Nat /\ future.penalty \in Nat
    BY <1>7, AvailableNat DEF IInv
<1> DEFINE fc == future.contractual
           fp == future.penalty
           current == paid.currentPlan
<1> HIDE DEF fc, fp, current
<1>9. IF fc > 0 \/ fp > 0
      THEN /\ plans' = PublishPlan(plans, o, fc, fp, term, from)
           /\ obligations' = [obligations EXCEPT ![o] = [paid EXCEPT !.currentPlan = Len(plans) + 1]]
      ELSE /\ plans' = WithdrawPlan(plans, o, current, from)
           /\ obligations' = [obligations EXCEPT ![o] = [paid EXCEPT !.currentPlan = NoPlan]]
    BY <1>2 DEF fc, fp, current
<1>10. fc \in Nat /\ fp \in Nat
    BY <1>8 DEF fc, fp
<1> QED BY <1>1, <1>3, <1>5, <1>6, <1>9, <1>10, ReplanPreserves

\* A waiver within the penalty moves no contractual debt in either book.
LEMMA WaiverMoves ==
    ASSUME IInv, NEW o \in DOMAIN obligations, NEW amount \in Nat,
           amount <= obligations[o].penalty,
           NEW waived,
           waived = [obligations[o] EXCEPT
                        !.penalty = obligations[o].penalty - amount,
                        !.status = StatusAfter(obligations[o].status, obligations[o].contractual,
                                               obligations[o].penalty - amount)]
    PROVE  /\ BooksMove(o, waived, WaiveOnLoans(loans, amount))
           /\ waived.contractual = obligations[o].contractual
           /\ waived.penalty = obligations[o].penalty - amount
<1> DEFINE was == obligations[o]
           p == was.penalty - amount
           status == StatusAfter(was.status, was.contractual, p)
           rows == WaiveOnLoans(loans, amount)
<1>1. /\ was \in Obligation /\ was.contractual \in Nat /\ was.penalty \in Nat
      /\ was.status \in {"ACTIVE", "SETTLED"}
      /\ ~ doubled /\ was.status = "ACTIVE" => was.contractual = Owed(loans)
      /\ was.status # "ACTIVE" => was.contractual = 0
    BY BooksOf
<1>2. waived = [was EXCEPT !.penalty = p, !.status = status]
    OBVIOUS
<1> HIDE DEF was, rows
<1>3. p \in Nat
    BY <1>1 DEF was
<1>4. /\ status \in {"ACTIVE", "SETTLED"}
      /\ status = "ACTIVE" => was.status = "ACTIVE"
      /\ status = "SETTLED" => was.contractual = 0
    BY <1>1 DEF StatusAfter
<1> HIDE DEF p, status
<1>5. /\ waived \in Obligation
      /\ waived.contractual = was.contractual /\ waived.penalty = p /\ waived.status = status
    BY <1>1, <1>2, <1>3, <1>4 DEF Obligation
<1>6. rows \in Seq(LoanRow) /\ Owed(rows) = Owed(loans) /\ RepaidClear(rows)
    BY WaiveEffect DEF IInv, Shapes, rows, Owed
<1>l. Owed(loans) \in Nat
    BY OwedNat DEF IInv, Shapes
<1>7. BooksMove(o, waived, rows)
    BY <1>1, <1>4, <1>5, <1>6, <1>l DEF BooksMove, was
<1> QED BY <1>5, <1>7 DEF was, p, rows

\* adjustPenalty: a waiver and a plan over what is left.
LEMMA AdjustPenaltyPreserves ==
    ASSUME IInv, NEW o \in DOMAIN obligations, NEW amount \in Nat, AdjustPenalty(o, amount)
    PROVE  IInv'
<1> DEFINE from == FirstOpenPeriod(month, official)
           ob == obligations[o]
           penalty == ob.penalty - amount
           future == Available(o, from, ob.contractual, penalty)
           term == Greatest(1, Cardinality(
                       CurrentRows(o, from, {"PLANNED", "PUBLISHED", "PARTIAL"})))
           waived == [ob EXCEPT !.penalty = penalty,
                                !.status = StatusAfter(ob.status, ob.contractual, penalty)]
<1>1. /\ amount <= ob.penalty
      /\ loans' = WaiveOnLoans(loans, amount)
      /\ UNCHANGED <<month, official, baselined, closing, backfills, doubled>>
    BY DEF AdjustPenalty
<1>2. IF future.contractual > 0 \/ future.penalty > 0
      THEN /\ plans' = PublishPlan(plans, o, future.contractual, future.penalty, term, from)
           /\ obligations' = [obligations EXCEPT ![o] = [waived EXCEPT !.currentPlan = Len(plans) + 1]]
      ELSE /\ plans' = WithdrawPlan(plans, o, ob.currentPlan, from)
           /\ obligations' = [obligations EXCEPT ![o] = [waived EXCEPT !.currentPlan = NoPlan]]
    BY DEF AdjustPenalty
<1>3. from \in Int
    BY FromInt DEF IInv, Shapes
<1>4. term \in Nat \ {0}
    <2>1. Cardinality(CurrentRows(o, from, {"PLANNED", "PUBLISHED", "PARTIAL"})) \in Nat
        BY CurrentRowsCount DEF IInv
    <2> QED BY <2>1 DEF Greatest
<1>5. ob.contractual \in Nat /\ ob.penalty \in Nat
    BY BooksOf
<1>6. penalty \in Nat
    BY <1>1, <1>5
<1>7. BooksMove(o, waived, loans')
    BY <1>1, WaiverMoves
<1> DEFINE fc == future.contractual
           fp == future.penalty
           current == ob.currentPlan
<1>8. fc \in Nat /\ fp \in Nat
    <2> HIDE DEF penalty, from
    <2> QED BY <1>5, <1>6, AvailableNat DEF IInv
<1> HIDE DEF from, penalty, term, waived, fc, fp, current
<1>9. IF fc > 0 \/ fp > 0
      THEN /\ plans' = PublishPlan(plans, o, fc, fp, term, from)
           /\ obligations' = [obligations EXCEPT ![o] = [waived EXCEPT !.currentPlan = Len(plans) + 1]]
      ELSE /\ plans' = WithdrawPlan(plans, o, current, from)
           /\ obligations' = [obligations EXCEPT ![o] = [waived EXCEPT !.currentPlan = NoPlan]]
    BY <1>2 DEF fc, fp, current
<1> QED BY <1>1, <1>3, <1>4, <1>7, <1>8, <1>9, ReplanPreserves

\* An obligation that only gets a new plan.
LEMMA PlanOnlyMoves ==
    ASSUME IInv, NEW o \in DOMAIN obligations
    PROVE  BooksMove(o, obligations[o], loans)
BY BooksOf, OwedNat DEF BooksMove, IInv, Shapes

\* approveTenureChange: a new plan and nothing else.
LEMMA ChangeTenurePreserves ==
    ASSUME IInv, NEW o \in DOMAIN obligations, NEW term \in Nat \ {0}, ChangeTenure(o, term)
    PROVE  IInv'
<1> DEFINE from == FirstOpenPeriod(month, official)
           future == Available(o, from, obligations[o].contractual, obligations[o].penalty)
           new == [obligations[o] EXCEPT !.currentPlan = Len(plans) + 1]
<1>1. /\ plans' = PublishPlan(plans, o, future.contractual, future.penalty, term, from)
      /\ obligations' = [obligations EXCEPT ![o] = new]
      /\ UNCHANGED <<month, official, loans, baselined, closing, backfills, doubled>>
    BY DEF ChangeTenure
<1>2. from \in Int
    BY FromInt DEF IInv, Shapes
<1> HIDE DEF from
<1>3. future.contractual \in Nat /\ future.penalty \in Nat
    BY BooksOf, AvailableNat DEF IInv
<1>4. plans \in Seq(Plan) /\ o \in Nat /\ Len(plans) + 1 \in Nat
    BY PlanFacts, BooksOf DEF IInv, Shapes
<1> HIDE DEF future
<1>5. Published(plans, plans', o)
    BY <1>1, <1>2, <1>3, <1>4, PublishPlanShape
<1>6. BooksMove(o, new, loans') /\ new.currentPlan = Len(plans) + 1
    BY <1>1, <1>4, PlanOnlyMoves, MoveWithPlan
<1> HIDE DEF new
<1> QED BY <1>1, <1>5, <1>6, ClosingUntouched, StepMove DEF Published

-----------------------------------------------------------------------------
(* New loans                                                               *)

\* A disbursed loan adds its repayable amount to what the loans owe.
LEMMA AddLoanEffect ==
    ASSUME IInv, NEW total \in Nat, AddLoan(total)
    PROVE  /\ loans' \in Seq(LoanRow)
           /\ Owed(loans') = Owed(loans) + total
           /\ RepaidClear(loans')
<1>1. loans \in Seq(LoanRow) /\ RepaidClear(loans)
    BY DEF IInv, Shapes
<1> QED BY <1>1, NewLoanEffect DEF AddLoan, Owed

\* A new obligation is open and holds the balances it is given.
LEMMA NewObligationShape ==
    ASSUME NEW contractual \in Nat, NEW penalty \in Nat, NEW plan \in Nat
    PROVE  /\ NewObligation(contractual, penalty, plan) \in Obligation
           /\ NewObligation(contractual, penalty, plan).status = "ACTIVE"
           /\ NewObligation(contractual, penalty, plan).contractual = contractual
           /\ NewObligation(contractual, penalty, plan).currentPlan = plan
BY DEF NewObligation, Obligation

\* Keeping the plans composes.
LEMMA KeepsTwice ==
    ASSUME NEW a \in Seq(Plan), NEW b \in Seq(Plan), NEW c \in Seq(Plan), Keeps(a, b), Keeps(b, c)
    PROVE  Keeps(a, c)
<1>1. /\ Len(a) \in Nat /\ Len(b) \in Nat /\ Len(c) \in Nat
      /\ DOMAIN a = 1 .. Len(a) /\ DOMAIN b = 1 .. Len(b)
    BY PlanFacts
<1>2. DOMAIN a \subseteq DOMAIN b
    BY <1>1 DEF Keeps
<1> QED BY <1>1, <1>2 DEF Keeps

\* The balances a baseline starts from are natural amounts.
LEMMA LoansOweNat ==
    ASSUME IInv
    PROVE  LoansOwe \in Nat /\ LoansOwe = Owed(loans) /\ LoansOwePenalty \in Nat
<1>1. loans \in Seq(LoanRow)
    BY DEF IInv, Shapes
<1>2. PenaltyAmounts(loans) \in Seq(Nat) /\ OwedAmounts(loans) \in Seq(Nat)
    BY <1>1, AmountsType
<1> QED BY <1>2, TotalNat DEF LoansOwe, LoansOwePenalty, Owed

\* What a backfill does before its transaction, or after it, is not seen in the accounts.
LEMMA BackfillLooks ==
    ASSUME IInv, NEW w \in Workers, ListBorrower(w) \/ FindNoneOpen(w) \/ BackfillEnds(w)
    PROVE  IInv'
<1>1. /\ backfills' \in [Workers -> {"idle", "listed", "clear"}]
      /\ UNCHANGED <<month, official, loans, obligations, baselined, plans, closing, doubled>>
    BY DEF ListBorrower, FindNoneOpen, BackfillEnds, BackfillStep, IInv, Shapes
<1>2. Keeps(plans, plans)
    BY SameKeeps DEF IInv, Shapes
<1> QED BY <1>1, <1>2, ClosingUntouched, StepSame DEF IInv, Shapes

(***************************************************************************)
(* createBaselineObligation: an obligation over the disbursed loans, maybe *)
(* beside an open one; then the key was not yet used.                      *)
(***************************************************************************)
LEMMA CreateBaselinePreserves ==
    ASSUME IInv, NEW w \in Workers, NEW term \in Nat \ {0}, NEW from \in Int,
           CreateBaseline(w, term, from)
    PROVE  IInv'
<1> DEFINE o == Len(obligations) + 1
           ob == NewObligation(LoansOwe, LoansOwePenalty, Len(plans) + 1)
<1>1. /\ plans' = PublishPlan(plans, o, LoansOwe, LoansOwePenalty, term, from)
      /\ obligations' = Append(obligations, ob)
      /\ ~ baselined /\ baselined' = TRUE
      /\ doubled' = (doubled \/ OpenObligations # {})
      /\ UNCHANGED <<month, official, loans, closing>>
    BY DEF CreateBaseline, BaselinePossible
<1>b. backfills' \in [Workers -> {"idle", "listed", "clear"}]
    BY DEF CreateBaseline, BackfillStep, IInv, Shapes
<1>2. LoansOwe \in Nat /\ LoansOwe = Owed(loans) /\ LoansOwePenalty \in Nat
    BY LoansOweNat
<1>3. plans \in Seq(Plan) /\ o \in Nat /\ Len(plans) + 1 \in Nat
    BY PlanFacts, ObligationFacts DEF IInv, Shapes
<1>4. Published(plans, plans', o)
    BY <1>1, <1>2, <1>3, PublishPlanShape
<1>5. /\ ob \in Obligation /\ ob.status = "ACTIVE"
      /\ ob.contractual = LoansOwe /\ ob.currentPlan = Len(plans) + 1
    <2>1. LoansOwe \in Nat /\ LoansOwePenalty \in Nat /\ Len(plans) + 1 \in Nat
        BY <1>2, <1>3
    <2> QED BY <2>1, NewObligationShape
<1>6. loans' \in Seq(LoanRow) /\ RepaidClear(loans')
    BY <1>1 DEF IInv, Shapes
<1> HIDE DEF ob
<1> QED BY <1>1, <1>b, <1>2, <1>4, <1>5, <1>6, StepAppend DEF Published

\* disburseAdvance for a borrower with no disbursed loan.
LEMMA DisburseFirstPreserves ==
    ASSUME IInv, NEW total \in Nat, NEW tenure \in Nat \ {0}, DisburseFirst(total, tenure)
    PROVE  IInv'
<1> DEFINE o == Len(obligations) + 1
           from == FirstOpenPeriod(month, official)
           ob == NewObligation(total, 0, Len(plans) + 1)
<1>1. /\ plans' = PublishPlan(plans, o, total, 0, tenure, from)
      /\ obligations' = Append(obligations, ob)
      /\ OpenObligations = {}
      /\ Disbursed(loans) = {}
      /\ AddLoan(total)
      /\ UNCHANGED <<month, official, baselined, closing, backfills, doubled>>
    BY DEF DisburseFirst, NoneOpen
<1>2. from \in Int
    BY FromInt DEF IInv, Shapes
<1>3. plans \in Seq(Plan) /\ o \in Nat /\ Len(plans) + 1 \in Nat
    BY PlanFacts, ObligationFacts DEF IInv, Shapes
<1> HIDE DEF from
<1>4. Published(plans, plans', o)
    BY <1>1, <1>2, <1>3, PublishPlanShape
<1>5. /\ ob \in Obligation /\ ob.status = "ACTIVE"
      /\ ob.contractual = total /\ ob.currentPlan = Len(plans) + 1
    BY <1>3, NewObligationShape
<1>6. loans' \in Seq(LoanRow) /\ RepaidClear(loans') /\ Owed(loans') = total
    <2>1. Owed(loans) = 0
        BY <1>1, NoLoansOweNothing DEF Owed, IInv, Shapes
    <2> QED BY <1>1, <2>1, AddLoanEffect
<1>7. /\ baselined' \in BOOLEAN /\ (baselined => baselined')
      /\ doubled' = (doubled \/ OpenObligations # {})
      /\ backfills' \in [Workers -> {"idle", "listed", "clear"}]
    BY <1>1 DEF IInv, Shapes
<1> HIDE DEF ob
<1> QED BY <1>1, <1>4, <1>5, <1>6, <1>7, StepAppend DEF Published

\* disburseAdvance over legacy loans: two plans in one transaction.
LEMMA DisburseOnLegacyPreserves ==
    ASSUME IInv, NEW total \in Nat, NEW tenure \in Nat \ {0}, NEW legacyTerm \in Nat \ {0},
           NEW isTopup, DisburseOnLegacy(total, tenure, legacyTerm, isTopup)
    PROVE  IInv'
<1> DEFINE o == Len(obligations) + 1
           from == FirstOpenPeriod(month, official)
           baseline == PublishPlan(plans, o, LoansOwe, LoansOwePenalty, legacyTerm, month)
           term == ConsolidatedTerm(isTopup, EffectiveTerm(LoansOwe, legacyTerm), tenure)
           ob == NewObligation(LoansOwe + total, LoansOwePenalty, Len(plans) + 2)
<1>1. /\ plans' = PublishPlan(baseline, o, LoansOwe + total, LoansOwePenalty, term, from)
      /\ obligations' = Append(obligations, ob)
      /\ OpenObligations = {}
      /\ AddLoan(total)
      /\ baselined' = TRUE
      /\ UNCHANGED <<month, official, closing, backfills, doubled>>
    BY DEF DisburseOnLegacy, NoneOpen
<1>2. from \in Int /\ month \in Int
    BY FromInt, PeriodsFinite DEF IInv, Shapes
<1>3. LoansOwe \in Nat /\ LoansOwe = Owed(loans) /\ LoansOwePenalty \in Nat
    BY LoansOweNat
<1>4. term \in Nat \ {0}
    BY DEF ConsolidatedTerm, Greatest, EffectiveTerm
<1>5. /\ plans \in Seq(Plan) /\ o \in Nat /\ Len(plans) \in Nat /\ LoansOwe + total \in Nat
    BY <1>3, PlanFacts, ObligationFacts DEF IInv, Shapes
<1> HIDE DEF from, term
<1>6. Published(plans, baseline, o)
    BY <1>2, <1>3, <1>5, PublishPlanShape
<1> HIDE DEF baseline
<1>7. Published(baseline, plans', o)
    <2>1. baseline \in Seq(Plan)
        BY <1>6 DEF Published
    <2> QED BY <1>1, <1>2, <1>3, <1>4, <1>5, <2>1, PublishPlanShape
<1>8. /\ Keeps(plans, plans') /\ plans' \in Seq(Plan)
      /\ Len(plans) + 2 \in DOMAIN plans'
      /\ \A k \in DOMAIN plans' : k \in DOMAIN plans \/ plans'[k].obligation = o
    <2>1. Keeps(plans, plans')
        BY <1>5, <1>6, <1>7, KeepsTwice DEF Published
    <2>2. Len(plans) + 2 \in DOMAIN plans'
        BY <1>5, <1>6, <1>7 DEF Published
    <2>3. \A k \in DOMAIN baseline : plans'[k].obligation = baseline[k].obligation
        BY <1>7 DEF Published, Keeps
    <2> QED BY <1>6, <1>7, <2>1, <2>2, <2>3 DEF Published
<1>9. /\ ob \in Obligation /\ ob.status = "ACTIVE"
      /\ ob.contractual = LoansOwe + total /\ ob.currentPlan = Len(plans) + 2
    <2> DEFINE contractual == LoansOwe + total
               plan == Len(plans) + 2
    <2>1. contractual \in Nat /\ LoansOwePenalty \in Nat /\ plan \in Nat
        BY <1>3, <1>5
    <2> HIDE DEF contractual, plan
    <2>2. /\ NewObligation(contractual, LoansOwePenalty, plan) \in Obligation
          /\ NewObligation(contractual, LoansOwePenalty, plan).status = "ACTIVE"
          /\ NewObligation(contractual, LoansOwePenalty, plan).contractual = contractual
          /\ NewObligation(contractual, LoansOwePenalty, plan).currentPlan = plan
        BY <2>1, NewObligationShape
    <2> QED BY <2>2, Zenon DEF contractual, plan
<1>10. loans' \in Seq(LoanRow) /\ RepaidClear(loans') /\ Owed(loans') = LoansOwe + total
    BY <1>1, <1>3, AddLoanEffect
<1>11. /\ doubled' = (doubled \/ OpenObligations # {})
       /\ backfills' \in [Workers -> {"idle", "listed", "clear"}]
    BY <1>1 DEF IInv, Shapes
<1> HIDE DEF ob
<1> QED BY <1>1, <1>8, <1>9, <1>10, <1>11, StepAppend

\* disburseAdvance on the open obligation.
LEMMA DisburseTopUpPreserves ==
    ASSUME IInv, NEW o \in DOMAIN obligations, NEW total \in Nat, NEW tenure \in Nat \ {0},
           NEW isTopup, DisburseTopUp(o, total, tenure, isTopup)
    PROVE  IInv'
<1> DEFINE from == FirstOpenPeriod(month, official)
           term == ConsolidatedTerm(isTopup, RemainingTerm(o, from), tenure)
           future == Available(o, from, obligations[o].contractual, obligations[o].penalty)
           more == [obligations[o] EXCEPT !.contractual = obligations[o].contractual + total]
           new == [more EXCEPT !.currentPlan = Len(plans) + 1]
<1>1. /\ plans' = PublishPlan(plans, o, future.contractual + total, future.penalty, term, from)
      /\ AddLoan(total)
      /\ Open(o)
      /\ UNCHANGED <<month, official, baselined, closing, backfills, doubled>>
    BY DEF DisburseTopUp
<1>2. /\ obligations[o] \in Obligation /\ obligations[o].contractual \in Nat
      /\ obligations[o].penalty \in Nat /\ o \in Nat
      /\ obligations[o].status = "ACTIVE"
      /\ ~ doubled => obligations[o].contractual = Owed(loans)
      /\ Owed(loans) \in Nat
    BY <1>1, BooksOf, OwedNat DEF Open, IInv, Shapes
<1>3. obligations' = [obligations EXCEPT ![o] = new]
    <2>1. obligations' = [obligations EXCEPT
             ![o].contractual = @ + total, ![o].currentPlan = Len(plans) + 1]
        BY DEF DisburseTopUp
    <2>2. obligations \in [DOMAIN obligations -> Obligation]
        BY LoanSeq, ObligationFacts DEF IInv, Shapes
    <2> QED BY <1>2, <2>1, <2>2 DEF Obligation
<1>4. from \in Int
    BY FromInt DEF IInv, Shapes
<1>5. term \in Nat \ {0}
    <2>1. RemainingTerm(o, from) \in Nat \ {0}
        BY RemainingTermPositive DEF IInv
    <2> QED BY <2>1 DEF ConsolidatedTerm, Greatest
<1> HIDE DEF from, term
<1>6. future.contractual \in Nat /\ future.penalty \in Nat
    BY <1>2, AvailableNat DEF IInv
<1> HIDE DEF future
<1>7. plans \in Seq(Plan) /\ Len(plans) + 1 \in Nat /\ future.contractual + total \in Nat
    BY <1>6, PlanFacts DEF IInv, Shapes
<1>8. Published(plans, plans', o)
    BY <1>1, <1>2, <1>4, <1>5, <1>6, <1>7, PublishPlanShape
<1>9. loans' \in Seq(LoanRow) /\ RepaidClear(loans') /\ Owed(loans') = Owed(loans) + total
    BY <1>1, AddLoanEffect
<1>10. /\ more \in Obligation /\ more.status = "ACTIVE"
       /\ more.contractual = obligations[o].contractual + total
       /\ ~ doubled => more.contractual = Owed(loans')
    BY <1>2, <1>9 DEF Obligation
<1> HIDE DEF more
<1>11. BooksMove(o, more, loans')
    BY <1>2, <1>9, <1>10 DEF BooksMove
<1>12. BooksMove(o, new, loans') /\ new.currentPlan = Len(plans) + 1
    BY <1>7, <1>11, MoveWithPlan
<1> HIDE DEF new
<1> QED BY <1>1, <1>3, <1>8, <1>12, ClosingUntouched, StepMove DEF Published

-----------------------------------------------------------------------------
(* Defaults                                                                *)

\* The default penalty is a natural amount.
LEMMA PenaltyNat ==
    ASSUME NEW shortfall \in Nat
    PROVE  Penalty(shortfall) \in Nat
<1> DEFINE n == 2 * (shortfall * RateNum) + RateDen
           d == 2 * RateDen
<1>1. shortfall * RateNum \in Nat
    BY ConstantsAssumption DEF ConstantsAssumption
<1>2. n \in Nat /\ d \in Nat /\ d > 0
    <2> DEFINE s == shortfall * RateNum
    <2> HIDE DEF s
    <2> QED BY <1>1, ConstantsAssumption DEF ConstantsAssumption, s
<1> HIDE DEF n, d
<1>3. n \div d \in Nat
    BY <1>2
<1> QED BY <1>3 DEF Penalty, RoundHalfUp, n, d

\* A row closed with a shortfall: a penalty in both books and a new plan.
LEMMA CloseDefaultedPreserves ==
    ASSUME IInv, NEW k \in closing.todo, CloseDefaulted(k)
    PROVE  IInv'
<1> DEFINE m == closing.period
           row == plans[k].rows[m]
           o == plans[k].obligation
           charge == Penalty(RemainingDue(row))
           was == obligations[o]
           penalty == was.penalty + charge
           closed == DefaultedRow(row)
           ps == CloseWith(k, closed)
           from == FirstOpenPeriod(m, official)
           replan == was.contractual > 0 \/ penalty > 0
           charged == [was EXCEPT !.penalty = penalty]
<1>1. /\ loans' = ChargeOldest(loans, charge)
      /\ plans' = IF replan
                  THEN PublishPlan(ps, o, was.contractual, penalty, DefaultTerm(ps, o), from)
                  ELSE ps
      /\ closing' = [closing EXCEPT !.todo = @ \ {k}]
      /\ UNCHANGED <<month, official, baselined, backfills, doubled>>
    BY DEF CloseDefaulted
<1>2. obligations' = [obligations EXCEPT
          ![o].penalty = penalty, ![o].currentPlan = IF replan THEN Len(plans) + 1 ELSE @]
    BY DEF CloseDefaulted
<1>3. /\ k \in DOMAIN plans /\ m \in DOMAIN plans[k].rows /\ row \in Installment
      /\ o \in DOMAIN obligations /\ plans \in Seq(Plan)
    BY TodoRow DEF IInv, Shapes
<1>4. charge \in Nat
    BY <1>3, RemainingDueNat, PenaltyNat
<1>5. /\ was \in Obligation /\ was.contractual \in Nat /\ was.penalty \in Nat
      /\ was.currentPlan \in DOMAIN plans \cup {NoPlan}
      /\ o \in Nat /\ Len(plans) \in Nat
    BY <1>3, BooksOf, PlanFacts DEF IInv, PlanRefs
<1>6. closed \in Installment
    <2>1. row \in Installment
        BY <1>3
    <2> HIDE DEF row
    <2> QED BY <2>1 DEF DefaultedRow, Installment
<1>7. ps \in Seq(Plan) /\ Len(ps) = Len(plans) /\ Keeps(plans, ps)
    <2>1. ps = [plans EXCEPT ![k].rows[m] = closed]
        BY DEF CloseWith
    <2> HIDE DEF closed, m, ps
    <2>2. /\ [plans EXCEPT ![k].rows[m] = closed] \in Seq(Plan)
          /\ Len([plans EXCEPT ![k].rows[m] = closed]) = Len(plans)
          /\ Keeps(plans, [plans EXCEPT ![k].rows[m] = closed])
        BY <1>3, <1>6, RowUpdateShape
    <2> QED BY <2>1, <2>2
<1>8. from \in Int
    <2>1. m \in Int
        BY <1>3, PlanFacts
    <2>2. IsFiniteSet(official)
        BY PeriodsFinite DEF IInv, Shapes
    <2> HIDE DEF m
    <2> QED BY <2>1, <2>2, FirstOpenPeriodFound
<1> HIDE DEF m, row, charge, closed, ps, from
<1>9. penalty \in Nat
    BY <1>4, <1>5
<1>10. BooksMove(o, charged, loans')
    <2>1. loans' \in Seq(LoanRow) /\ Owed(loans') = Owed(loans) /\ RepaidClear(loans')
        BY <1>1, <1>4, ChargeEffect DEF IInv, Shapes, Owed
    <2>2. BooksMove(o, was, loans)
        BY <1>3, PlanOnlyMoves
    <2> HIDE DEF penalty
    <2>3. /\ charged \in Obligation /\ charged.status = was.status
          /\ charged.contractual = was.contractual
        BY <1>5, <1>9 DEF Obligation
    <2> HIDE DEF charged
    <2>4. Owed(loans) \in Nat
        BY OwedNat DEF IInv, Shapes
    <2> QED BY <1>5, <2>1, <2>2, <2>3, <2>4 DEF BooksMove
<1>11. /\ closing' \in [period : Periods \cup {0}, todo : SUBSET Nat]
       /\ TodoRefs(plans, closing')
    BY <1>1, TodoShrinks
<1>12. obligations \in [DOMAIN obligations -> Obligation]
    BY ObligationFacts DEF IInv, Shapes
<1>13. CASE replan
    <2> DEFINE new == [charged EXCEPT !.currentPlan = Len(plans) + 1]
    <2>1. obligations' = [obligations EXCEPT ![o] = new]
        BY <1>2, <1>3, <1>5, <1>12, <1>13 DEF Obligation
    <2>2. Published(ps, plans', o)
        <3> DEFINE term == DefaultTerm(ps, o)
        <3>1. term \in Nat \ {0}
            BY <1>7, DefaultTermPositive
        <3>2. plans' = PublishPlan(ps, o, was.contractual, penalty, term, from)
            BY <1>1, <1>13
        <3> HIDE DEF term, penalty
        <3> QED BY <1>5, <1>7, <1>8, <1>9, <3>1, <3>2, PublishPlanShape
    <2>3. /\ plans' \in Seq(Plan) /\ Keeps(plans, plans')
          /\ Len(plans) + 1 \in DOMAIN plans'
          /\ \A j \in DOMAIN plans' : j \in DOMAIN plans \/ plans'[j].obligation = o
        <3>1. DOMAIN ps = DOMAIN plans
            BY <1>3, <1>7, PlanFacts
        <3>2. Keeps(plans, plans')
            BY <1>3, <1>7, <2>2, KeepsTwice DEF Published
        <3> QED BY <1>7, <2>2, <3>1, <3>2 DEF Published
    <2>4. BooksMove(o, new, loans') /\ new.currentPlan = Len(plans) + 1
        <3>1. Len(plans) + 1 \in Nat
            BY <1>5
        <3>2. PICK ob, rows, plan : ob = charged /\ rows = loans' /\ plan = Len(plans) + 1
            OBVIOUS
        <3>3. BooksMove(o, ob, rows) /\ plan \in Nat
            BY <1>10, <3>1, <3>2
        <3>4. /\ BooksMove(o, [ob EXCEPT !.currentPlan = plan], rows)
              /\ [ob EXCEPT !.currentPlan = plan].currentPlan = plan
            BY <3>3, MoveWithPlan
        <3> HIDE DEF charged
        <3> QED BY <3>2, <3>4
    <2> HIDE DEF new
    <2> QED BY <1>1, <1>3, <1>11, <2>1, <2>3, <2>4, StepMove
<1>14. CASE ~ replan
    <2>1. obligations' = [obligations EXCEPT ![o] = charged]
        BY <1>2, <1>3, <1>5, <1>12, <1>14 DEF Obligation
    <2>2. charged.currentPlan = was.currentPlan
        BY <1>5 DEF Obligation
    <2>3. plans' = ps
        BY <1>1, <1>14
    <2>4. DOMAIN plans' = DOMAIN plans
        BY <1>3, <1>7, <2>3, PlanFacts
    <2> HIDE DEF charged, replan
    <2> QED BY <1>1, <1>3, <1>5, <1>7, <1>10, <1>11, <2>1, <2>2, <2>3, <2>4, StepMove
<1> QED BY <1>13, <1>14

-----------------------------------------------------------------------------
(* Every step                                                              *)

\* A step that changes nothing.
LEMMA StutterPreserves ==
    ASSUME IInv, UNCHANGED vars
    PROVE  IInv'
BY DEF IInv, Shapes, PlanRefs, TodoRefs, Books, AskedOnce, Contractuals, RepaidClear, vars

\* Every operation preserves the invariant.
LEMMA NextPreserves ==
    ASSUME IInv, [Next]_vars
    PROVE  IInv'
<1>1. CASE NextMonth
    BY <1>1, NextMonthPreserves
<1>2. CASE \E w \in Workers :
              \/ ListBorrower(w) \/ FindNoneOpen(w) \/ BackfillEnds(w)
              \/ \E term \in Tenures, from \in Periods : CreateBaseline(w, term, from)
    <2>1. \A term \in Tenures, from \in Periods : term \in Nat \ {0} /\ from \in Int
        BY ConstantsAssumption, PeriodsFinite DEF ConstantsAssumption
    <2> QED BY <1>2, <2>1, BackfillLooks, CreateBaselinePreserves
<1>3. CASE \E total \in LoanTotals, tenure \in Tenures :
              \/ DisburseFirst(total, tenure)
              \/ \E isTopup \in BOOLEAN :
                    \/ \E o \in DOMAIN obligations : DisburseTopUp(o, total, tenure, isTopup)
                    \/ \E legacyTerm \in Tenures :
                          DisburseOnLegacy(total, tenure, legacyTerm, isTopup)
    <2>1. PICK total \in LoanTotals, tenure \in Tenures :
              \/ DisburseFirst(total, tenure)
              \/ \E isTopup \in BOOLEAN :
                    \/ \E o \in DOMAIN obligations : DisburseTopUp(o, total, tenure, isTopup)
                    \/ \E legacyTerm \in Tenures :
                          DisburseOnLegacy(total, tenure, legacyTerm, isTopup)
        BY <1>3
    <2>2. total \in Nat /\ tenure \in Nat \ {0} /\ \A t \in Tenures : t \in Nat \ {0}
        BY ConstantsAssumption DEF ConstantsAssumption
    <2> QED BY <2>1, <2>2, DisburseFirstPreserves, DisburseTopUpPreserves,
               DisburseOnLegacyPreserves
<1>4. CASE \E m \in Periods, amount \in Receipts : ApplyPayrollPayment(m, amount)
    <2>1. \A amount \in Receipts : amount \in Nat
        BY ConstantsAssumption DEF ConstantsAssumption
    <2> QED BY <1>4, <2>1, ApplyPayrollPaymentPreserves
<1>5. CASE \E o \in DOMAIN obligations :
              \/ \E amount \in Receipts : ApplyUnscheduledPayment(o, amount)
              \/ \E amount \in Waivers : AdjustPenalty(o, amount)
              \/ \E term \in Tenures : ChangeTenure(o, term)
    <2>1. /\ \A amount \in Receipts : amount \in Nat
          /\ \A amount \in Waivers : amount \in Nat
          /\ \A term \in Tenures : term \in Nat \ {0}
        BY ConstantsAssumption DEF ConstantsAssumption
    <2> QED BY <1>5, <2>1, ApplyUnscheduledPaymentPreserves, AdjustPenaltyPreserves,
               ChangeTenurePreserves
<1>6. CASE \/ \E m \in Periods, onPayroll \in BOOLEAN : SubmitVariation(m, onPayroll)
           \/ \E m \in Periods : StartClosing(m)
    BY <1>6, SubmitVariationPreserves, StartClosingPreserves
<1>7. CASE \E k \in closing.todo : CloseSettled(k) \/ CloseDefaulted(k) \/ ClosingFails(k)
    <2>1. ASSUME NEW k, ClosingFails(k)
          PROVE  IInv'
        BY <2>1, FinishClosingPreserves DEF ClosingFails
    <2> QED BY <1>7, <2>1, CloseSettledPreserves, CloseDefaultedPreserves
<1>8. CASE FinishClosing
    BY <1>8, FinishClosingPreserves DEF FinishClosing
<1>9. CASE UNCHANGED vars
    BY <1>9, StutterPreserves
<1> QED BY <1>1, <1>2, <1>3, <1>4, <1>5, <1>6, <1>7, <1>8, <1>9 DEF Next

(***************************************************************************)
(* The books, the references between the rows and the cleared REPAID loans *)
(* hold in every reachable state, whichever operations run in what order.  *)
(***************************************************************************)
THEOREM Inductive == Spec => []IInv
<1>1. Init => IInv
    BY InitEstablishes
<1>2. IInv /\ [Next]_vars => IInv'
    BY NextPreserves
<1> QED BY <1>1, <1>2, PTL DEF Spec

-----------------------------------------------------------------------------
(* The properties                                                          *)

\* A set of which any three members coincide somewhere has at most two.
LEMMA AtMostTwo ==
    ASSUME NEW S, \A x, y, z \in S : x = y \/ y = z \/ x = z
    PROVE  IsFiniteSet(S) /\ Cardinality(S) \in 0 .. 2
<1>1. CASE S = {}
    BY <1>1, FS_EmptySet
<1>2. CASE S # {}
    <2>1. PICK x \in S : TRUE
        BY <1>2
    <2>2. PICK y \in S : S \ {x} # {} => y # x
        BY <2>1
    <2>3. S = {x} \cup {y}
        BY <2>1, <2>2
    <2>4. IsFiniteSet({x}) /\ Cardinality({x}) = 1
        BY FS_Singleton
    <2> QED BY <2>3, <2>4, FS_AddElement
<1> QED BY <1>1, <1>2

\* Open obligations that are all the same are at most one.
LEMMA OpenCount ==
    ASSUME IInv
    PROVE  SecondOpenIsABackfill
<1>1. Cardinality(OpenObligations) \in 0 .. 2
    <2>1. \A o, p, q \in OpenObligations : o = p \/ p = q \/ o = q
        BY DEF IInv, Books, OpenObligations, Open
    <2> QED BY <2>1, AtMostTwo
<1>2. ASSUME ~ doubled
      PROVE  Cardinality(OpenObligations) <= 1
    <2>1. \A o, p \in OpenObligations : o = p
        BY <1>2 DEF IInv, Books, AskedOnce, OpenObligations, Open
    <2>2. CASE OpenObligations = {}
        BY <2>2, FS_EmptySet
    <2>3. CASE OpenObligations # {}
        <3>1. PICK o : OpenObligations = {o}
            BY <2>1, <2>3
        <3> QED BY <3>1, FS_Singleton
    <2> QED BY <2>2, <2>3
<1>3. doubled \in BOOLEAN
    BY DEF IInv, Shapes
<1> QED BY <1>1, <1>2, <1>3 DEF SecondOpenIsABackfill

(***************************************************************************)
(* In every state of every instance, whatever the order of payments,       *)
(* top-ups, baselines, adjustments and closings, the loans owe no more     *)
(* than the obligations ask for; and exactly what the open one asks for    *)
(* until a backfill opens a second.                                        *)
(***************************************************************************)
THEOREM BooksAgree == Spec => []ContractualLedgerAgrees
<1>1. IInv => ContractualLedgerAgrees
    BY DEF IInv, Books, AskedOnce, Contractuals, ContractualLedgerAgrees, Open, OpenObligations,
           LoansOwe
<1> QED BY <1>1, Inductive, PTL

(***************************************************************************)
(* However many backfills have looked and found no open obligation, they   *)
(* open at most one beside an open one, and disburseAdvance opens none.    *)
(***************************************************************************)
THEOREM TwoOpenAtMost == Spec => []SecondOpenIsABackfill
<1> QED BY OpenCount, Inductive, PTL

(***************************************************************************)
(* settleFullyPaidLoans marks a loan REPAID when it owes nothing, and      *)
(* nothing is charged to it afterwards.                                    *)
(***************************************************************************)
THEOREM RepaidStaysClear == Spec => []RepaidLoansOweNothing
<1>1. IInv => RepaidLoansOweNothing
    BY DEF IInv, RepaidClear, RepaidLoansOweNothing
<1> QED BY <1>1, Inductive, PTL

-----------------------------------------------------------------------------
(* Paying off the contractual debt                                         *)

PayoffSettles ==
    \A o \in OpenObligations :
        obligations[o].contractual > 0 /\ obligations'[o].contractual = 0 =>
            obligations'[o].status = "SETTLED" /\ obligations'[o].penalty = 0

\* A step that leaves every contractual balance alone, or only adds to it.
LEMMA NoPayoff ==
    ASSUME IInv,
           \A o \in DOMAIN obligations :
              obligations'[o].contractual \in Nat /\
              obligations'[o].contractual >= obligations[o].contractual
    PROVE  PayoffSettles
<1>1. \A o \in DOMAIN obligations : obligations[o].contractual \in Nat
    BY BooksOf
<1> QED BY <1>1 DEF PayoffSettles, OpenObligations

\* A step that leaves the obligations alone pays nothing off.
LEMMA SamePayoff ==
    ASSUME IInv, UNCHANGED obligations
    PROVE  PayoffSettles
<1>1. \A o \in DOMAIN obligations : obligations[o].contractual \in Nat
    BY BooksOf
<1> QED BY <1>1, NoPayoff

\* Neither does one that only opens an obligation.
LEMMA AppendPayoff ==
    ASSUME IInv, NEW ob, obligations' = Append(obligations, ob)
    PROVE  PayoffSettles
<1>1. obligations \in Seq(Obligation) /\ DOMAIN obligations = 1 .. Len(obligations)
    BY ObligationFacts DEF IInv, Shapes
<1>2. \A o \in DOMAIN obligations : obligations'[o] = obligations[o]
    BY <1>1
<1>3. \A o \in DOMAIN obligations : obligations[o].contractual \in Nat
    BY BooksOf
<1> QED BY <1>2, <1>3, NoPayoff

\* A step on one obligation that settles it when its debt is paid off.
LEMMA UpdatePayoff ==
    ASSUME IInv, NEW o \in DOMAIN obligations, NEW ob,
           obligations' = [obligations EXCEPT ![o] = ob],
           obligations[o].contractual > 0 /\ ob.contractual = 0 =>
              ob.status = "SETTLED" /\ ob.penalty = 0
    PROVE  PayoffSettles
<1> SUFFICES ASSUME NEW p \in DOMAIN obligations,
                    obligations[p].contractual > 0, obligations'[p].contractual = 0
             PROVE  obligations'[p].status = "SETTLED" /\ obligations'[p].penalty = 0
    BY DEF PayoffSettles, OpenObligations
<1>1. CASE p = o
    <2>1. obligations'[p] = ob
        BY <1>1
    <2> QED BY <1>1, <2>1
<1>2. CASE p # o
    <2>1. obligations'[p] = obligations[p]
        BY <1>2
    <2>2. obligations[p].contractual \in Nat
        BY BooksOf
    <2> QED BY <2>1, <2>2
<1> QED BY <1>1, <1>2

\* applyPayrollPayment takes penalty before contractual debt.
LEMMA ApplyPayrollPaymentSettles ==
    ASSUME IInv, NEW m \in Periods, NEW amount \in Nat, ApplyPayrollPayment(m, amount)
    PROVE  PayoffSettles
<1> DEFINE o == Max(PayrollCandidates(m))
<1>1. PICK k \in Payable(o, m) :
         LET row      == plans[k].rows[m]
             received == Least(amount, RemainingDue(row))
             applied  == Least(received, obligations[o].contractual + obligations[o].penalty)
         IN  obligations' = [obligations EXCEPT ![o] = PayObligation(o, amount, applied)]
    BY DEF ApplyPayrollPayment
<1> HIDE DEF o
<1> DEFINE row == plans[k].rows[m]
           received == Least(amount, RemainingDue(row))
           applied == Least(received, obligations[o].contractual + obligations[o].penalty)
<1>2. obligations' = [obligations EXCEPT ![o] = PayObligation(o, amount, applied)]
    BY <1>1
<1>3. /\ k \in DOMAIN plans /\ m \in DOMAIN plans[k].rows /\ plans[k].obligation = o
      /\ plans \in Seq(Plan)
    BY <1>1 DEF Payable, PlansOf, IInv, Shapes
<1>4. o \in DOMAIN obligations /\ RemainingDue(row) \in Nat
    BY <1>3, PlanFacts, RemainingDueNat DEF IInv, PlanRefs
<1>5. obligations[o].contractual \in Nat /\ obligations[o].penalty \in Nat
    BY <1>4, BooksOf
<1>6. /\ applied \in Nat /\ applied <= amount
      /\ applied <= obligations[o].contractual + obligations[o].penalty
    <2> HIDE DEF row
    <2> QED BY <1>4, <1>5 DEF Least
<1> HIDE DEF applied
<1>7. Paid(o, PayObligation(o, amount, applied), PayBorrowerLoans(o, applied))
    BY <1>4, <1>6, PayEffect
<1> QED BY <1>2, <1>4, <1>7, UpdatePayoff DEF Paid

\* applyUnscheduledPayment takes penalty before contractual debt.
LEMMA ApplyUnscheduledPaymentSettles ==
    ASSUME IInv, NEW o \in DOMAIN obligations, NEW amount \in Nat,
           ApplyUnscheduledPayment(o, amount)
    PROVE  PayoffSettles
<1> DEFINE applied == Least(amount, obligations[o].contractual + obligations[o].penalty)
           paid == PayObligation(o, amount, applied)
           planned == [paid EXCEPT !.currentPlan = Len(plans) + 1]
           withdrawn == [paid EXCEPT !.currentPlan = NoPlan]
<1>1. \/ obligations' = [obligations EXCEPT ![o] = planned]
      \/ obligations' = [obligations EXCEPT ![o] = withdrawn]
    BY DEF ApplyUnscheduledPayment
<1>2. /\ applied \in Nat /\ applied <= amount
      /\ applied <= obligations[o].contractual + obligations[o].penalty
    BY BooksOf DEF Least
<1> HIDE DEF applied
<1>3. Paid(o, paid, PayBorrowerLoans(o, applied))
    BY <1>2, PayEffect
<1>4. paid \in Obligation
    BY <1>3 DEF Paid, BooksMove
<1>5. obligations[o].contractual > 0 /\ paid.contractual = 0 =>
          paid.status = "SETTLED" /\ paid.penalty = 0
    BY <1>3 DEF Paid
<1> HIDE DEF paid
<1>6. /\ planned.contractual = paid.contractual /\ planned.penalty = paid.penalty
      /\ planned.status = paid.status
      /\ withdrawn.contractual = paid.contractual /\ withdrawn.penalty = paid.penalty
      /\ withdrawn.status = paid.status
    BY <1>4 DEF Obligation
<1> HIDE DEF planned, withdrawn
<1> QED BY <1>1, <1>5, <1>6, UpdatePayoff

\* A top-up only adds contractual debt.
LEMMA DisburseTopUpSettles ==
    ASSUME IInv, NEW o \in DOMAIN obligations, NEW total \in Nat, NEW tenure, NEW isTopup,
           DisburseTopUp(o, total, tenure, isTopup)
    PROVE  PayoffSettles
<1>1. obligations' = [obligations EXCEPT
         ![o].contractual = @ + total, ![o].currentPlan = Len(plans) + 1]
    BY DEF DisburseTopUp
<1>2. \A p \in DOMAIN obligations :
         obligations[p] \in Obligation /\ obligations[p].contractual \in Nat
    BY BooksOf
<1>3. \A p \in DOMAIN obligations :
         obligations'[p].contractual =
            IF p = o THEN obligations[p].contractual + total ELSE obligations[p].contractual
    BY <1>1, <1>2 DEF Obligation
<1> QED BY <1>2, <1>3, NoPayoff

\* The operations that leave the contractual balances of all obligations alone.
LEMMA AdministrationSettles ==
    ASSUME IInv, NEW o \in DOMAIN obligations,
           \/ \E amount \in Waivers : AdjustPenalty(o, amount)
           \/ \E term \in Tenures : ChangeTenure(o, term)
    PROVE  PayoffSettles
<1>1. \A p \in DOMAIN obligations :
         obligations[p] \in Obligation /\ obligations[p].contractual \in Nat
    BY BooksOf
<1>2. CASE \E amount \in Waivers : AdjustPenalty(o, amount)
    <2>1. \E penalty, status, plan :
             obligations' = [obligations EXCEPT ![o] =
                 [[obligations[o] EXCEPT !.penalty = penalty, !.status = status]
                     EXCEPT !.currentPlan = plan]]
        <3>1. PICK amount \in Waivers : AdjustPenalty(o, amount)
            BY <1>2
        <3> DEFINE penalty == obligations[o].penalty - amount
                   status == StatusAfter(obligations[o].status, obligations[o].contractual, penalty)
                   Moved(plan) ==
                      obligations' = [obligations EXCEPT ![o] =
                         [[obligations[o] EXCEPT !.penalty = penalty, !.status = status]
                             EXCEPT !.currentPlan = plan]]
        <3>2. Moved(Len(plans) + 1) \/ Moved(NoPlan)
            BY <3>1 DEF AdjustPenalty
        <3> QED BY <3>2
    <2>2. PICK penalty, status, plan :
             obligations' = [obligations EXCEPT ![o] =
                 [[obligations[o] EXCEPT !.penalty = penalty, !.status = status]
                     EXCEPT !.currentPlan = plan]]
        BY <2>1, Zenon
    <2>3. \A p \in DOMAIN obligations :
             obligations'[p].contractual = obligations[p].contractual
        BY <1>1, <2>2 DEF Obligation
    <2> QED BY <1>1, <2>3, NoPayoff
<1>3. CASE \E term \in Tenures : ChangeTenure(o, term)
    <2>1. PICK plan : obligations' = [obligations EXCEPT ![o].currentPlan = plan]
        BY <1>3 DEF ChangeTenure
    <2>2. \A p \in DOMAIN obligations :
             obligations'[p].contractual = obligations[p].contractual
        BY <1>1, <2>1 DEF Obligation
    <2> QED BY <1>1, <2>2, NoPayoff
<1> QED BY <1>2, <1>3

\* A default charges penalty and takes no contractual debt.
LEMMA CloseDefaultedSettles ==
    ASSUME IInv, NEW k \in closing.todo, CloseDefaulted(k)
    PROVE  PayoffSettles
<1> DEFINE o == plans[k].obligation
<1>1. o \in DOMAIN obligations
    BY TodoRow
<1>2. PICK penalty, plan :
         obligations' = [obligations EXCEPT ![o].penalty = penalty, ![o].currentPlan = plan]
    BY DEF CloseDefaulted
<1>3. \A p \in DOMAIN obligations :
         obligations[p] \in Obligation /\ obligations[p].contractual \in Nat
    BY BooksOf
<1> HIDE DEF o
<1>4. \A p \in DOMAIN obligations : obligations'[p].contractual = obligations[p].contractual
    BY <1>1, <1>2, <1>3 DEF Obligation
<1> QED BY <1>3, <1>4, NoPayoff

\* Every operation that pays the contractual debt off settles the obligation.
LEMMA NextSettles ==
    ASSUME IInv, [Next]_vars
    PROVE  PayoffSettles
<1>1. CASE UNCHANGED obligations
    BY <1>1, SamePayoff
<1>2. CASE \E w \in Workers, term \in Tenures, from \in Periods : CreateBaseline(w, term, from)
    BY <1>2, AppendPayoff DEF CreateBaseline
<1>3. CASE \E total \in LoanTotals, tenure \in Tenures :
              \/ DisburseFirst(total, tenure)
              \/ \E isTopup \in BOOLEAN :
                    \/ \E o \in DOMAIN obligations : DisburseTopUp(o, total, tenure, isTopup)
                    \/ \E legacyTerm \in Tenures :
                          DisburseOnLegacy(total, tenure, legacyTerm, isTopup)
    <2>1. PICK total \in LoanTotals, tenure \in Tenures :
              \/ DisburseFirst(total, tenure)
              \/ \E isTopup \in BOOLEAN :
                    \/ \E o \in DOMAIN obligations : DisburseTopUp(o, total, tenure, isTopup)
                    \/ \E legacyTerm \in Tenures :
                          DisburseOnLegacy(total, tenure, legacyTerm, isTopup)
        BY <1>3
    <2>2. total \in Nat
        BY ConstantsAssumption DEF ConstantsAssumption
    <2>3. CASE \E isTopup \in BOOLEAN, o \in DOMAIN obligations :
                  DisburseTopUp(o, total, tenure, isTopup)
        BY <2>2, <2>3, DisburseTopUpSettles
    <2>4. CASE DisburseFirst(total, tenure)
        BY <2>4, AppendPayoff DEF DisburseFirst
    <2>5. CASE \E isTopup \in BOOLEAN, legacyTerm \in Tenures :
                  DisburseOnLegacy(total, tenure, legacyTerm, isTopup)
        BY <2>5, AppendPayoff DEF DisburseOnLegacy
    <2> QED BY <2>1, <2>3, <2>4, <2>5
<1>4. CASE \E m \in Periods, amount \in Receipts : ApplyPayrollPayment(m, amount)
    <2>1. \A amount \in Receipts : amount \in Nat
        BY ConstantsAssumption DEF ConstantsAssumption
    <2> QED BY <1>4, <2>1, ApplyPayrollPaymentSettles
<1>5. CASE \E o \in DOMAIN obligations :
              \/ \E amount \in Receipts : ApplyUnscheduledPayment(o, amount)
              \/ \E amount \in Waivers : AdjustPenalty(o, amount)
              \/ \E term \in Tenures : ChangeTenure(o, term)
    <2>1. \A amount \in Receipts : amount \in Nat
        BY ConstantsAssumption DEF ConstantsAssumption
    <2> QED BY <1>5, <2>1, ApplyUnscheduledPaymentSettles, AdministrationSettles
<1>6. CASE \E k \in closing.todo : CloseDefaulted(k)
    BY <1>6, CloseDefaultedSettles
<1>7. ASSUME NEW m, NEW k, NEW w, NEW onPayroll,
             \/ NextMonth \/ SubmitVariation(m, onPayroll) \/ StartClosing(m) \/ CloseSettled(k)
             \/ ClosingFails(k) \/ FinishClosing \/ UNCHANGED vars
             \/ ListBorrower(w) \/ FindNoneOpen(w) \/ BackfillEnds(w)
      PROVE  UNCHANGED obligations
    BY <1>7 DEF NextMonth, SubmitVariation, StartClosing, CloseSettled, ClosingFails,
                FinishClosing, ListBorrower, FindNoneOpen, BackfillEnds, vars
<1> QED BY <1>1, <1>2, <1>3, <1>4, <1>5, <1>6, <1>7 DEF Next

(***************************************************************************)
(* Whichever operation takes an open obligation's last contractual debt    *)
(* also leaves it settled and without penalty: the payment paths collect   *)
(* penalty first, and nothing else lowers the contractual balance.         *)
(***************************************************************************)
THEOREM PayoffAlwaysSettles == Spec => ContractualPayoffSettles
<1>1. IInv /\ [Next]_vars => PayoffSettles
    BY NextSettles
<1> QED BY <1>1, Inductive, PTL DEF Spec, ContractualPayoffSettles, PayoffSettles

-----------------------------------------------------------------------------
(* What a plan is after it was replaced, withdrawn or written to           *)

\* A plan that a new one replaces.
Retired(plan, from) == [SupersedePlanned(plan, from) EXCEPT !.status = "SUPERSEDED"]

\* The row of a plan whose planned rows from month `from' on are superseded.
SupersededRow(row, m, from) ==
    IF m >= from /\ row.status = "PLANNED" THEN [row EXCEPT !.status = "SUPERSEDED"] ELSE row

\* Superseding changes the status of planned rows and nothing else of a plan.
LEMMA SupersedeRows ==
    ASSUME NEW plan \in Plan, NEW from, NEW m \in DOMAIN plan.rows
    PROVE  /\ SupersedePlanned(plan, from).rows[m] = SupersededRow(plan.rows[m], m, from)
           /\ Retired(plan, from).rows[m] = SupersededRow(plan.rows[m], m, from)
BY DEF SupersedePlanned, Retired, SupersededRow, Plan

\* A replaced plan is superseded and keeps its obligation and its months.
LEMMA RetiredFacts ==
    ASSUME NEW plan \in Plan, NEW from \in Int
    PROVE  /\ Retired(plan, from).obligation = plan.obligation
           /\ Retired(plan, from).status = "SUPERSEDED"
           /\ DOMAIN Retired(plan, from).rows = DOMAIN plan.rows
<1>1. SupersedePlanned(plan, from) \in Plan
    BY SupersedeShape
<1>2. /\ [SupersedePlanned(plan, from) EXCEPT !.status = "SUPERSEDED"].status = "SUPERSEDED"
      /\ [SupersedePlanned(plan, from) EXCEPT !.status = "SUPERSEDED"].rows
            = SupersedePlanned(plan, from).rows
      /\ [SupersedePlanned(plan, from) EXCEPT !.status = "SUPERSEDED"].obligation
            = SupersedePlanned(plan, from).obligation
    BY <1>1 DEF Plan
<1> QED BY <1>2, SupersedeShape DEF Retired

\* `new' is `ps' with o's plans retired from month `from' on and a plan over `rows' added.
PublishedAs(ps, new, o, rows, from) ==
    /\ Len(ps) \in Nat /\ DOMAIN ps = 1 .. Len(ps)
    /\ DOMAIN new = 1 .. Len(ps) + 1
    /\ \A k \in DOMAIN ps :
          new[k] = IF ps[k].obligation = o THEN Retired(ps[k], from) ELSE ps[k]
    /\ new[Len(ps) + 1] = [obligation |-> o, status |-> "PUBLISHED", rows |-> rows]

(***************************************************************************)
(* publishPlan, plan by plan: the obligation's plans are retired, one plan *)
(* is added, and the plans of other obligations are what they were.        *)
(***************************************************************************)
LEMMA PublishPlans ==
    ASSUME NEW ps \in Seq(Plan), NEW o \in Nat, NEW contractual \in Nat, NEW penalty \in Nat,
           NEW term \in Nat \ {0}, NEW from \in Int, PlanVersionFree(ps, o)
    PROVE  PublishedAs(ps, PublishPlan(ps, o, contractual, penalty, term, from),
                       o, NewRows(contractual, penalty, term, from), from)
<1> DEFINE old == SupersedePublished(ps, o, from)
           plan == [obligation |-> o, status |-> "PUBLISHED",
                    rows |-> NewRows(contractual, penalty, term, from)]
           new == PublishPlan(ps, o, contractual, penalty, term, from)
<1>1. plan \in Plan
    BY NewRowsShape DEF Plan
<1>2. old \in Seq(Plan) /\ Len(old) = Len(ps)
    BY SupersedePublishedShape
<1>3. new = Append(old, plan)
    BY DEF PublishPlan
<1>4. Len(ps) \in Nat /\ DOMAIN ps = 1 .. Len(ps)
    BY PlanFacts
<1>5. \A k \in DOMAIN ps : old[k] = IF ps[k].obligation = o THEN Retired(ps[k], from) ELSE ps[k]
    <2>1. CASE \E k \in DOMAIN ps : ps[k].obligation = o /\ ps[k].status = "PUBLISHED"
        <3>1. old = [k \in DOMAIN ps |->
                        IF ps[k].obligation = o THEN Retired(ps[k], from) ELSE ps[k]]
            BY <2>1, Zenon DEF SupersedePublished, Retired
        <3> HIDE DEF old
        <3> QED BY <3>1
    <2>2. CASE ~ \E k \in DOMAIN ps : ps[k].obligation = o /\ ps[k].status = "PUBLISHED"
        <3>1. old = ps
            BY <2>2, Zenon DEF SupersedePublished
        <3>2. \A k \in DOMAIN ps : ps[k].obligation # o
            BY <2>2 DEF PlanVersionFree
        <3> HIDE DEF old
        <3> QED BY <3>1, <3>2
    <2> QED BY <2>1, <2>2
<1> HIDE DEF old, plan, new
<1>6. /\ DOMAIN new = 1 .. Len(ps) + 1
      /\ \A k \in 1 .. Len(ps) : new[k] = old[k]
      /\ new[Len(ps) + 1] = plan
    <2>1. /\ Append(old, plan) \in Seq(Plan)
          /\ Len(Append(old, plan)) = Len(old) + 1
          /\ \A k \in 1 .. Len(old) : Append(old, plan)[k] = old[k]
          /\ Append(old, plan)[Len(old) + 1] = plan
        BY <1>1, <1>2, AppendProperties
    <2> QED BY <1>2, <1>3, <2>1, LenProperties
<1> QED BY <1>4, <1>5, <1>6 DEF plan, new, PublishedAs

\* `new' is `ps' with o's plan `current' and o's planned rows from `from' on superseded.
WithdrawnAs(ps, new, o, current, from) ==
    /\ DOMAIN new = DOMAIN ps
    /\ \A k \in DOMAIN ps :
          /\ new[k].obligation = ps[k].obligation
          /\ new[k].status = IF k = current /\ ps[k].obligation = o
                             THEN "SUPERSEDED" ELSE ps[k].status
          /\ DOMAIN new[k].rows = DOMAIN ps[k].rows
          /\ \A m \in DOMAIN ps[k].rows :
                new[k].rows[m] = IF ps[k].obligation = o
                                 THEN SupersededRow(ps[k].rows[m], m, from)
                                 ELSE ps[k].rows[m]

\* Withdrawing, plan by plan: the current plan is superseded, and so are the planned rows.
LEMMA WithdrawPlans ==
    ASSUME NEW ps \in Seq(Plan), NEW o, NEW current, NEW from \in Int
    PROVE  WithdrawnAs(ps, WithdrawPlan(ps, o, current, from), o, current, from)
<1> DEFINE new == WithdrawPlan(ps, o, current, from)
<1>1. new = [k \in DOMAIN ps |-> new[k]]
    BY DEF WithdrawPlan
<1> SUFFICES ASSUME NEW k \in DOMAIN ps
             PROVE  /\ new[k].obligation = ps[k].obligation
                    /\ new[k].status = IF k = current /\ ps[k].obligation = o
                                       THEN "SUPERSEDED" ELSE ps[k].status
                    /\ DOMAIN new[k].rows = DOMAIN ps[k].rows
                    /\ \A m \in DOMAIN ps[k].rows :
                          new[k].rows[m] = IF ps[k].obligation = o
                                           THEN SupersededRow(ps[k].rows[m], m, from)
                                           ELSE ps[k].rows[m]
    BY <1>1 DEF WithdrawnAs
<1>2. ps[k] \in Plan
    BY PlanFacts
<1>3. CASE ps[k].obligation # o
    <2>1. new[k] = ps[k]
        BY <1>3 DEF WithdrawPlan
    <2> QED BY <1>3, <2>1
<1>4. CASE ps[k].obligation = o
    <2> DEFINE s == SupersedePlanned(ps[k], from)
               status == IF k = current THEN "SUPERSEDED" ELSE s.status
    <2>1. /\ s \in Plan /\ s.obligation = ps[k].obligation /\ s.status = ps[k].status
          /\ DOMAIN s.rows = DOMAIN ps[k].rows
        BY <1>2, SupersedeShape
    <2>2. \A m \in DOMAIN ps[k].rows : s.rows[m] = SupersededRow(ps[k].rows[m], m, from)
        BY <1>2, SupersedeRows
    <2>3. new[k] = [s EXCEPT !.status = status]
        BY <1>4 DEF WithdrawPlan
    <2> HIDE DEF s, status
    <2>4. new[k].obligation = s.obligation /\ new[k].status = status /\ new[k].rows = s.rows
        BY <2>1, <2>3 DEF Plan
    <2>5. status = IF k = current THEN "SUPERSEDED" ELSE ps[k].status
        BY <2>1 DEF status
    <2> QED BY <1>4, <2>1, <2>2, <2>4, <2>5
<1> QED BY <1>3, <1>4

\* `new' is `ps' with `row' in month m of plan k.
RowWritten(ps, new, k, m, row) ==
    /\ DOMAIN new = DOMAIN ps
    /\ \A j \in DOMAIN ps :
          /\ new[j].obligation = ps[j].obligation
          /\ new[j].status = ps[j].status
          /\ DOMAIN new[j].rows = DOMAIN ps[j].rows
          /\ \A n \in DOMAIN ps[j].rows :
                new[j].rows[n] = IF j = k /\ n = m THEN row ELSE ps[j].rows[n]

\* Writing one row, plan by plan.
LEMMA RowUpdatePlans ==
    ASSUME NEW ps \in Seq(Plan), NEW k \in DOMAIN ps, NEW m \in DOMAIN ps[k].rows, NEW row
    PROVE  RowWritten(ps, [ps EXCEPT ![k].rows[m] = row], k, m, row)
<1> DEFINE new == [ps EXCEPT ![k].rows[m] = row]
           rows == [ps[k].rows EXCEPT ![m] = row]
<1>1. \A j \in DOMAIN ps : ps[j] \in Plan
    BY PlanFacts
<1>2. /\ DOMAIN rows = DOMAIN ps[k].rows
      /\ \A n \in DOMAIN ps[k].rows : rows[n] = IF n = m THEN row ELSE ps[k].rows[n]
    OBVIOUS
<1>3. /\ DOMAIN new = DOMAIN ps
      /\ \A j \in DOMAIN ps : new[j] = IF j = k THEN [ps[j] EXCEPT !.rows = rows] ELSE ps[j]
    OBVIOUS
<1> HIDE DEF rows, new
<1>4. /\ new[k].obligation = ps[k].obligation /\ new[k].status = ps[k].status
      /\ new[k].rows = rows
    BY <1>1, <1>3 DEF Plan
<1> QED BY <1>2, <1>3, <1>4 DEF RowWritten, new

-----------------------------------------------------------------------------
(* The current plan is the published one                                   *)

\* An obligation's current plan is published, and no other plan of it is.
OneCurrent(obs, ps) ==
    \A o \in DOMAIN obs :
        LET current == obs[o].currentPlan IN
        /\ current # NoPlan =>
              /\ current \in DOMAIN ps
              /\ ps[current].obligation = o
              /\ ps[current].status = "PUBLISHED"
        /\ \A k \in DOMAIN ps :
              ps[k].obligation = o /\ ps[k].status = "PUBLISHED" => k = current

\* It rests on the references only.
PlanInv == IInv /\ OneCurrent(obligations, plans)

\* Steps that keep every plan's obligation and status and every current plan.
LEMMA CurrentKept ==
    ASSUME NEW obs, NEW ps, OneCurrent(obs, ps), NEW newObs, NEW new,
           DOMAIN newObs = DOMAIN obs, DOMAIN new = DOMAIN ps,
           \A o \in DOMAIN obs : newObs[o].currentPlan = obs[o].currentPlan,
           \A k \in DOMAIN ps : /\ new[k].obligation = ps[k].obligation
                                /\ new[k].status = ps[k].status
    PROVE  OneCurrent(newObs, new)
BY DEF OneCurrent

(***************************************************************************)
(* Publishing for o and naming the new plan: o's earlier plans are         *)
(* superseded, the other obligations' plans untouched.  `newObs' may hold  *)
(* o as an obligation that was just opened.                                *)
(***************************************************************************)
LEMMA CurrentPublished ==
    ASSUME NEW obs, NEW ps \in Seq(Plan), OneCurrent(obs, ps),
           NEW o, NEW rows, NEW from \in Int, NEW new, PublishedAs(ps, new, o, rows, from),
           NEW newObs, DOMAIN newObs \subseteq DOMAIN obs \cup {o},
           \A p \in DOMAIN newObs \ {o} : newObs[p].currentPlan = obs[p].currentPlan,
           newObs[o].currentPlan = Len(ps) + 1
    PROVE  OneCurrent(newObs, new)
<1>1. /\ Len(ps) \in Nat /\ DOMAIN ps = 1 .. Len(ps)
      /\ DOMAIN new = 1 .. Len(ps) + 1
      /\ \A k \in DOMAIN ps :
            new[k] = IF ps[k].obligation = o THEN Retired(ps[k], from) ELSE ps[k]
      /\ new[Len(ps) + 1].obligation = o
      /\ new[Len(ps) + 1].status = "PUBLISHED"
    BY DEF PublishedAs
<1>2. \A k \in DOMAIN ps :
         /\ new[k].obligation = ps[k].obligation
         /\ ps[k].obligation = o => new[k].status = "SUPERSEDED"
         /\ ps[k].obligation # o => new[k].status = ps[k].status
    BY <1>1, PlanFacts, RetiredFacts
<1>3. \A k \in DOMAIN new : k \in DOMAIN ps \/ k = Len(ps) + 1
    BY <1>1
<1>4. Len(ps) + 1 \in DOMAIN new /\ DOMAIN ps \subseteq DOMAIN new
    BY <1>1
<1> SUFFICES ASSUME NEW p \in DOMAIN newObs
             PROVE  /\ newObs[p].currentPlan # NoPlan =>
                          /\ newObs[p].currentPlan \in DOMAIN new
                          /\ new[newObs[p].currentPlan].obligation = p
                          /\ new[newObs[p].currentPlan].status = "PUBLISHED"
                    /\ \A k \in DOMAIN new :
                          new[k].obligation = p /\ new[k].status = "PUBLISHED" =>
                             k = newObs[p].currentPlan
    BY DEF OneCurrent
<1>5. CASE p = o
    BY <1>1, <1>2, <1>3, <1>4, <1>5
<1>6. CASE p # o
    <2>1. p \in DOMAIN obs /\ newObs[p].currentPlan = obs[p].currentPlan
        BY <1>6
    <2>2. /\ obs[p].currentPlan # NoPlan =>
                /\ obs[p].currentPlan \in DOMAIN ps
                /\ ps[obs[p].currentPlan].obligation = p
                /\ ps[obs[p].currentPlan].status = "PUBLISHED"
          /\ \A k \in DOMAIN ps :
                ps[k].obligation = p /\ ps[k].status = "PUBLISHED" => k = obs[p].currentPlan
        BY <2>1 DEF OneCurrent
    <2> QED BY <1>1, <1>2, <1>3, <1>4, <1>6, <2>1, <2>2
<1> QED BY <1>5, <1>6

\* Withdrawing the current plan leaves the obligation without a published one.
LEMMA CurrentWithdrawn ==
    ASSUME NEW obs, NEW ps \in Seq(Plan), OneCurrent(obs, ps),
           NEW o \in DOMAIN obs, NEW from \in Int,
           NEW new, WithdrawnAs(ps, new, o, obs[o].currentPlan, from),
           NEW newObs, DOMAIN newObs = DOMAIN obs,
           \A p \in DOMAIN obs \ {o} : newObs[p].currentPlan = obs[p].currentPlan,
           newObs[o].currentPlan = NoPlan
    PROVE  OneCurrent(newObs, new)
<1> DEFINE current == obs[o].currentPlan
<1>1. /\ DOMAIN new = DOMAIN ps
      /\ \A k \in DOMAIN ps :
            /\ new[k].obligation = ps[k].obligation
            /\ new[k].status = IF k = current /\ ps[k].obligation = o
                               THEN "SUPERSEDED" ELSE ps[k].status
    BY DEF WithdrawnAs
<1> QED BY <1>1 DEF OneCurrent

-----------------------------------------------------------------------------
(* What each operation does to the plans                                   *)

\* A new obligation has no plan yet.
LEMMA NoEarlierPlans ==
    ASSUME IInv
    PROVE  /\ \A k \in DOMAIN plans : plans[k].obligation # Len(obligations) + 1
           /\ PlanVersionFree(plans, Len(obligations) + 1)
           /\ Len(obligations) + 1 \in Nat
           /\ plans \in Seq(Plan)
<1>1. Len(obligations) \in Nat /\ DOMAIN obligations = 1 .. Len(obligations)
    BY ObligationFacts DEF IInv, Shapes
<1>2. \A k \in DOMAIN plans : plans[k].obligation \in 1 .. Len(obligations)
    BY <1>1 DEF IInv, PlanRefs
<1>3. \A k \in DOMAIN plans : plans[k].obligation # Len(obligations) + 1
    BY <1>1, <1>2
<1>4. PlanVersionFree(plans, Len(obligations) + 1)
    BY <1>3 DEF PlanVersionFree
<1> QED BY <1>1, <1>3, <1>4 DEF IInv, Shapes

\* createBaselineObligation adds the baseline plan of a new obligation.
LEMMA CreateBaselineEffect ==
    ASSUME IInv, NEW w, NEW term \in Nat \ {0}, NEW from \in Int, CreateBaseline(w, term, from)
    PROVE  /\ PublishedAs(plans, plans', Len(obligations) + 1,
                          NewRows(LoansOwe, LoansOwePenalty, term, from), from)
           /\ obligations' = Append(obligations,
                                    NewObligation(LoansOwe, LoansOwePenalty, Len(plans) + 1))
<1> DEFINE o == Len(obligations) + 1
<1>1. plans' = PublishPlan(plans, o, LoansOwe, LoansOwePenalty, term, from)
    BY DEF CreateBaseline
<1>2. plans \in Seq(Plan) /\ o \in Nat /\ PlanVersionFree(plans, o)
    BY NoEarlierPlans
<1>3. LoansOwe \in Nat /\ LoansOwePenalty \in Nat
    BY LoansOweNat
<1>4. PublishedAs(plans, plans', o, NewRows(LoansOwe, LoansOwePenalty, term, from), from)
    <2> HIDE DEF o
    <2>1. PublishedAs(plans, PublishPlan(plans, o, LoansOwe, LoansOwePenalty, term, from), o,
                      NewRows(LoansOwe, LoansOwePenalty, term, from), from)
        BY <1>2, <1>3, PublishPlans
    <2> QED BY <1>1, <2>1
<1> QED BY <1>4 DEF CreateBaseline

\* disburseAdvance adds the first plan of a new obligation.
LEMMA DisburseFirstEffect ==
    ASSUME IInv, NEW total \in Nat, NEW tenure \in Nat \ {0}, DisburseFirst(total, tenure)
    PROVE  /\ PublishedAs(plans, plans', Len(obligations) + 1,
                          NewRows(total, 0, tenure, FirstOpenPeriod(month, official)),
                          FirstOpenPeriod(month, official))
           /\ obligations' = Append(obligations, NewObligation(total, 0, Len(plans) + 1))
<1> DEFINE o == Len(obligations) + 1
           from == FirstOpenPeriod(month, official)
<1>1. plans' = PublishPlan(plans, o, total, 0, tenure, from)
    BY DEF DisburseFirst
<1>2. plans \in Seq(Plan) /\ o \in Nat /\ PlanVersionFree(plans, o)
    BY NoEarlierPlans
<1>3. from \in Int
    BY FromInt DEF IInv, Shapes
<1>4. PublishedAs(plans, plans', o, NewRows(total, 0, tenure, from), from)
    <2> HIDE DEF o, from
    <2>1. PublishedAs(plans, PublishPlan(plans, o, total, 0, tenure, from), o,
                      NewRows(total, 0, tenure, from), from)
        BY <1>2, <1>3, PublishPlans
    <2> QED BY <1>1, <2>1
<1> QED BY <1>4 DEF DisburseFirst

\* disburseAdvance over legacy loans adds the baseline plan and its replacement.
LEMMA DisburseOnLegacyEffect ==
    ASSUME IInv, NEW total \in Nat, NEW tenure \in Nat \ {0}, NEW legacyTerm \in Nat \ {0},
           NEW isTopup, DisburseOnLegacy(total, tenure, legacyTerm, isTopup)
    PROVE  LET o == Len(obligations) + 1
               from == FirstOpenPeriod(month, official)
           IN  /\ \E baseline \in Seq(Plan), term \in Nat \ {0} :
                     /\ PublishedAs(plans, baseline, o,
                                    NewRows(LoansOwe, LoansOwePenalty, legacyTerm, month), month)
                     /\ PublishedAs(baseline, plans', o,
                                    NewRows(LoansOwe + total, LoansOwePenalty, term, from), from)
               /\ obligations' = Append(obligations,
                      NewObligation(LoansOwe + total, LoansOwePenalty, Len(plans) + 2))
<1> DEFINE o == Len(obligations) + 1
           from == FirstOpenPeriod(month, official)
           baseline == PublishPlan(plans, o, LoansOwe, LoansOwePenalty, legacyTerm, month)
           term == ConsolidatedTerm(isTopup, EffectiveTerm(LoansOwe, legacyTerm), tenure)
           owed == LoansOwe + total
<1>1. /\ plans' = PublishPlan(baseline, o, owed, LoansOwePenalty, term, from)
      /\ CanPublish(baseline, o, owed, LoansOwePenalty, term)
    BY DEF DisburseOnLegacy
<1>2. plans \in Seq(Plan) /\ o \in Nat /\ PlanVersionFree(plans, o)
    BY NoEarlierPlans
<1>3. from \in Int /\ month \in Int
    BY FromInt, PeriodsFinite DEF IInv, Shapes
<1>4. LoansOwe \in Nat /\ LoansOwePenalty \in Nat /\ owed \in Nat
    BY LoansOweNat
<1>5. term \in Nat \ {0}
    BY DEF ConsolidatedTerm, Greatest, EffectiveTerm
<1> HIDE DEF o, from, term, owed
<1>6. PublishedAs(plans, baseline, o, NewRows(LoansOwe, LoansOwePenalty, legacyTerm, month), month)
    BY <1>2, <1>3, <1>4, PublishPlans
<1>7. baseline \in Seq(Plan) /\ PlanVersionFree(baseline, o)
    <2>1. Published(plans, baseline, o)
        BY <1>2, <1>3, <1>4, PublishPlanShape
    <2> HIDE DEF baseline
    <2> QED BY <1>1, <2>1 DEF Published, CanPublish
<1> HIDE DEF baseline
<1>8. PublishedAs(baseline, plans', o, NewRows(owed, LoansOwePenalty, term, from), from)
    <2>1. PublishedAs(baseline, PublishPlan(baseline, o, owed, LoansOwePenalty, term, from), o,
                      NewRows(owed, LoansOwePenalty, term, from), from)
        BY <1>2, <1>3, <1>4, <1>5, <1>7, PublishPlans
    <2> QED BY <1>1, <2>1
<1>9. obligations' = Append(obligations,
          NewObligation(LoansOwe + total, LoansOwePenalty, Len(plans) + 2))
    BY DEF DisburseOnLegacy
<1> QED BY <1>5, <1>6, <1>7, <1>8, <1>9 DEF o, from, owed

\* Obligation o alone changes, to these balances, status and current plan.
ObligationMoves(o, contractual, penalty, status, plan) ==
    /\ DOMAIN obligations' = DOMAIN obligations
    /\ \A q \in DOMAIN obligations \ {o} : obligations'[q] = obligations[q]
    /\ obligations'[o].contractual = contractual
    /\ obligations'[o].penalty = penalty
    /\ obligations'[o].status = status
    /\ obligations'[o].currentPlan = plan

\* An obligation replaced by one with another current plan.
LEMMA MovesWithPlan ==
    ASSUME NEW o \in DOMAIN obligations, NEW ob \in Obligation, NEW plan \in Nat,
           obligations' = [obligations EXCEPT ![o] = [ob EXCEPT !.currentPlan = plan]]
    PROVE  ObligationMoves(o, ob.contractual, ob.penalty, ob.status, plan)
<1> DEFINE new == [ob EXCEPT !.currentPlan = plan]
<1>1. /\ new.contractual = ob.contractual /\ new.penalty = ob.penalty
      /\ new.status = ob.status /\ new.currentPlan = plan
    BY PlanUpdate
<1>2. obligations' = [obligations EXCEPT ![o] = new]
    OBVIOUS
<1> HIDE DEF new
<1> QED BY <1>1, <1>2 DEF ObligationMoves

\* Publishing a plan for an obligation, when it can be.
LEMMA PublishEffect ==
    ASSUME IInv, NEW o \in Nat, NEW contractual \in Nat, NEW penalty \in Nat,
           NEW term \in Nat \ {0}, NEW from \in Int,
           CanPublish(plans, o, contractual, penalty, term),
           plans' = PublishPlan(plans, o, contractual, penalty, term, from)
    PROVE  PublishedAs(plans, plans', o, NewRows(contractual, penalty, term, from), from)
<1>1. PlanVersionFree(plans, o) /\ plans \in Seq(Plan)
    BY DEF CanPublish, IInv, Shapes
<1>2. PublishedAs(plans, PublishPlan(plans, o, contractual, penalty, term, from), o,
                  NewRows(contractual, penalty, term, from), from)
    BY <1>1, PublishPlans
<1> QED BY <1>2

(***************************************************************************)
(* Obligation o comes to owe `contractual' and `penalty', and what no      *)
(* published row claims of them is planned again, or the current plan      *)
(* withdrawn when nothing is left to plan.                                 *)
(***************************************************************************)
Replanned(o, contractual, penalty, status, term, from) ==
    LET fc == Available(o, from, contractual, penalty).contractual
        fp == Available(o, from, contractual, penalty).penalty
    IN  /\ fc \in Nat /\ fp \in Nat
        /\ fc > 0 \/ fp > 0 =>
              /\ PublishedAs(plans, plans', o, NewRows(fc, fp, term, from), from)
              /\ ObligationMoves(o, contractual, penalty, status, Len(plans) + 1)
        /\ fc = 0 /\ fp = 0 =>
              /\ WithdrawnAs(plans, plans', o, obligations[o].currentPlan, from)
              /\ ObligationMoves(o, contractual, penalty, status, NoPlan)

\* Both ways of planning again change the obligation and its plans so.
LEMMA ReplanEffect ==
    ASSUME IInv, NEW o \in DOMAIN obligations, NEW ob \in Obligation,
           NEW term \in Nat \ {0}, NEW from \in Int,
           LET future == Available(o, from, ob.contractual, ob.penalty) IN
           IF future.contractual > 0 \/ future.penalty > 0
           THEN /\ CanPublish(plans, o, future.contractual, future.penalty, term)
                /\ plans' = PublishPlan(plans, o, future.contractual, future.penalty, term, from)
                /\ obligations' = [obligations EXCEPT
                       ![o] = [ob EXCEPT !.currentPlan = Len(plans) + 1]]
           ELSE /\ plans' = WithdrawPlan(plans, o, obligations[o].currentPlan, from)
                /\ obligations' = [obligations EXCEPT ![o] = [ob EXCEPT !.currentPlan = NoPlan]]
    PROVE  Replanned(o, ob.contractual, ob.penalty, ob.status, term, from)
<1> DEFINE fc == Available(o, from, ob.contractual, ob.penalty).contractual
           fp == Available(o, from, ob.contractual, ob.penalty).penalty
<1>1. plans \in Seq(Plan) /\ o \in Nat /\ Len(plans) + 1 \in Nat
    BY PlanFacts, BooksOf DEF IInv, Shapes
<1>2. ob.contractual \in Nat /\ ob.penalty \in Nat
    BY DEF Obligation
<1>3. fc \in Nat /\ fp \in Nat
    BY <1>2, AvailableNat DEF IInv
<1>4. fc > 0 \/ fp > 0 =>
         /\ CanPublish(plans, o, fc, fp, term)
         /\ plans' = PublishPlan(plans, o, fc, fp, term, from)
         /\ obligations' = [obligations EXCEPT ![o] = [ob EXCEPT !.currentPlan = Len(plans) + 1]]
    OBVIOUS
<1>5. ~ (fc > 0 \/ fp > 0) =>
         /\ plans' = WithdrawPlan(plans, o, obligations[o].currentPlan, from)
         /\ obligations' = [obligations EXCEPT ![o] = [ob EXCEPT !.currentPlan = NoPlan]]
    OBVIOUS
<1> HIDE DEF fc, fp
<1>6. ASSUME fc > 0 \/ fp > 0
      PROVE  /\ PublishedAs(plans, plans', o, NewRows(fc, fp, term, from), from)
             /\ ObligationMoves(o, ob.contractual, ob.penalty, ob.status, Len(plans) + 1)
    <2>1. PublishedAs(plans, plans', o, NewRows(fc, fp, term, from), from)
        BY <1>1, <1>3, <1>4, <1>6, PublishEffect
    <2> DEFINE plan == Len(plans) + 1
    <2>2. plan \in Nat /\ obligations' = [obligations EXCEPT ![o] = [ob EXCEPT !.currentPlan = plan]]
        BY <1>1, <1>4, <1>6
    <2> HIDE DEF plan
    <2>3. ObligationMoves(o, ob.contractual, ob.penalty, ob.status, plan)
        BY <2>2, MovesWithPlan
    <2> QED BY <2>1, <2>3 DEF plan
<1>7. ASSUME fc = 0 /\ fp = 0
      PROVE  /\ WithdrawnAs(plans, plans', o, obligations[o].currentPlan, from)
             /\ ObligationMoves(o, ob.contractual, ob.penalty, ob.status, NoPlan)
    <2>1. ~ (fc > 0 \/ fp > 0)
        BY <1>7
    <2>2. WithdrawnAs(plans, WithdrawPlan(plans, o, obligations[o].currentPlan, from),
                      o, obligations[o].currentPlan, from)
        BY <1>1, WithdrawPlans
    <2>3. NoPlan \in Nat
        BY DEF NoPlan
    <2>4. ObligationMoves(o, ob.contractual, ob.penalty, ob.status, NoPlan)
        BY <1>5, <2>1, <2>3, MovesWithPlan
    <2> QED BY <1>5, <2>1, <2>2, <2>4
<1> QED BY <1>3, <1>6, <1>7 DEF Replanned, fc, fp

\* What obligation o still owes after `applied' was paid on it, penalty first.
PenaltyPart(o, applied) == Least(applied, obligations[o].penalty)

ContractualLeft(o, applied) == obligations[o].contractual - (applied - PenaltyPart(o, applied))

PenaltyLeft(o, applied) == obligations[o].penalty - PenaltyPart(o, applied)

\* The obligation after a payment of at most its debt.
LEMMA PayFields ==
    ASSUME IInv, NEW o \in DOMAIN obligations, NEW amount \in Nat, NEW applied \in Nat,
           applied <= amount, applied <= obligations[o].contractual + obligations[o].penalty
    PROVE  LET ob == PayObligation(o, amount, applied)
               contractual == ContractualLeft(o, applied)
               penalty == PenaltyLeft(o, applied)
           IN  /\ ob \in Obligation
               /\ ob.contractual = contractual /\ ob.penalty = penalty
               /\ ob.status = StatusAfter(obligations[o].status, contractual, penalty)
               /\ ob.currentPlan = obligations[o].currentPlan
               /\ contractual \in Nat /\ penalty \in Nat
               /\ PenaltyPart(o, applied) \in Nat /\ applied - PenaltyPart(o, applied) \in Nat
<1> DEFINE was == obligations[o]
           pp == PenaltyPart(o, applied)
           c == ContractualLeft(o, applied)
           p == PenaltyLeft(o, applied)
           credit == was.credit + amount - applied
           status == StatusAfter(was.status, c, p)
           ob == PayObligation(o, amount, applied)
<1>1. /\ was \in Obligation /\ was.contractual \in Nat /\ was.penalty \in Nat
      /\ was.credit \in Nat /\ was.status \in {"ACTIVE", "SETTLED"}
    BY BooksOf
<1>2. ob = [was EXCEPT
               !.contractual = Floor0(was.contractual - (applied - pp)),
               !.penalty = Floor0(was.penalty - pp),
               !.credit = credit,
               !.status = StatusAfter(was.status, Floor0(was.contractual - (applied - pp)),
                                      Floor0(was.penalty - pp))]
    BY <1>1 DEF PayObligation, Obligation, PenaltyPart
<1>3. pp = Least(applied, was.penalty)
    BY DEF PenaltyPart
<1>4. c = was.contractual - (applied - pp) /\ p = was.penalty - pp
    BY DEF ContractualLeft, PenaltyLeft
<1> HIDE DEF was, pp, c, p, ob
<1>5. /\ c \in Nat /\ p \in Nat /\ credit \in Nat /\ pp \in Nat /\ applied - pp \in Nat
      /\ Floor0(was.contractual - (applied - pp)) = c
      /\ Floor0(was.penalty - pp) = p
    BY <1>1, <1>3, <1>4 DEF Least, Floor0, was
<1>6. status \in {"ACTIVE", "SETTLED"}
    BY <1>1 DEF StatusAfter
<1>7. ob = [was EXCEPT !.contractual = c, !.penalty = p, !.credit = credit, !.status = status]
    BY <1>2, <1>5
<1> HIDE DEF status, credit
<1>8. /\ ob \in Obligation
      /\ ob.contractual = c /\ ob.penalty = p /\ ob.status = status
      /\ ob.currentPlan = was.currentPlan
    BY <1>1, <1>5, <1>6, <1>7 DEF Obligation
<1> QED BY <1>5, <1>8 DEF ob, c, p, pp, status, was

\* applyUnscheduledPayment takes what it can off the debt and plans the rest again.
LEMMA ApplyUnscheduledPaymentEffect ==
    ASSUME IInv, NEW o \in DOMAIN obligations, NEW amount \in Nat,
           ApplyUnscheduledPayment(o, amount)
    PROVE  \E applied \in Nat, term \in Nat \ {0} :
              LET contractual == ContractualLeft(o, applied)
                  penalty == PenaltyLeft(o, applied)
              IN  /\ applied <= obligations[o].contractual + obligations[o].penalty
                  /\ contractual \in Nat /\ penalty \in Nat
                  /\ Replanned(o, contractual, penalty,
                               StatusAfter(obligations[o].status, contractual, penalty),
                               term, FirstOpenPeriod(month, official))
<1> DEFINE from == FirstOpenPeriod(month, official)
           applied == Least(amount, obligations[o].contractual + obligations[o].penalty)
           paid == PayObligation(o, amount, applied)
           term == RemainingTerm(o, from)
<1>1. LET future == Available(o, from, paid.contractual, paid.penalty) IN
      IF future.contractual > 0 \/ future.penalty > 0
      THEN /\ CanPublish(plans, o, future.contractual, future.penalty, term)
           /\ plans' = PublishPlan(plans, o, future.contractual, future.penalty, term, from)
           /\ obligations' = [obligations EXCEPT ![o] = [paid EXCEPT !.currentPlan = Len(plans) + 1]]
      ELSE /\ plans' = WithdrawPlan(plans, o, paid.currentPlan, from)
           /\ obligations' = [obligations EXCEPT ![o] = [paid EXCEPT !.currentPlan = NoPlan]]
    BY DEF ApplyUnscheduledPayment
<1>2. from \in Int /\ term \in Nat \ {0}
    BY FromInt, RemainingTermPositive DEF IInv, Shapes
<1>3. /\ applied \in Nat /\ applied <= amount
      /\ applied <= obligations[o].contractual + obligations[o].penalty
    BY BooksOf DEF Least
<1> DEFINE c == ContractualLeft(o, applied)
           p == PenaltyLeft(o, applied)
           status == StatusAfter(obligations[o].status, c, p)
<1>4. /\ paid \in Obligation /\ paid.contractual = c /\ paid.penalty = p
      /\ paid.status = status /\ paid.currentPlan = obligations[o].currentPlan
      /\ c \in Nat /\ p \in Nat
    <2> HIDE DEF applied
    <2> QED BY <1>3, PayFields
<1> HIDE DEF from, term, paid, c, p, status
<1>5. Replanned(o, paid.contractual, paid.penalty, paid.status, term, from)
    <2>1. LET future == Available(o, from, paid.contractual, paid.penalty) IN
          IF future.contractual > 0 \/ future.penalty > 0
          THEN /\ CanPublish(plans, o, future.contractual, future.penalty, term)
               /\ plans' = PublishPlan(plans, o, future.contractual, future.penalty, term, from)
               /\ obligations' = [obligations EXCEPT
                      ![o] = [paid EXCEPT !.currentPlan = Len(plans) + 1]]
          ELSE /\ plans' = WithdrawPlan(plans, o, obligations[o].currentPlan, from)
               /\ obligations' = [obligations EXCEPT ![o] = [paid EXCEPT !.currentPlan = NoPlan]]
        BY <1>1, <1>4
    <2>2. paid \in Obligation
        BY <1>4
    <2> QED BY <1>2, <2>1, <2>2, ReplanEffect
<1>6. Replanned(o, c, p, status, term, from)
    BY <1>4, <1>5
<1> QED BY <1>2, <1>3, <1>4, <1>6 DEF c, p, status, from

\* adjustPenalty takes a part of the penalty off and plans the rest again.
LEMMA AdjustPenaltyEffect ==
    ASSUME IInv, NEW o \in DOMAIN obligations, NEW amount \in Nat, AdjustPenalty(o, amount)
    PROVE  LET penalty == obligations[o].penalty - amount IN
           /\ penalty \in Nat
           /\ \E term \in Nat \ {0} :
                 Replanned(o, obligations[o].contractual, penalty,
                           StatusAfter(obligations[o].status, obligations[o].contractual, penalty),
                           term, FirstOpenPeriod(month, official))
<1> DEFINE from == FirstOpenPeriod(month, official)
           ob == obligations[o]
           penalty == ob.penalty - amount
           status == StatusAfter(ob.status, ob.contractual, penalty)
           term == Greatest(1, Cardinality(
                       CurrentRows(o, from, {"PLANNED", "PUBLISHED", "PARTIAL"})))
           waived == [ob EXCEPT !.penalty = penalty, !.status = status]
<1>1. LET future == Available(o, from, ob.contractual, penalty) IN
      IF future.contractual > 0 \/ future.penalty > 0
      THEN /\ CanPublish(plans, o, future.contractual, future.penalty, term)
           /\ plans' = PublishPlan(plans, o, future.contractual, future.penalty, term, from)
           /\ obligations' = [obligations EXCEPT ![o] = [waived EXCEPT !.currentPlan = Len(plans) + 1]]
      ELSE /\ plans' = WithdrawPlan(plans, o, ob.currentPlan, from)
           /\ obligations' = [obligations EXCEPT ![o] = [waived EXCEPT !.currentPlan = NoPlan]]
    BY DEF AdjustPenalty
<1>2. from \in Int
    BY FromInt DEF IInv, Shapes
<1>3. term \in Nat \ {0}
    <2>1. Cardinality(CurrentRows(o, from, {"PLANNED", "PUBLISHED", "PARTIAL"})) \in Nat
        BY CurrentRowsCount DEF IInv
    <2> QED BY <2>1 DEF Greatest
<1>4. amount <= ob.penalty
    BY DEF AdjustPenalty
<1>5. /\ ob \in Obligation /\ ob.contractual \in Nat /\ ob.penalty \in Nat
      /\ ob.status \in {"ACTIVE", "SETTLED"}
    BY BooksOf
<1>6. penalty \in Nat
    BY <1>4, <1>5
<1>7. status \in {"ACTIVE", "SETTLED"}
    BY <1>5 DEF StatusAfter
<1> HIDE DEF penalty, status, term, from, ob
<1>8. /\ waived \in Obligation /\ waived.contractual = ob.contractual
      /\ waived.penalty = penalty /\ waived.status = status
    BY <1>5, <1>6, <1>7 DEF Obligation
<1> HIDE DEF waived
<1>9. Replanned(o, waived.contractual, waived.penalty, waived.status, term, from)
    <2>1. LET future == Available(o, from, waived.contractual, waived.penalty) IN
          IF future.contractual > 0 \/ future.penalty > 0
          THEN /\ CanPublish(plans, o, future.contractual, future.penalty, term)
               /\ plans' = PublishPlan(plans, o, future.contractual, future.penalty, term, from)
               /\ obligations' = [obligations EXCEPT
                      ![o] = [waived EXCEPT !.currentPlan = Len(plans) + 1]]
          ELSE /\ plans' = WithdrawPlan(plans, o, obligations[o].currentPlan, from)
               /\ obligations' = [obligations EXCEPT ![o] = [waived EXCEPT !.currentPlan = NoPlan]]
        BY <1>1, <1>8 DEF ob
    <2>2. waived \in Obligation
        BY <1>8
    <2> QED BY <1>2, <1>3, <2>1, <2>2, ReplanEffect
<1>10. Replanned(o, ob.contractual, penalty, status, term, from)
    BY <1>8, <1>9
<1> QED BY <1>3, <1>6, <1>10 DEF penalty, status, from, ob

\* approveTenureChange plans what the obligation owes again.
LEMMA ChangeTenureEffect ==
    ASSUME IInv, NEW o \in DOMAIN obligations, NEW term \in Nat \ {0}, ChangeTenure(o, term)
    PROVE  Replanned(o, obligations[o].contractual, obligations[o].penalty,
                     obligations[o].status, term, FirstOpenPeriod(month, official))
<1> DEFINE from == FirstOpenPeriod(month, official)
           ob == obligations[o]
           future == Available(o, from, ob.contractual, ob.penalty)
<1>1. /\ CanPublish(plans, o, future.contractual, future.penalty, term)
      /\ plans' = PublishPlan(plans, o, future.contractual, future.penalty, term, from)
    BY DEF ChangeTenure
<1>2. from \in Int
    BY FromInt DEF IInv, Shapes
<1>3. ob \in Obligation /\ ob.contractual \in Nat /\ ob.penalty \in Nat
    BY BooksOf
<1>4. future.contractual > 0 \/ future.penalty > 0
    <2>1. future.contractual \in Nat /\ future.penalty \in Nat
        BY <1>3, AvailableNat DEF IInv
    <2>2. future.contractual + future.penalty > 0
        BY <1>1 DEF CanPublish, PlanInputValid
    <2> HIDE DEF future
    <2> QED BY <2>1, <2>2
<1>5. obligations' = [obligations EXCEPT ![o] = [ob EXCEPT !.currentPlan = Len(plans) + 1]]
    BY DEF ChangeTenure
<1> HIDE DEF from, ob
<1>6. IF future.contractual > 0 \/ future.penalty > 0
      THEN /\ CanPublish(plans, o, future.contractual, future.penalty, term)
           /\ plans' = PublishPlan(plans, o, future.contractual, future.penalty, term, from)
           /\ obligations' = [obligations EXCEPT ![o] = [ob EXCEPT !.currentPlan = Len(plans) + 1]]
      ELSE /\ plans' = WithdrawPlan(plans, o, obligations[o].currentPlan, from)
           /\ obligations' = [obligations EXCEPT ![o] = [ob EXCEPT !.currentPlan = NoPlan]]
    BY <1>1, <1>4, <1>5
<1>7. Replanned(o, ob.contractual, ob.penalty, ob.status, term, from)
    BY <1>2, <1>3, <1>6, ReplanEffect
<1> QED BY <1>7 DEF ob, from

\* disburseAdvance adds the new loan to the debt and plans what no published row claims.
LEMMA DisburseTopUpEffect ==
    ASSUME IInv, NEW o \in DOMAIN obligations, NEW total \in Nat, NEW tenure \in Nat \ {0},
           NEW isTopup, DisburseTopUp(o, total, tenure, isTopup)
    PROVE  LET from == FirstOpenPeriod(month, official)
               was == obligations[o]
               future == Available(o, from, was.contractual, was.penalty)
           IN  /\ future.contractual \in Nat /\ future.penalty \in Nat
               /\ \E term \in Nat \ {0} :
                     PublishedAs(plans, plans', o,
                                 NewRows(future.contractual + total, future.penalty, term, from), from)
               /\ ObligationMoves(o, was.contractual + total, was.penalty, was.status,
                                  Len(plans) + 1)
<1> DEFINE from == FirstOpenPeriod(month, official)
           was == obligations[o]
           fc == Available(o, from, was.contractual, was.penalty).contractual
           fp == Available(o, from, was.contractual, was.penalty).penalty
           term == ConsolidatedTerm(isTopup, RemainingTerm(o, from), tenure)
           owed == was.contractual + total
           planned == fc + total
           plan == Len(plans) + 1
<1>1. /\ CanPublish(plans, o, planned, fp, term)
      /\ plans' = PublishPlan(plans, o, planned, fp, term, from)
    BY DEF DisburseTopUp
<1>2. /\ was \in Obligation /\ was.contractual \in Nat /\ was.penalty \in Nat
      /\ o \in Nat
    BY BooksOf
<1>3. fc \in Nat /\ fp \in Nat
    BY <1>2, AvailableNat DEF IInv
<1>4. from \in Int
    BY FromInt DEF IInv, Shapes
<1>5. term \in Nat \ {0}
    <2>1. RemainingTerm(o, from) \in Nat \ {0}
        BY RemainingTermPositive DEF IInv
    <2> QED BY <2>1 DEF ConsolidatedTerm, Greatest
<1> HIDE DEF from, fc, fp, term
<1>6. planned \in Nat /\ owed \in Nat /\ plan \in Nat
    <2>1. Len(plans) \in Nat
        BY PlanFacts DEF IInv, Shapes
    <2> QED BY <1>2, <1>3, <2>1
<1>7. obligations' = [obligations EXCEPT
         ![o].contractual = @ + total, ![o].currentPlan = Len(plans) + 1]
    BY DEF DisburseTopUp
<1>8. ObligationMoves(o, owed, was.penalty, was.status, plan)
    <2>1. obligations \in [DOMAIN obligations -> Obligation]
        BY ObligationFacts DEF IInv, Shapes
    <2>2. obligations' = [obligations EXCEPT
             ![o] = [[was EXCEPT !.contractual = owed] EXCEPT !.currentPlan = plan]]
        BY <1>2, <1>7, <2>1 DEF Obligation
    <2> HIDE DEF owed, plan
    <2> DEFINE ob == [was EXCEPT !.contractual = owed]
    <2>3. /\ ob \in Obligation /\ ob.contractual = owed /\ ob.penalty = was.penalty
          /\ ob.status = was.status
        BY <1>2, <1>6 DEF Obligation
    <2> HIDE DEF ob, was
    <2>4. obligations' = [obligations EXCEPT ![o] = [ob EXCEPT !.currentPlan = plan]]
        BY <2>2 DEF ob
    <2>5. ObligationMoves(o, ob.contractual, ob.penalty, ob.status, plan)
        BY <1>6, <2>3, <2>4, MovesWithPlan
    <2> QED BY <2>3, <2>5
<1> HIDE DEF was, owed, planned, plan
<1>9. PublishedAs(plans, plans', o, NewRows(planned, fp, term, from), from)
    BY <1>1, <1>2, <1>3, <1>4, <1>5, <1>6, PublishEffect
<1>10. PublishedAs(plans, plans', o, NewRows(fc + total, fp, term, from), from)
    BY <1>9 DEF planned
<1>11. ObligationMoves(o, was.contractual + total, was.penalty, was.status, Len(plans) + 1)
    BY <1>8 DEF owed, plan
<1> QED BY <1>3, <1>5, <1>10, <1>11 DEF fc, fp, from, was

\* The row a payroll payment leaves.
PaidRow(row, received, taken, penaltyPaid) ==
    [row EXCEPT !.paid = row.paid + received,
                !.toPenalty = row.toPenalty + penaltyPaid,
                !.toContract = row.toContract + taken,
                !.status = IF row.paid + received >= TotalExpected(row) THEN "PAID" ELSE "PARTIAL"]

(***************************************************************************)
(* A payroll receipt of which `received' goes to row m of plan k: what the *)
(* obligation still owes of it is `applied', and both change together.     *)
(* What the loans take of the contractual part is allocated to the row.    *)
(***************************************************************************)
PaysRow(o, k, m, received, applied) ==
    /\ k \in Payable(o, m)
    /\ received <= RemainingDue(plans[k].rows[m])
    /\ received = 0 => RemainingDue(plans[k].rows[m]) = 0
    /\ applied = Least(received, obligations[o].contractual + obligations[o].penalty)
    /\ PenaltyPart(o, applied) \in Nat /\ applied - PenaltyPart(o, applied) \in Nat
    /\ ContractualLeft(o, applied) \in Nat /\ PenaltyLeft(o, applied) \in Nat
    /\ ContractualTaken(o, applied) \in Nat
    /\ ContractualTaken(o, applied) <= applied - PenaltyPart(o, applied)
    /\ ~ doubled => ContractualTaken(o, applied) = applied - PenaltyPart(o, applied)
    /\ RowWritten(plans, plans', k, m,
                  PaidRow(plans[k].rows[m], received, ContractualTaken(o, applied),
                          PenaltyPart(o, applied)))
    /\ ObligationMoves(o, ContractualLeft(o, applied), PenaltyLeft(o, applied),
                       StatusAfter(obligations[o].status, ContractualLeft(o, applied),
                                   PenaltyLeft(o, applied)),
                       obligations[o].currentPlan)

\* applyPayrollPayment writes one row and takes what it can off one obligation.
LEMMA ApplyPayrollPaymentEffect ==
    ASSUME IInv, NEW m \in Periods, NEW amount \in Nat \ {0}, ApplyPayrollPayment(m, amount)
    PROVE  \E o \in DOMAIN obligations, k \in DOMAIN plans, received \in Nat, applied \in Nat :
              PaysRow(o, k, m, received, applied)
<1> DEFINE o == Max(PayrollCandidates(m))
<1>1. PICK k \in Payable(o, m) :
         LET row      == plans[k].rows[m]
             received == Least(amount, RemainingDue(row))
             applied  == Least(received, obligations[o].contractual + obligations[o].penalty)
             penaltyPaid == Least(applied, obligations[o].penalty)
             paid     == row.paid + received
         IN /\ obligations' = [obligations EXCEPT ![o] = PayObligation(o, amount, applied)]
            /\ plans' = [plans EXCEPT ![k].rows[m] =
                  [row EXCEPT !.paid = paid,
                              !.toPenalty = row.toPenalty + penaltyPaid,
                              !.toContract = row.toContract + ContractualTaken(o, applied),
                              !.status = IF paid >= TotalExpected(row) THEN "PAID" ELSE "PARTIAL"]]
    BY DEF ApplyPayrollPayment
<1> HIDE DEF o
<1> DEFINE row == plans[k].rows[m]
           received == Least(amount, RemainingDue(row))
           applied == Least(received, obligations[o].contractual + obligations[o].penalty)
           new == PaidRow(row, received, ContractualTaken(o, applied), PenaltyPart(o, applied))
<1>2. /\ k \in DOMAIN plans /\ m \in DOMAIN plans[k].rows /\ plans[k].obligation = o
      /\ plans \in Seq(Plan)
    BY <1>1 DEF Payable, PlansOf, IInv, Shapes
<1>3. o \in DOMAIN obligations /\ row \in Installment
    BY <1>2, PlanFacts DEF IInv, PlanRefs
<1>4. obligations[o].contractual \in Nat /\ obligations[o].penalty \in Nat
    BY <1>3, BooksOf
<1>5. RemainingDue(row) \in Nat
    BY <1>3, RemainingDueNat
<1>6. /\ received \in Nat /\ applied \in Nat /\ received <= RemainingDue(row)
      /\ received = 0 => RemainingDue(row) = 0
      /\ applied <= amount /\ applied <= obligations[o].contractual + obligations[o].penalty
    <2> HIDE DEF row
    <2> QED BY <1>4, <1>5 DEF Least
<1>7. plans' = [plans EXCEPT ![k].rows[m] = new]
    BY <1>1 DEF PaidRow, PenaltyPart
<1>8. obligations' = [obligations EXCEPT ![o] = PayObligation(o, amount, applied)]
    BY <1>1
<1>9. applied = Least(received, obligations[o].contractual + obligations[o].penalty)
    OBVIOUS
<1> HIDE DEF row, received, applied, new
<1>10. RowWritten(plans, plans', k, m, new)
    <2>1. RowWritten(plans, [plans EXCEPT ![k].rows[m] = new], k, m, new)
        BY <1>2, RowUpdatePlans
    <2> QED BY <1>7, <2>1
<1> DEFINE c == ContractualLeft(o, applied)
           p == PenaltyLeft(o, applied)
           ob == PayObligation(o, amount, applied)
           status == StatusAfter(obligations[o].status, c, p)
<1>11. /\ ob \in Obligation /\ ob.contractual = c /\ ob.penalty = p
       /\ ob.status = status /\ ob.currentPlan = obligations[o].currentPlan
       /\ c \in Nat /\ p \in Nat
       /\ PenaltyPart(o, applied) \in Nat /\ applied - PenaltyPart(o, applied) \in Nat
    BY <1>3, <1>6, PayFields
<1> HIDE DEF c, p, ob, status
<1>12. ObligationMoves(o, c, p, status, obligations[o].currentPlan)
    <2>1. obligations' = [obligations EXCEPT ![o] = ob]
        BY <1>8 DEF ob
    <2> QED BY <1>3, <1>11, <2>1 DEF ObligationMoves
<1>t. /\ ContractualTaken(o, applied) \in Nat
      /\ ContractualTaken(o, applied) <= applied - PenaltyPart(o, applied)
      /\ ~ doubled => ContractualTaken(o, applied) = applied - PenaltyPart(o, applied)
    BY <1>3, <1>6, TakenFacts DEF PenaltyPart
<1>13. PaysRow(o, k, m, received, applied)
    BY <1>1, <1>6, <1>9, <1>10, <1>11, <1>12, <1>t DEF PaysRow, row, new, c, p, status
<1> QED BY <1>2, <1>3, <1>6, <1>13

\* A listed row that owes nothing is closed, and no more.
LEMMA CloseSettledEffect ==
    ASSUME IInv, NEW k \in closing.todo, CloseSettled(k)
    PROVE  RowWritten(plans, plans', k, closing.period,
                      [plans[k].rows[closing.period] EXCEPT !.status = "PAID", !.closed = TRUE])
<1> DEFINE m == closing.period
           new == [plans[k].rows[closing.period] EXCEPT !.status = "PAID", !.closed = TRUE]
<1>1. plans' = [plans EXCEPT ![k].rows[m] = new]
    BY DEF CloseSettled, CloseWith
<1>2. plans \in Seq(Plan) /\ k \in DOMAIN plans /\ m \in DOMAIN plans[k].rows
    BY TodoRow DEF IInv, Shapes
<1> HIDE DEF m, new
<1>3. RowWritten(plans, [plans EXCEPT ![k].rows[m] = new], k, m, new)
    BY <1>2, RowUpdatePlans
<1>4. RowWritten(plans, plans', k, m, new)
    BY <1>1, <1>3
<1> QED BY <1>4 DEF m, new

\* prepareVariationSchedule marks the eligible rows of the month, or none off the payroll.
LEMMA SubmitVariationEffect ==
    ASSUME IInv, NEW m \in Periods, NEW onPayroll, SubmitVariation(m, onPayroll)
    PROVE  /\ DOMAIN plans' = DOMAIN plans
           /\ \A k \in DOMAIN plans :
                 /\ plans'[k].obligation = plans[k].obligation
                 /\ plans'[k].status = plans[k].status
                 /\ DOMAIN plans'[k].rows = DOMAIN plans[k].rows
                 /\ \A n \in DOMAIN plans[k].rows :
                       \/ plans'[k].rows[n] = plans[k].rows[n]
                       \/ /\ k \in Eligible(m) /\ n = m
                          /\ plans'[k].rows[n] = [plans[k].rows[n] EXCEPT !.status = "PUBLISHED"]
<1>1. DOMAIN plans' = DOMAIN plans
    BY DEF SubmitVariation
<1>2. ASSUME NEW k \in DOMAIN plans
      PROVE  /\ plans'[k].obligation = plans[k].obligation
             /\ plans'[k].status = plans[k].status
             /\ DOMAIN plans'[k].rows = DOMAIN plans[k].rows
             /\ \A n \in DOMAIN plans[k].rows :
                   \/ plans'[k].rows[n] = plans[k].rows[n]
                   \/ /\ k \in Eligible(m) /\ n = m
                      /\ plans'[k].rows[n] = [plans[k].rows[n] EXCEPT !.status = "PUBLISHED"]
    <2>1. CASE ~ (onPayroll /\ k \in Eligible(m))
        BY <1>2, <2>1 DEF SubmitVariation
    <2>2. CASE onPayroll /\ k \in Eligible(m)
        <3> DEFINE row == [plans[k].rows[m] EXCEPT !.status = "PUBLISHED"]
                   rows == [plans[k].rows EXCEPT ![m] = row]
        <3>1. plans[k] \in Plan
            BY PlanFacts DEF IInv, Shapes
        <3>2. plans'[k] = [plans[k] EXCEPT !.rows = rows]
            BY <2>2 DEF SubmitVariation
        <3>3. /\ DOMAIN rows = DOMAIN plans[k].rows
              /\ \A n \in DOMAIN plans[k].rows : rows[n] = IF n = m THEN row ELSE plans[k].rows[n]
            OBVIOUS
        <3> HIDE DEF rows
        <3>4. /\ plans'[k].obligation = plans[k].obligation
              /\ plans'[k].status = plans[k].status
              /\ plans'[k].rows = rows
            BY <3>1, <3>2 DEF Plan
        <3> QED BY <2>2, <3>3, <3>4
    <2> QED BY <2>1, <2>2
<1> QED BY <1>1, <1>2

(***************************************************************************)
(* A default closes the row, charges the obligation and plans the WHOLE    *)
(* contractual debt and penalty again when there is any.                   *)
(***************************************************************************)
LEMMA CloseDefaultedEffect ==
    ASSUME IInv, NEW k \in closing.todo, CloseDefaulted(k)
    PROVE  LET m == closing.period
               row == plans[k].rows[m]
               o == plans[k].obligation
               was == obligations[o]
               penalty == was.penalty + Penalty(RemainingDue(row))
               from == FirstOpenPeriod(m, official)
           IN  /\ penalty \in Nat /\ penalty >= was.penalty
               /\ \E ps \in Seq(Plan), term \in Nat \ {0} :
                     /\ RowWritten(plans, ps, k, m, DefaultedRow(row))
                     /\ was.contractual > 0 \/ penalty > 0 =>
                           /\ PublishedAs(ps, plans', o,
                                          NewRows(was.contractual, penalty, term, from), from)
                           /\ ObligationMoves(o, was.contractual, penalty, was.status,
                                              Len(plans) + 1)
                     /\ ~ (was.contractual > 0 \/ penalty > 0) =>
                           /\ plans' = ps
                           /\ ObligationMoves(o, was.contractual, penalty, was.status,
                                              was.currentPlan)
<1> DEFINE m == closing.period
           row == plans[k].rows[m]
           o == plans[k].obligation
           charge == Penalty(RemainingDue(row))
           was == obligations[o]
           penalty == was.penalty + charge
           closed == DefaultedRow(row)
           ps == CloseWith(k, closed)
           from == FirstOpenPeriod(m, official)
           replan == was.contractual > 0 \/ penalty > 0
           term == DefaultTerm(ps, o)
           charged == [was EXCEPT !.penalty = penalty]
<1>1. plans' = IF replan THEN PublishPlan(ps, o, was.contractual, penalty, term, from) ELSE ps
    BY DEF CloseDefaulted
<1>2. obligations' = [obligations EXCEPT
          ![o].penalty = penalty, ![o].currentPlan = IF replan THEN Len(plans) + 1 ELSE @]
    BY DEF CloseDefaulted
<1>3. was.contractual + penalty > 0 => PlanVersionFree(ps, o)
    BY DEF CloseDefaulted, CanDefault
<1>4. /\ k \in DOMAIN plans /\ m \in DOMAIN plans[k].rows /\ row \in Installment
      /\ o \in DOMAIN obligations /\ plans \in Seq(Plan)
    BY TodoRow DEF IInv, Shapes
<1>5. charge \in Nat
    BY <1>4, RemainingDueNat, PenaltyNat
<1>6. /\ was \in Obligation /\ was.contractual \in Nat /\ was.penalty \in Nat
      /\ o \in Nat /\ Len(plans) \in Nat
    BY <1>4, BooksOf, PlanFacts
<1>7. closed \in Installment
    <2>1. row \in Installment
        BY <1>4
    <2> HIDE DEF row
    <2> QED BY <2>1 DEF DefaultedRow, Installment
<1>8. ps = [plans EXCEPT ![k].rows[m] = closed]
    BY DEF CloseWith
<1>9. m \in Int
    BY <1>4, PlanFacts
<1> HIDE DEF m, row, charge, closed, ps, was, o
<1>10. ps \in Seq(Plan) /\ Len(ps) = Len(plans) /\ RowWritten(plans, ps, k, m, closed)
    <2>1. /\ [plans EXCEPT ![k].rows[m] = closed] \in Seq(Plan)
          /\ Len([plans EXCEPT ![k].rows[m] = closed]) = Len(plans)
          /\ Keeps(plans, [plans EXCEPT ![k].rows[m] = closed])
        BY <1>4, <1>7, RowUpdateShape
    <2>2. RowWritten(plans, [plans EXCEPT ![k].rows[m] = closed], k, m, closed)
        BY <1>4, RowUpdatePlans
    <2> QED BY <1>8, <2>1, <2>2
<1>11. from \in Int
    <2>1. IsFiniteSet(official)
        BY PeriodsFinite DEF IInv, Shapes
    <2> QED BY <1>9, <2>1, FirstOpenPeriodFound
<1>12. term \in Nat \ {0}
    BY <1>10, DefaultTermPositive
<1>13. penalty \in Nat /\ penalty >= was.penalty
    BY <1>5, <1>6
<1> HIDE DEF from, term, penalty
<1>14. obligations \in [DOMAIN obligations -> Obligation]
    BY ObligationFacts DEF IInv, Shapes
<1>15. was = obligations[o]
    BY DEF was, o
<1>16. /\ DOMAIN obligations' = DOMAIN obligations
       /\ \A q \in DOMAIN obligations \ {o} : obligations'[q] = obligations[q]
       /\ obligations'[o] = [was EXCEPT !.penalty = penalty,
                                        !.currentPlan = IF replan THEN Len(plans) + 1 ELSE @]
    <2> HIDE DEF replan
    <2> QED BY <1>2, <1>4, <1>6, <1>14, <1>15 DEF Obligation
<1>17. /\ obligations'[o].contractual = was.contractual
       /\ obligations'[o].penalty = penalty
       /\ obligations'[o].status = was.status
       /\ obligations'[o].currentPlan = IF replan THEN Len(plans) + 1 ELSE was.currentPlan
    <2> HIDE DEF replan
    <2> QED BY <1>6, <1>16 DEF Obligation
<1>18. ASSUME replan
       PROVE  /\ PublishedAs(ps, plans', o, NewRows(was.contractual, penalty, term, from), from)
              /\ ObligationMoves(o, was.contractual, penalty, was.status, Len(plans) + 1)
    <2>1. PlanVersionFree(ps, o)
        BY <1>3, <1>6, <1>13, <1>18
    <2>2. PublishedAs(ps, PublishPlan(ps, o, was.contractual, penalty, term, from), o,
                      NewRows(was.contractual, penalty, term, from), from)
        BY <1>6, <1>10, <1>11, <1>12, <1>13, <2>1, PublishPlans
    <2>3. plans' = PublishPlan(ps, o, was.contractual, penalty, term, from)
        BY <1>1, <1>18
    <2> HIDE DEF replan
    <2>4. PublishedAs(ps, plans', o, NewRows(was.contractual, penalty, term, from), from)
        BY <2>2, <2>3
    <2> QED BY <1>16, <1>17, <1>18, <2>4 DEF ObligationMoves
<1>19. ASSUME ~ replan
       PROVE  /\ plans' = ps
              /\ ObligationMoves(o, was.contractual, penalty, was.status, was.currentPlan)
    <2> HIDE DEF replan
    <2> QED BY <1>1, <1>16, <1>17, <1>19 DEF ObligationMoves
<1> QED BY <1>10, <1>12, <1>13, <1>18, <1>19 DEF m, row, o, was, penalty, from, closed, charge

-----------------------------------------------------------------------------
(* The current plan through every operation                                *)

\* The steps, their amounts, terms and months typed.
LEMMA NextCases ==
    ASSUME [Next]_vars
    PROVE  \/ UNCHANGED <<obligations, plans>>
           \/ \E w \in Workers : \E term \in Nat \ {0}, from \in Int : CreateBaseline(w, term, from)
           \/ \E total \in Nat, tenure \in Nat \ {0} : DisburseFirst(total, tenure)
           \/ \E o \in DOMAIN obligations : \E total \in Nat, tenure \in Nat \ {0} :
                 \E isTopup \in BOOLEAN : DisburseTopUp(o, total, tenure, isTopup)
           \/ \E total \in Nat, tenure, legacyTerm \in Nat \ {0} :
                 \E isTopup \in BOOLEAN : DisburseOnLegacy(total, tenure, legacyTerm, isTopup)
           \/ \E m \in Periods, amount \in Nat \ {0} : ApplyPayrollPayment(m, amount)
           \/ \E o \in DOMAIN obligations : \E amount \in Nat : ApplyUnscheduledPayment(o, amount)
           \/ \E o \in DOMAIN obligations : \E amount \in Nat : AdjustPenalty(o, amount)
           \/ \E o \in DOMAIN obligations : \E term \in Nat \ {0} : ChangeTenure(o, term)
           \/ \E m \in Periods : \E onPayroll \in BOOLEAN : SubmitVariation(m, onPayroll)
           \/ \E k \in closing.todo : CloseSettled(k)
           \/ \E k \in closing.todo : CloseDefaulted(k)
<1>1. /\ \A total \in LoanTotals : total \in Nat
      /\ \A term \in Tenures : term \in Nat \ {0}
      /\ \A amount \in Receipts : amount \in Nat \ {0}
      /\ \A amount \in Waivers : amount \in Nat
      /\ \A from \in Periods : from \in Int
    BY ConstantsAssumption, PeriodsFinite DEF ConstantsAssumption
<1>2. NextMonth \/ FinishClosing \/ UNCHANGED vars => UNCHANGED <<obligations, plans>>
    BY DEF NextMonth, FinishClosing, vars
<1>3. \A m \in Periods : StartClosing(m) => UNCHANGED <<obligations, plans>>
    BY DEF StartClosing
<1>4. \A k \in closing.todo : ClosingFails(k) => UNCHANGED <<obligations, plans>>
    BY DEF ClosingFails
<1>7. \A w \in Workers :
         ListBorrower(w) \/ FindNoneOpen(w) \/ BackfillEnds(w) => UNCHANGED <<obligations, plans>>
    BY DEF ListBorrower, FindNoneOpen, BackfillEnds
<1>5. CASE Next
    BY <1>1, <1>2, <1>3, <1>4, <1>5, <1>7, Zenon DEF Next
<1>6. CASE UNCHANGED vars
    BY <1>2, <1>6
<1> QED BY <1>5, <1>6

\* A new obligation names the plan published for it.
LEMMA CurrentAppended ==
    ASSUME NEW obs \in Seq(Obligation), NEW ps \in Seq(Plan), OneCurrent(obs, ps),
           NEW ob \in Obligation, ob.currentPlan = Len(ps) + 1,
           NEW rows, NEW from \in Int, NEW new,
           PublishedAs(ps, new, Len(obs) + 1, rows, from)
    PROVE  OneCurrent(Append(obs, ob), new)
<1> DEFINE newObs == Append(obs, ob)
           o == Len(obs) + 1
<1>1. /\ newObs \in Seq(Obligation) /\ Len(newObs) = o
      /\ \A p \in 1 .. Len(obs) : newObs[p] = obs[p]
      /\ newObs[o] = ob
    BY AppendProperties
<1>2. /\ Len(obs) \in Nat /\ DOMAIN obs = 1 .. Len(obs) /\ DOMAIN newObs = 1 .. o
    BY <1>1, ObligationFacts
<1>3. DOMAIN newObs \subseteq DOMAIN obs \cup {o}
    BY <1>2
<1>4. \A p \in DOMAIN newObs \ {o} : newObs[p].currentPlan = obs[p].currentPlan
    BY <1>1, <1>2
<1>5. newObs[o].currentPlan = Len(ps) + 1
    BY <1>1
<1> HIDE DEF newObs, o
<1>6. PublishedAs(ps, new, o, rows, from)
    BY DEF o
<1>7. OneCurrent(newObs, new)
    BY <1>3, <1>4, <1>5, <1>6, CurrentPublished
<1> QED BY <1>7 DEF newObs

\* An obligation moved to the plan published for it.
LEMMA CurrentMoved ==
    ASSUME NEW ps \in Seq(Plan), OneCurrent(obligations, ps), NEW o \in DOMAIN obligations,
           NEW rows, NEW from \in Int, PublishedAs(ps, plans', o, rows, from),
           NEW contractual, NEW penalty, NEW status,
           ObligationMoves(o, contractual, penalty, status, Len(ps) + 1)
    PROVE  OneCurrent(obligations', plans')
<1>1. /\ DOMAIN obligations' \subseteq DOMAIN obligations \cup {o}
      /\ \A p \in DOMAIN obligations' \ {o} :
            obligations'[p].currentPlan = obligations[p].currentPlan
      /\ obligations'[o].currentPlan = Len(ps) + 1
    BY DEF ObligationMoves
<1> QED BY <1>1, CurrentPublished

\* An obligation planned again names the new plan, or none once it was withdrawn.
LEMMA CurrentReplanned ==
    ASSUME IInv, OneCurrent(obligations, plans), NEW o \in DOMAIN obligations,
           NEW contractual, NEW penalty, NEW status, NEW term, NEW from \in Int,
           Replanned(o, contractual, penalty, status, term, from)
    PROVE  OneCurrent(obligations', plans')
<1> DEFINE fc == Available(o, from, contractual, penalty).contractual
           fp == Available(o, from, contractual, penalty).penalty
<1>1. plans \in Seq(Plan)
    BY DEF IInv, Shapes
<1>2. fc \in Nat /\ fp \in Nat
    BY DEF Replanned
<1>3. CASE fc > 0 \/ fp > 0
    <2>1. /\ PublishedAs(plans, plans', o, NewRows(fc, fp, term, from), from)
          /\ ObligationMoves(o, contractual, penalty, status, Len(plans) + 1)
        BY <1>3 DEF Replanned
    <2> HIDE DEF fc, fp
    <2> QED BY <1>1, <2>1, CurrentMoved
<1>4. CASE fc = 0 /\ fp = 0
    <2>1. /\ WithdrawnAs(plans, plans', o, obligations[o].currentPlan, from)
          /\ ObligationMoves(o, contractual, penalty, status, NoPlan)
        BY <1>4 DEF Replanned
    <2>2. /\ DOMAIN obligations' = DOMAIN obligations
          /\ \A p \in DOMAIN obligations \ {o} :
                obligations'[p].currentPlan = obligations[p].currentPlan
          /\ obligations'[o].currentPlan = NoPlan
        BY <2>1 DEF ObligationMoves
    <2> QED BY <1>1, <2>1, <2>2, CurrentWithdrawn
<1>5. fc > 0 \/ fp > 0 \/ (fc = 0 /\ fp = 0)
    <2> HIDE DEF fc, fp
    <2> QED BY <1>2
<1> QED BY <1>3, <1>4, <1>5

\* Writing one row moves no current plan.
LEMMA CurrentRowWritten ==
    ASSUME NEW obs, NEW ps, OneCurrent(obs, ps), NEW newObs, DOMAIN newObs = DOMAIN obs,
           \A o \in DOMAIN obs : newObs[o].currentPlan = obs[o].currentPlan,
           NEW new, NEW k, NEW m, NEW row, RowWritten(ps, new, k, m, row)
    PROVE  OneCurrent(newObs, new)
BY CurrentKept DEF RowWritten

\* A baseline and its replacement in one transaction: the second plan is current.
LEMMA CurrentOnLegacy ==
    ASSUME IInv, OneCurrent(obligations, plans), NEW total \in Nat, NEW tenure \in Nat \ {0},
           NEW legacyTerm \in Nat \ {0},
           NEW isTopup, DisburseOnLegacy(total, tenure, legacyTerm, isTopup)
    PROVE  OneCurrent(obligations', plans')
<1> DEFINE o == Len(obligations) + 1
           from == FirstOpenPeriod(month, official)
           ob == NewObligation(LoansOwe + total, LoansOwePenalty, Len(plans) + 2)
           firstOb == NewObligation(LoansOwe, LoansOwePenalty, Len(plans) + 1)
           mid == Append(obligations, firstOb)
           newObs == Append(obligations, ob)
<1>1. PICK baseline \in Seq(Plan), term \in Nat \ {0} :
         /\ PublishedAs(plans, baseline, o,
                        NewRows(LoansOwe, LoansOwePenalty, legacyTerm, month), month)
         /\ PublishedAs(baseline, plans', o,
                        NewRows(LoansOwe + total, LoansOwePenalty, term, from), from)
    BY DisburseOnLegacyEffect
<1>2. obligations' = newObs
    BY DisburseOnLegacyEffect
<1>3. /\ obligations \in Seq(Obligation) /\ plans \in Seq(Plan)
      /\ Len(plans) \in Nat /\ Len(obligations) \in Nat
      /\ DOMAIN obligations = 1 .. Len(obligations)
    BY PlanFacts, ObligationFacts DEF IInv, Shapes
<1>4. month \in Int /\ from \in Int
    BY FromInt, PeriodsFinite DEF IInv, Shapes
<1>5. LoansOwe \in Nat /\ LoansOwePenalty \in Nat
    BY LoansOweNat
<1>6. firstOb \in Obligation /\ firstOb.currentPlan = Len(plans) + 1
    <2> DEFINE plan == Len(plans) + 1
    <2>1. LoansOwe \in Nat /\ LoansOwePenalty \in Nat /\ plan \in Nat
        BY <1>3, <1>5
    <2> HIDE DEF plan
    <2>2. /\ NewObligation(LoansOwe, LoansOwePenalty, plan) \in Obligation
          /\ NewObligation(LoansOwe, LoansOwePenalty, plan).currentPlan = plan
        BY <2>1, NewObligationShape
    <2> QED BY <2>2, Zenon DEF plan
<1>7. ob \in Obligation /\ ob.currentPlan = Len(plans) + 2
    <2> DEFINE owed == LoansOwe + total
               plan == Len(plans) + 2
    <2>1. owed \in Nat /\ LoansOwePenalty \in Nat /\ plan \in Nat
        BY <1>3, <1>5
    <2> HIDE DEF owed, plan
    <2>2. /\ NewObligation(owed, LoansOwePenalty, plan) \in Obligation
          /\ NewObligation(owed, LoansOwePenalty, plan).currentPlan = plan
        BY <2>1, NewObligationShape
    <2> QED BY <2>2, Zenon DEF owed, plan
<1> HIDE DEF ob, firstOb
<1>8. OneCurrent(mid, baseline)
    <2> DEFINE rows == NewRows(LoansOwe, LoansOwePenalty, legacyTerm, month)
    <2>1. PublishedAs(plans, baseline, Len(obligations) + 1, rows, month)
        BY <1>1
    <2> HIDE DEF rows
    <2> QED BY <1>3, <1>4, <1>6, <2>1, CurrentAppended
<1>9. Len(baseline) + 1 = Len(plans) + 2
    <2>1. DOMAIN baseline = 1 .. Len(plans) + 1
        BY <1>1 DEF PublishedAs
    <2>2. Len(baseline) \in Nat /\ DOMAIN baseline = 1 .. Len(baseline)
        BY PlanFacts
    <2> QED BY <1>3, <2>1, <2>2
<1>10. /\ \A p \in 1 .. Len(obligations) : mid[p] = obligations[p] /\ newObs[p] = obligations[p]
       /\ newObs[o] = ob
       /\ DOMAIN mid = 1 .. o /\ DOMAIN newObs = 1 .. o
    <2>1. /\ mid \in Seq(Obligation) /\ Len(mid) = o
          /\ \A p \in 1 .. Len(obligations) : mid[p] = obligations[p]
        BY <1>3, <1>6, AppendProperties
    <2>2. /\ newObs \in Seq(Obligation) /\ Len(newObs) = o
          /\ \A p \in 1 .. Len(obligations) : newObs[p] = obligations[p]
          /\ newObs[o] = ob
        BY <1>3, <1>7, AppendProperties
    <2> HIDE DEF mid, newObs
    <2> QED BY <2>1, <2>2, ObligationFacts
<1>11. /\ DOMAIN newObs \subseteq DOMAIN mid \cup {o}
       /\ \A p \in DOMAIN newObs \ {o} : newObs[p].currentPlan = mid[p].currentPlan
       /\ newObs[o].currentPlan = Len(baseline) + 1
    BY <1>3, <1>7, <1>9, <1>10
<1> HIDE DEF mid, newObs, o, from
<1>12. OneCurrent(newObs, plans')
    <2> DEFINE rows == NewRows(LoansOwe + total, LoansOwePenalty, term, from)
    <2>1. PublishedAs(baseline, plans', o, rows, from)
        BY <1>1
    <2> HIDE DEF rows
    <2> QED BY <1>4, <1>8, <1>11, <2>1, CurrentPublished
<1> QED BY <1>2, <1>12

\* A default names the plan it publishes, or leaves the current one.
LEMMA CurrentDefaulted ==
    ASSUME IInv, OneCurrent(obligations, plans), NEW k \in closing.todo, CloseDefaulted(k)
    PROVE  OneCurrent(obligations', plans')
<1> DEFINE m == closing.period
           row == plans[k].rows[m]
           o == plans[k].obligation
           was == obligations[o]
           penalty == was.penalty + Penalty(RemainingDue(row))
           from == FirstOpenPeriod(m, official)
           replan == was.contractual > 0 \/ penalty > 0
<1>1. PICK ps \in Seq(Plan), term \in Nat \ {0} :
         /\ RowWritten(plans, ps, k, m, DefaultedRow(row))
         /\ replan =>
               /\ PublishedAs(ps, plans', o, NewRows(was.contractual, penalty, term, from), from)
               /\ ObligationMoves(o, was.contractual, penalty, was.status, Len(plans) + 1)
         /\ ~ replan =>
               /\ plans' = ps
               /\ ObligationMoves(o, was.contractual, penalty, was.status, was.currentPlan)
    BY CloseDefaultedEffect
<1>2. o \in DOMAIN obligations /\ plans \in Seq(Plan) /\ m \in Int
    BY TodoRow, PlanFacts DEF IInv, Shapes
<1>3. from \in Int
    <2>1. IsFiniteSet(official)
        BY PeriodsFinite DEF IInv, Shapes
    <2> HIDE DEF m
    <2> QED BY <1>2, <2>1, FirstOpenPeriodFound
<1>4. OneCurrent(obligations, ps)
    BY <1>1, CurrentRowWritten
<1>5. Len(ps) = Len(plans)
    <2>1. DOMAIN ps = DOMAIN plans
        BY <1>1 DEF RowWritten
    <2> QED BY <1>2, <2>1, PlanFacts
<1> DEFINE rows == NewRows(was.contractual, penalty, term, from)
<1> HIDE DEF m, row, penalty, from, rows
<1>6. CASE replan
    <2>1. /\ PublishedAs(ps, plans', o, rows, from)
          /\ ObligationMoves(o, was.contractual, penalty, was.status, Len(ps) + 1)
        BY <1>1, <1>5, <1>6 DEF rows
    <2> QED BY <1>2, <1>3, <1>4, <2>1, CurrentMoved
<1>7. CASE ~ replan
    <2>1. plans' = ps /\ ObligationMoves(o, was.contractual, penalty, was.status, was.currentPlan)
        BY <1>1, <1>7
    <2>2. /\ DOMAIN obligations' = DOMAIN obligations
          /\ \A p \in DOMAIN obligations : obligations'[p].currentPlan = obligations[p].currentPlan
        BY <2>1 DEF ObligationMoves
    <2> QED BY <1>4, <2>1, <2>2, CurrentKept
<1> QED BY <1>6, <1>7

\* Every operation keeps the current plan the published one.
LEMMA NextCurrent ==
    ASSUME PlanInv, [Next]_vars
    PROVE  OneCurrent(obligations', plans')
<1>1. /\ IInv /\ OneCurrent(obligations, plans)
      /\ plans \in Seq(Plan) /\ obligations \in Seq(Obligation)
      /\ FirstOpenPeriod(month, official) \in Int
      /\ Len(plans) + 1 \in Nat
    BY FromInt, PlanFacts DEF PlanInv, IInv, Shapes
<1>2. CASE UNCHANGED <<obligations, plans>>
    BY <1>1, <1>2
<1>3. ASSUME NEW w \in Workers, NEW term \in Nat \ {0}, NEW from \in Int,
             CreateBaseline(w, term, from)
      PROVE  OneCurrent(obligations', plans')
    <2> DEFINE ob == NewObligation(LoansOwe, LoansOwePenalty, Len(plans) + 1)
               rows == NewRows(LoansOwe, LoansOwePenalty, term, from)
    <2>1. PublishedAs(plans, plans', Len(obligations) + 1, rows, from)
        BY <1>1, <1>3, CreateBaselineEffect
    <2>2. obligations' = Append(obligations, ob)
        BY <1>1, <1>3, CreateBaselineEffect
    <2>3. ob \in Obligation /\ ob.currentPlan = Len(plans) + 1
        BY <1>1, LoansOweNat, NewObligationShape
    <2> HIDE DEF ob, rows
    <2>4. OneCurrent(Append(obligations, ob), plans')
        BY <1>1, <2>1, <2>3, CurrentAppended
    <2> QED BY <2>2, <2>4
<1>4. ASSUME NEW total \in Nat, NEW tenure \in Nat \ {0}, DisburseFirst(total, tenure)
      PROVE  OneCurrent(obligations', plans')
    <2> DEFINE from == FirstOpenPeriod(month, official)
               ob == NewObligation(total, 0, Len(plans) + 1)
               rows == NewRows(total, 0, tenure, from)
    <2>1. PublishedAs(plans, plans', Len(obligations) + 1, rows, from)
        BY <1>1, <1>4, DisburseFirstEffect
    <2>2. obligations' = Append(obligations, ob)
        BY <1>1, <1>4, DisburseFirstEffect
    <2>3. ob \in Obligation /\ ob.currentPlan = Len(plans) + 1
        BY <1>1, NewObligationShape
    <2>4. from \in Int
        BY <1>1
    <2> HIDE DEF ob, rows, from
    <2>5. OneCurrent(Append(obligations, ob), plans')
        BY <1>1, <2>1, <2>3, <2>4, CurrentAppended
    <2> QED BY <2>2, <2>5
<1>5. ASSUME NEW o \in DOMAIN obligations, NEW total \in Nat, NEW tenure \in Nat \ {0},
             NEW isTopup \in BOOLEAN, DisburseTopUp(o, total, tenure, isTopup)
      PROVE  OneCurrent(obligations', plans')
    <2> DEFINE from == FirstOpenPeriod(month, official)
               was == obligations[o]
               future == Available(o, from, was.contractual, was.penalty)
    <2>1. /\ \E term \in Nat \ {0} :
                PublishedAs(plans, plans', o,
                            NewRows(future.contractual + total, future.penalty, term, from), from)
          /\ ObligationMoves(o, was.contractual + total, was.penalty, was.status, Len(plans) + 1)
        BY <1>1, <1>5, DisburseTopUpEffect
    <2>2. from \in Int
        BY <1>1
    <2> HIDE DEF from, future, was
    <2>3. PICK rows : PublishedAs(plans, plans', o, rows, from)
        BY <2>1
    <2> QED BY <1>1, <2>1, <2>2, <2>3, CurrentMoved
<1>6. ASSUME NEW total \in Nat, NEW tenure \in Nat \ {0}, NEW legacyTerm \in Nat \ {0},
             NEW isTopup \in BOOLEAN, DisburseOnLegacy(total, tenure, legacyTerm, isTopup)
      PROVE  OneCurrent(obligations', plans')
    BY <1>1, <1>6, CurrentOnLegacy
<1>7. ASSUME NEW m \in Periods, NEW amount \in Nat \ {0}, ApplyPayrollPayment(m, amount)
      PROVE  OneCurrent(obligations', plans')
    <2>1. PICK o \in DOMAIN obligations, k \in DOMAIN plans, received \in Nat, applied \in Nat :
             PaysRow(o, k, m, received, applied)
        BY <1>1, <1>7, ApplyPayrollPaymentEffect
    <2>2. /\ DOMAIN obligations' = DOMAIN obligations
          /\ \A p \in DOMAIN obligations : obligations'[p].currentPlan = obligations[p].currentPlan
        BY <2>1 DEF PaysRow, ObligationMoves
    <2> QED BY <1>1, <2>1, <2>2, CurrentRowWritten DEF PaysRow
<1>8. ASSUME NEW o \in DOMAIN obligations, NEW contractual, NEW penalty, NEW status, NEW term,
             Replanned(o, contractual, penalty, status, term, FirstOpenPeriod(month, official))
      PROVE  OneCurrent(obligations', plans')
    BY <1>1, <1>8, CurrentReplanned
<1>9. ASSUME NEW o \in DOMAIN obligations, NEW amount \in Nat, ApplyUnscheduledPayment(o, amount)
      PROVE  OneCurrent(obligations', plans')
    BY <1>1, <1>8, <1>9, ApplyUnscheduledPaymentEffect
<1>10. ASSUME NEW o \in DOMAIN obligations, NEW amount \in Nat, AdjustPenalty(o, amount)
       PROVE  OneCurrent(obligations', plans')
    BY <1>1, <1>8, <1>10, AdjustPenaltyEffect
<1>11. ASSUME NEW o \in DOMAIN obligations, NEW term \in Nat \ {0}, ChangeTenure(o, term)
       PROVE  OneCurrent(obligations', plans')
    BY <1>1, <1>8, <1>11, ChangeTenureEffect
<1>12. ASSUME NEW m \in Periods, NEW onPayroll \in BOOLEAN, SubmitVariation(m, onPayroll)
       PROVE  OneCurrent(obligations', plans')
    <2>1. obligations' = obligations
        BY <1>12 DEF SubmitVariation
    <2>2. /\ DOMAIN plans' = DOMAIN plans
          /\ \A k \in DOMAIN plans : /\ plans'[k].obligation = plans[k].obligation
                                     /\ plans'[k].status = plans[k].status
        BY <1>1, <1>12, SubmitVariationEffect
    <2> QED BY <1>1, <2>1, <2>2, CurrentKept
<1>13. ASSUME NEW k \in closing.todo, CloseSettled(k)
       PROVE  OneCurrent(obligations', plans')
    <2>1. obligations' = obligations
        BY <1>13 DEF CloseSettled
    <2>2. PICK row : RowWritten(plans, plans', k, closing.period, row)
        BY <1>1, <1>13, CloseSettledEffect
    <2> QED BY <1>1, <2>1, <2>2, CurrentRowWritten
<1>14. ASSUME NEW k \in closing.todo, CloseDefaulted(k)
       PROVE  OneCurrent(obligations', plans')
    BY <1>1, <1>14, CurrentDefaulted
<1> QED BY <1>2, <1>3, <1>4, <1>5, <1>6, <1>7, <1>9, <1>10, <1>11, <1>12, <1>13, <1>14, NextCases

(***************************************************************************)
(* The current plan is the published one in every reachable state: what    *)
(* publishPlan relies on for the number of the next plan.                  *)
(***************************************************************************)
THEOREM CurrentPlanInductive == Spec => []PlanInv
<1>1. Init => PlanInv
    <2> SUFFICES ASSUME Init PROVE PlanInv
        OBVIOUS
    <2>1. DOMAIN obligations = {} /\ DOMAIN plans = {}
        BY DEF Init
    <2> QED BY <2>1, InitEstablishes DEF PlanInv, OneCurrent
<1>2. PlanInv /\ [Next]_vars => PlanInv'
    <2> SUFFICES ASSUME PlanInv, [Next]_vars PROVE PlanInv'
        OBVIOUS
    <2>1. IInv'
        BY NextPreserves DEF PlanInv
    <2>2. OneCurrent(obligations', plans')
        BY NextCurrent
    <2> QED BY <2>1, <2>2 DEF PlanInv
<1> QED BY <1>1, <1>2, PTL DEF Spec

(***************************************************************************)
(* currentPlanId and the PUBLISHED plan name each other, whichever         *)
(* operations publish, withdraw and default in what order.                 *)
(***************************************************************************)
THEOREM CurrentPlanAlwaysPublished == Spec => []CurrentPlanIsThePublishedOne
<1>1. PlanInv => CurrentPlanIsThePublishedOne
    <2> SUFFICES ASSUME PlanInv, NEW o \in DOMAIN obligations
                 PROVE  {k \in PlansOf(o) : plans[k].status = "PUBLISHED"}
                           = IF obligations[o].currentPlan = NoPlan THEN {}
                             ELSE {obligations[o].currentPlan}
        BY DEF CurrentPlanIsThePublishedOne
    <2>1. NoPlan \notin DOMAIN plans
        BY PlanFacts DEF PlanInv, IInv, Shapes, NoPlan
    <2> QED BY <2>1 DEF PlanInv, OneCurrent, PlansOf
<1> QED BY <1>1, CurrentPlanInductive, PTL

-----------------------------------------------------------------------------
(* Rows on an official schedule                                            *)

\* Rows that are no longer planned are what they were.
Untouched(ps, new) ==
    \A k \in DOMAIN ps : \A m \in DOMAIN ps[k].rows :
        ps[k].rows[m].status # "PLANNED" => new[k].rows[m] = ps[k].rows[m]

\* Neither publishing nor withdrawing a plan touches a row that is no longer planned.
LEMMA ReplanningUntouched ==
    ASSUME NEW ps \in Seq(Plan), NEW new, NEW o, NEW rows, NEW from, NEW current,
           PublishedAs(ps, new, o, rows, from) \/ WithdrawnAs(ps, new, o, current, from)
    PROVE  Untouched(ps, new)
<1> SUFFICES ASSUME NEW k \in DOMAIN ps, NEW m \in DOMAIN ps[k].rows,
                    ps[k].rows[m].status # "PLANNED"
             PROVE  new[k].rows[m] = ps[k].rows[m]
    BY DEF Untouched
<1>1. ps[k] \in Plan
    BY PlanFacts
<1>2. SupersededRow(ps[k].rows[m], m, from) = ps[k].rows[m]
    BY DEF SupersededRow
<1>3. CASE PublishedAs(ps, new, o, rows, from)
    <2>1. new[k] = IF ps[k].obligation = o THEN Retired(ps[k], from) ELSE ps[k]
        BY <1>3 DEF PublishedAs
    <2>2. Retired(ps[k], from).rows[m] = ps[k].rows[m]
        BY <1>1, <1>2, SupersedeRows
    <2> QED BY <2>1, <2>2
<1>4. CASE WithdrawnAs(ps, new, o, current, from)
    BY <1>2, <1>4 DEF WithdrawnAs
<1> QED BY <1>3, <1>4

\* An unclosed row on an official schedule stands, and keeps what was collected on it.
Stands(ps, new) ==
    \A k \in DOMAIN ps : \A m \in DOMAIN ps[k].rows :
        LET row == ps[k].rows[m] IN
        (~row.closed /\ row.status \in {"PUBLISHED", "PARTIAL"}) =>
            /\ new[k].rows[m].status \in {"PUBLISHED", "PARTIAL", "PAID", "MISSED"}
            /\ new[k].rows[m].paid >= row.paid

\* A row that is what it was stands.
LEMMA UntouchedStands ==
    ASSUME NEW ps \in Seq(Plan), NEW new, Untouched(ps, new)
    PROVE  Stands(ps, new)
<1> SUFFICES ASSUME NEW k \in DOMAIN ps, NEW m \in DOMAIN ps[k].rows,
                    ps[k].rows[m].status \in {"PUBLISHED", "PARTIAL"}
             PROVE  /\ new[k].rows[m].status \in {"PUBLISHED", "PARTIAL", "PAID", "MISSED"}
                    /\ new[k].rows[m].paid >= ps[k].rows[m].paid
    BY DEF Stands
<1>1. new[k].rows[m] = ps[k].rows[m]
    BY DEF Untouched
<1>2. ps[k].rows[m].paid \in Nat
    BY PlanFacts DEF Installment
<1> QED BY <1>1, <1>2

\* Writing a row that stands by itself.
LEMMA RowWrittenStands ==
    ASSUME NEW ps \in Seq(Plan), NEW new, NEW k, NEW m, NEW row,
           RowWritten(ps, new, k, m, row),
           row.status \in {"PUBLISHED", "PARTIAL", "PAID", "MISSED"},
           row.paid >= ps[k].rows[m].paid
    PROVE  Stands(ps, new)
<1> SUFFICES ASSUME NEW j \in DOMAIN ps, NEW n \in DOMAIN ps[j].rows,
                    ps[j].rows[n].status \in {"PUBLISHED", "PARTIAL"}
             PROVE  /\ new[j].rows[n].status \in {"PUBLISHED", "PARTIAL", "PAID", "MISSED"}
                    /\ new[j].rows[n].paid >= ps[j].rows[n].paid
    BY DEF Stands
<1>1. new[j].rows[n] = IF j = k /\ n = m THEN row ELSE ps[j].rows[n]
    BY DEF RowWritten
<1>2. ps[j].rows[n].paid \in Nat
    BY PlanFacts DEF Installment
<1> QED BY <1>1, <1>2

\* `new' is `row' with this much collected on it.
CollectedOn(new, row, received, taken, penaltyPaid) ==
    /\ new \in Installment
    /\ new.scheduled = row.scheduled /\ new.penaltyDue = row.penaltyDue
    /\ new.paid = row.paid + received
    /\ new.toPenalty = row.toPenalty + penaltyPaid
    /\ new.toContract = row.toContract + taken
    /\ new.status = IF row.paid + received >= TotalExpected(row) THEN "PAID" ELSE "PARTIAL"
    /\ new.closed = row.closed

\* The fields of the row a payroll payment leaves.
LEMMA PaidRowFields ==
    ASSUME NEW row \in Installment, NEW received \in Nat, NEW taken \in Nat,
           NEW penaltyPaid \in Nat
    PROVE  CollectedOn(PaidRow(row, received, taken, penaltyPaid),
                       row, received, taken, penaltyPaid)
<1> DEFINE status == IF row.paid + received >= TotalExpected(row) THEN "PAID" ELSE "PARTIAL"
           paid == row.paid + received
           toPenalty == row.toPenalty + penaltyPaid
           toContract == row.toContract + taken
<1>1. paid \in Nat /\ toPenalty \in Nat /\ toContract \in Nat
    BY DEF Installment
<1>2. status \in {"PAID", "PARTIAL"}
    OBVIOUS
<1>3. PaidRow(row, received, taken, penaltyPaid)
        = [row EXCEPT !.paid = paid, !.toPenalty = toPenalty, !.toContract = toContract,
                      !.status = status]
    BY DEF PaidRow
<1> HIDE DEF status, paid, toPenalty, toContract
<1>4. LET new == [row EXCEPT !.paid = paid, !.toPenalty = toPenalty,
                             !.toContract = toContract, !.status = status] IN
      /\ new \in Installment
      /\ new.scheduled = row.scheduled /\ new.penaltyDue = row.penaltyDue
      /\ new.paid = paid /\ new.toPenalty = toPenalty /\ new.toContract = toContract
      /\ new.status = status /\ new.closed = row.closed
    BY <1>1, <1>2 DEF Installment
<1> QED BY <1>1, <1>3, <1>4 DEF status, paid, toPenalty, toContract, CollectedOn

\* The fields of a defaulted row.
LEMMA DefaultedRowFields ==
    ASSUME NEW row \in Installment
    PROVE  /\ DefaultedRow(row) \in Installment
           /\ DefaultedRow(row).status \in {"PARTIAL", "MISSED"}
           /\ DefaultedRow(row).closed
           /\ DefaultedRow(row).paid = row.paid
           /\ DefaultedRow(row).toContract = row.toContract
           /\ DefaultedRow(row).toPenalty = row.toPenalty
           /\ DefaultedRow(row).scheduled = row.scheduled
           /\ DefaultedRow(row).penaltyDue = row.penaltyDue
BY DEF DefaultedRow, Installment

\* Publishing keeps every plan and every month of it.
LEMMA PublishedKeepsRows ==
    ASSUME NEW ps \in Seq(Plan), NEW new, NEW o, NEW rows, NEW from \in Int,
           PublishedAs(ps, new, o, rows, from)
    PROVE  \A k \in DOMAIN ps :
              /\ k \in DOMAIN new
              /\ new[k].obligation = ps[k].obligation
              /\ DOMAIN new[k].rows = DOMAIN ps[k].rows
<1> SUFFICES ASSUME NEW k \in DOMAIN ps
             PROVE  /\ k \in DOMAIN new
                    /\ new[k].obligation = ps[k].obligation
                    /\ DOMAIN new[k].rows = DOMAIN ps[k].rows
    OBVIOUS
<1>1. k \in DOMAIN new
    BY DEF PublishedAs
<1>2. new[k] = IF ps[k].obligation = o THEN Retired(ps[k], from) ELSE ps[k]
    BY DEF PublishedAs
<1>3. /\ Retired(ps[k], from).obligation = ps[k].obligation
      /\ Retired(ps[k], from).status = "SUPERSEDED"
      /\ DOMAIN Retired(ps[k], from).rows = DOMAIN ps[k].rows
    BY PlanFacts, RetiredFacts
<1> QED BY <1>1, <1>2, <1>3

\* Leaving rows untouched composes.
LEMMA UntouchedTwice ==
    ASSUME NEW a, NEW b, NEW c, Untouched(a, b), Untouched(b, c),
           \A k \in DOMAIN a : k \in DOMAIN b /\ DOMAIN b[k].rows = DOMAIN a[k].rows
    PROVE  Untouched(a, c)
BY DEF Untouched

\* No operation withdraws a row on an official schedule or forgets what it collected.
LEMMA NextStands ==
    ASSUME PlanInv, [Next]_vars
    PROVE  Stands(plans, plans')
<1>1. /\ IInv /\ plans \in Seq(Plan) /\ FirstOpenPeriod(month, official) \in Int
    BY FromInt DEF PlanInv, IInv, Shapes
<1>2. CASE UNCHANGED <<obligations, plans>>
    <2>1. Untouched(plans, plans')
        BY <1>2 DEF Untouched
    <2> QED BY <1>1, <2>1, UntouchedStands
<1>3. ASSUME NEW o, NEW rows, NEW from, PublishedAs(plans, plans', o, rows, from)
      PROVE  Stands(plans, plans')
    BY <1>1, <1>3, ReplanningUntouched, UntouchedStands
<1>4. ASSUME NEW w \in Workers, NEW term \in Nat \ {0}, NEW from \in Int,
             CreateBaseline(w, term, from)
      PROVE  Stands(plans, plans')
    <2>1. PICK rows : PublishedAs(plans, plans', Len(obligations) + 1, rows, from)
        BY <1>1, <1>4, CreateBaselineEffect
    <2> QED BY <1>3, <2>1
<1>5. ASSUME NEW total \in Nat, NEW tenure \in Nat \ {0}, DisburseFirst(total, tenure)
      PROVE  Stands(plans, plans')
    <2>1. PICK rows, from : PublishedAs(plans, plans', Len(obligations) + 1, rows, from)
        BY <1>1, <1>5, DisburseFirstEffect
    <2> QED BY <1>3, <2>1
<1>6. ASSUME NEW o \in DOMAIN obligations, NEW total \in Nat, NEW tenure \in Nat \ {0},
             NEW isTopup \in BOOLEAN, DisburseTopUp(o, total, tenure, isTopup)
      PROVE  Stands(plans, plans')
    <2>1. PICK rows, from : PublishedAs(plans, plans', o, rows, from)
        BY <1>1, <1>6, DisburseTopUpEffect
    <2> QED BY <1>3, <2>1
<1>7. ASSUME NEW total \in Nat, NEW tenure \in Nat \ {0}, NEW legacyTerm \in Nat \ {0},
             NEW isTopup \in BOOLEAN, DisburseOnLegacy(total, tenure, legacyTerm, isTopup)
      PROVE  Stands(plans, plans')
    <2> DEFINE o == Len(obligations) + 1
    <2>5. PICK baseline \in Seq(Plan) : \E rows, newRows, from :
             /\ PublishedAs(plans, baseline, o, rows, month)
             /\ PublishedAs(baseline, plans', o, newRows, from)
        BY <1>1, <1>7, DisburseOnLegacyEffect
    <2>1. PICK rows, newRows, from :
             /\ PublishedAs(plans, baseline, o, rows, month)
             /\ PublishedAs(baseline, plans', o, newRows, from)
        BY <2>5
    <2> HIDE DEF o
    <2>2. Untouched(plans, baseline) /\ Untouched(baseline, plans')
        BY <1>1, <2>1, ReplanningUntouched
    <2>3. \A k \in DOMAIN plans :
             k \in DOMAIN baseline /\ DOMAIN baseline[k].rows = DOMAIN plans[k].rows
        <3>1. month \in Int
            BY <1>1, PeriodsFinite DEF IInv, Shapes
        <3> QED BY <1>1, <2>1, <3>1, PublishedKeepsRows
    <2>4. Untouched(plans, plans')
        BY <2>2, <2>3, UntouchedTwice
    <2> QED BY <1>1, <2>4, UntouchedStands
<1>8. ASSUME NEW m \in Periods, NEW amount \in Nat \ {0}, ApplyPayrollPayment(m, amount)
      PROVE  Stands(plans, plans')
    <2>1. PICK o \in DOMAIN obligations, k \in DOMAIN plans, received \in Nat, applied \in Nat :
             PaysRow(o, k, m, received, applied)
        BY <1>1, <1>8, ApplyPayrollPaymentEffect
    <2> DEFINE was == plans[k].rows[m]
               pp == PenaltyPart(o, applied)
               taken == ContractualTaken(o, applied)
               row == PaidRow(was, received, taken, pp)
    <2>2. was \in Installment
        BY <1>1, <2>1, PlanFacts DEF PaysRow, Payable, PlansOf
    <2>3. /\ row.paid = was.paid + received
          /\ row.status = IF was.paid + received >= TotalExpected(was) THEN "PAID" ELSE "PARTIAL"
        <3>1. pp \in Nat /\ taken \in Nat
            BY <2>1 DEF PaysRow
        <3> HIDE DEF was, pp, taken
        <3>2. CollectedOn(PaidRow(was, received, taken, pp), was, received, taken, pp)
            BY <2>2, <3>1, PaidRowFields
        <3> QED BY <3>2 DEF CollectedOn
    <2>4. was.paid \in Nat
        BY <2>2 DEF Installment
    <2>5. RowWritten(plans, plans', k, m, row)
        BY <2>1 DEF PaysRow
    <2> HIDE DEF row
    <2>6. row.status \in {"PUBLISHED", "PARTIAL", "PAID", "MISSED"} /\ row.paid >= was.paid
        <3> HIDE DEF was
        <3> QED BY <2>3, <2>4
    <2> QED BY <1>1, <2>5, <2>6, RowWrittenStands
<1>9. ASSUME NEW o \in DOMAIN obligations, NEW contractual, NEW penalty, NEW status, NEW term,
             NEW from, Replanned(o, contractual, penalty, status, term, from)
      PROVE  Stands(plans, plans')
    <2>1. \E rows, current :
             \/ PublishedAs(plans, plans', o, rows, from)
             \/ WithdrawnAs(plans, plans', o, current, from)
        BY <1>9 DEF Replanned
    <2> QED BY <1>1, <2>1, ReplanningUntouched, UntouchedStands
<1>10. ASSUME NEW o \in DOMAIN obligations, NEW amount \in Nat, ApplyUnscheduledPayment(o, amount)
       PROVE  Stands(plans, plans')
    BY <1>1, <1>9, <1>10, ApplyUnscheduledPaymentEffect
<1>11. ASSUME NEW o \in DOMAIN obligations, NEW amount \in Nat, AdjustPenalty(o, amount)
       PROVE  Stands(plans, plans')
    BY <1>1, <1>9, <1>11, AdjustPenaltyEffect
<1>12. ASSUME NEW o \in DOMAIN obligations, NEW term \in Nat \ {0}, ChangeTenure(o, term)
       PROVE  Stands(plans, plans')
    BY <1>1, <1>9, <1>12, ChangeTenureEffect
<1>13. ASSUME NEW m \in Periods, NEW onPayroll \in BOOLEAN, SubmitVariation(m, onPayroll)
       PROVE  Stands(plans, plans')
    <2> SUFFICES ASSUME NEW k \in DOMAIN plans, NEW n \in DOMAIN plans[k].rows,
                        plans[k].rows[n].status \in {"PUBLISHED", "PARTIAL"}
                 PROVE  /\ plans'[k].rows[n].status \in {"PUBLISHED", "PARTIAL", "PAID", "MISSED"}
                        /\ plans'[k].rows[n].paid >= plans[k].rows[n].paid
        BY DEF Stands
    <2> DEFINE row == plans[k].rows[n]
    <2>1. row \in Installment
        BY <1>1, PlanFacts
    <2>2. \/ plans'[k].rows[n] = row
          \/ plans'[k].rows[n] = [row EXCEPT !.status = "PUBLISHED"]
        <3>1. IInv
            BY <1>1
        <3> QED BY <1>13, <3>1, SubmitVariationEffect
    <2> HIDE DEF row
    <2>3. /\ row.paid \in Nat
          /\ [row EXCEPT !.status = "PUBLISHED"].status = "PUBLISHED"
          /\ [row EXCEPT !.status = "PUBLISHED"].paid = row.paid
        BY <2>1 DEF Installment
    <2>4. row.status \in {"PUBLISHED", "PARTIAL"}
        BY DEF row
    <2>5. plans'[k].rows[n].status \in {"PUBLISHED", "PARTIAL"} /\ plans'[k].rows[n].paid = row.paid
        BY <2>2, <2>3, <2>4
    <2> QED BY <2>3, <2>5 DEF row
<1>14. ASSUME NEW k \in closing.todo, CloseSettled(k)
       PROVE  Stands(plans, plans')
    <2> DEFINE m == closing.period
               was == plans[k].rows[closing.period]
               row == [was EXCEPT !.status = "PAID", !.closed = TRUE]
    <2>1. RowWritten(plans, plans', k, m, row)
        BY <1>1, <1>14, CloseSettledEffect
    <2>2. was \in Installment
        BY <1>1, TodoRow
    <2>3. row.status = "PAID" /\ row.paid >= plans[k].rows[m].paid
        BY <2>2 DEF Installment
    <2> HIDE DEF row, m, was
    <2> QED BY <1>1, <2>1, <2>3, RowWrittenStands
<1>15. ASSUME NEW k \in closing.todo, CloseDefaulted(k)
       PROVE  Stands(plans, plans')
    <2> DEFINE m == closing.period
               was == plans[k].rows[m]
               row == DefaultedRow(was)
               o == plans[k].obligation
    <2>0. PICK ps \in Seq(Plan) : \E rows, from :
             /\ RowWritten(plans, ps, k, m, row)
             /\ plans' = ps \/ PublishedAs(ps, plans', o, rows, from)
        BY <1>1, <1>15, CloseDefaultedEffect
    <2>1. PICK rows, from :
             /\ RowWritten(plans, ps, k, m, row)
             /\ plans' = ps \/ PublishedAs(ps, plans', o, rows, from)
        BY <2>0
    <2>2. k \in DOMAIN plans /\ m \in DOMAIN plans[k].rows /\ was \in Installment
        BY <1>1, TodoRow
    <2>3. was.paid \in Nat
        BY <2>2 DEF Installment
    <2> HIDE DEF was
    <2>4. row.status \in {"PARTIAL", "MISSED"} /\ row.paid = was.paid
        BY <2>2, DefaultedRowFields
    <2> HIDE DEF row, m, o
    <2>5. Untouched(ps, plans')
        <3>1. CASE plans' = ps
            BY <3>1 DEF Untouched
        <3>2. CASE PublishedAs(ps, plans', o, rows, from)
            BY <3>2, ReplanningUntouched
        <3> QED BY <2>1, <3>1, <3>2
    <2> SUFFICES ASSUME NEW j \in DOMAIN plans, NEW n \in DOMAIN plans[j].rows,
                        plans[j].rows[n].status \in {"PUBLISHED", "PARTIAL"}
                 PROVE  /\ plans'[j].rows[n].status \in {"PUBLISHED", "PARTIAL", "PAID", "MISSED"}
                        /\ plans'[j].rows[n].paid >= plans[j].rows[n].paid
        BY DEF Stands
    <2>6. /\ j \in DOMAIN ps /\ n \in DOMAIN ps[j].rows
          /\ ps[j].rows[n] = IF j = k /\ n = m THEN row ELSE plans[j].rows[n]
        BY <2>1 DEF RowWritten
    <2>7. ps[j].rows[n].status # "PLANNED"
        BY <2>4, <2>6
    <2>8. plans'[j].rows[n] = ps[j].rows[n]
        BY <2>5, <2>6, <2>7 DEF Untouched
    <2>9. plans[j].rows[n].paid \in Nat
        BY <1>1, PlanFacts DEF Installment
    <2>10. j = k /\ n = m => plans[j].rows[n] = was
        BY DEF was
    <2> QED BY <2>3, <2>4, <2>6, <2>8, <2>9, <2>10
<1> QED BY <1>2, <1>4, <1>5, <1>6, <1>7, <1>8, <1>10, <1>11, <1>12, <1>13, <1>14, <1>15, NextCases

(***************************************************************************)
(* A row on an official schedule is never withdrawn before it is closed,   *)
(* and what payroll paid on it is never forgotten, whatever is planned     *)
(* again around it.                                                        *)
(***************************************************************************)
THEOREM PublishedRowsAlwaysStand == Spec => PublishedRowsStand
<1>1. PlanInv /\ [Next]_vars => Stands(plans, plans')
    BY NextStands
<1>2. PlanInv /\ [Next]_vars =>
         \A k \in DOMAIN plans : \A m \in DOMAIN plans[k].rows :
            LET row == plans[k].rows[m] IN
            (~row.closed /\ row.status \in {"PUBLISHED", "PARTIAL"}) =>
                /\ plans'[k].rows[m].status \in {"PUBLISHED", "PARTIAL", "PAID", "MISSED"}
                /\ plans'[k].rows[m].paid >= row.paid
    BY <1>1 DEF Stands
<1> QED BY <1>2, CurrentPlanInductive, PTL DEF Spec, PublishedRowsStand

-----------------------------------------------------------------------------
(* The loan statement                                                      *)

\* What the statement shows of each obligation, beside what the account holds.
Covers(shown, obs, twice) ==
    /\ shown \in Seq(Balance) /\ DOMAIN shown = DOMAIN obs
    /\ \A o \in DOMAIN obs :
          /\ shown[o].penalty = obs[o].penalty
          /\ shown[o].contractual >= obs[o].contractual
          /\ ~ twice => shown[o].contractual = obs[o].contractual

Shown == Covers(statement, obligations, doubled)

StatementInv == IInv /\ Shown

\* A balance with another amount in one field is the balance of the two amounts.
LEMMA BalanceWith ==
    ASSUME NEW b \in Balance, NEW amount \in Nat
    PROVE  /\ b = Replayed(b.contractual, b.penalty)
           /\ [b EXCEPT !.contractual = amount] = Replayed(amount, b.penalty)
           /\ [b EXCEPT !.penalty = amount] = Replayed(b.contractual, amount)
<1> DEFINE c == [b EXCEPT !.contractual = amount]
           p == [b EXCEPT !.penalty = amount]
<1>1. \A x \in Balance : x = Replayed(x.contractual, x.penalty)
    BY DEF Balance, Replayed
<1>2. /\ c \in Balance /\ c.contractual = amount /\ c.penalty = b.penalty
      /\ p \in Balance /\ p.contractual = b.contractual /\ p.penalty = amount
    BY DEF Balance
<1> HIDE DEF c, p
<1>3. c = Replayed(amount, b.penalty) /\ p = Replayed(b.contractual, amount)
    BY <1>1, <1>2
<1> QED BY <1>1, <1>3 DEF c, p

\* One field of one entry of the statement, written as the entry.
LEMMA StatementWritten ==
    ASSUME NEW o \in DOMAIN statement, statement \in [DOMAIN statement -> Balance],
           NEW amount \in Nat
    PROVE  /\ statement' = statement =>
                 statement' = [statement EXCEPT ![o] =
                                  Replayed(statement[o].contractual, statement[o].penalty)]
           /\ statement' = [statement EXCEPT ![o].contractual = amount] =>
                 statement' = [statement EXCEPT ![o] = Replayed(amount, statement[o].penalty)]
           /\ statement' = [statement EXCEPT ![o].penalty = amount] =>
                 statement' = [statement EXCEPT ![o] = Replayed(statement[o].contractual, amount)]
<1>1. /\ [statement EXCEPT ![o].contractual = amount] =
            [statement EXCEPT ![o] = [statement[o] EXCEPT !.contractual = amount]]
      /\ [statement EXCEPT ![o].penalty = amount] =
            [statement EXCEPT ![o] = [statement[o] EXCEPT !.penalty = amount]]
      /\ statement = [statement EXCEPT ![o] = statement[o]]
    OBVIOUS
<1>2. /\ statement[o] = Replayed(statement[o].contractual, statement[o].penalty)
      /\ [statement[o] EXCEPT !.contractual = amount] = Replayed(amount, statement[o].penalty)
      /\ [statement[o] EXCEPT !.penalty = amount] = Replayed(statement[o].contractual, amount)
    BY BalanceWith
<1> QED BY <1>1, <1>2

\* A new obligation's first event shows its balances.
LEMMA AppendCovers ==
    ASSUME IInv, Shown, NEW contractual \in Nat, NEW penalty \in Nat, NEW plan \in Nat,
           obligations' = Append(obligations, NewObligation(contractual, penalty, plan)),
           statement' = Append(statement, Replayed(contractual, penalty)),
           doubled => doubled'
    PROVE  Shown'
<1> DEFINE ob == NewObligation(contractual, penalty, plan)
           b == Replayed(contractual, penalty)
           n == Len(obligations) + 1
<1>1. /\ b \in Balance /\ b.contractual = ob.contractual /\ b.penalty = ob.penalty
    BY DEF Replayed, Balance, NewObligation
<1>2. ob \in Obligation
    BY NewObligationShape
<1>3. /\ statement \in Seq(Balance) /\ obligations \in Seq(Obligation)
      /\ DOMAIN statement = 1 .. Len(statement) /\ DOMAIN obligations = 1 .. Len(obligations)
      /\ Len(statement) \in Nat /\ Len(obligations) \in Nat
      /\ DOMAIN statement = DOMAIN obligations
    BY LenProperties DEF Shown, Covers, IInv, Shapes
<1>4. Len(statement) = Len(obligations)
    <2> DEFINE shown == Len(statement)
               held == Len(obligations)
    <2>1. shown \in Nat /\ held \in Nat /\ 1 .. shown = 1 .. held
        BY <1>3
    <2> HIDE DEF shown, held
    <2>2. ASSUME shown < held PROVE FALSE
        <3>1. held \in 1 .. held /\ held \notin 1 .. shown
            BY <2>1, <2>2
        <3> QED BY <2>1, <3>1
    <2>3. ASSUME held < shown PROVE FALSE
        <3>1. shown \in 1 .. shown /\ shown \notin 1 .. held
            BY <2>1, <2>3
        <3> QED BY <2>1, <3>1
    <2>4. shown = held
        BY <2>1, <2>2, <2>3
    <2> QED BY <2>4 DEF shown, held
<1> HIDE DEF ob, b
<1>5. /\ statement' = Append(statement, b) /\ obligations' = Append(obligations, ob)
    BY DEF ob, b
<1>6. /\ statement' \in Seq(Balance) /\ DOMAIN statement' = 1 .. n
      /\ \A o \in 1 .. Len(obligations) : statement'[o] = statement[o]
      /\ statement'[n] = b
    BY <1>1, <1>3, <1>4, <1>5, AppendProperties, LenProperties
<1>7. /\ DOMAIN obligations' = 1 .. n
      /\ \A o \in 1 .. Len(obligations) : obligations'[o] = obligations[o]
      /\ obligations'[n] = ob
    BY <1>2, <1>3, <1>5, AppendProperties, LenProperties
<1>8. ob.contractual \in Nat
    BY <1>2 DEF Obligation
<1>9. ASSUME NEW o \in DOMAIN obligations'
      PROVE  /\ statement'[o].penalty = obligations'[o].penalty
             /\ statement'[o].contractual >= obligations'[o].contractual
             /\ ~ doubled' => statement'[o].contractual = obligations'[o].contractual
    <2>1. CASE o = n
        BY <1>1, <1>6, <1>7, <1>8, <2>1
    <2>2. CASE o # n
        <3>1. o \in 1 .. Len(obligations) /\ o \in DOMAIN obligations
            BY <1>3, <1>7, <2>2
        <3>2. statement'[o] = statement[o] /\ obligations'[o] = obligations[o]
            BY <1>6, <1>7, <3>1
        <3> QED BY <3>1, <3>2 DEF Shown, Covers
    <2> QED BY <2>1, <2>2
<1> QED BY <1>6, <1>7, <1>9 DEF Shown, Covers

\* A written statement and a moved obligation, held against each other.
LEMMA MovesCover ==
    ASSUME IInv, Shown, NEW o \in DOMAIN obligations,
           NEW contractual \in Nat, NEW penalty \in Nat, NEW status, NEW plan,
           ObligationMoves(o, contractual, penalty, status, plan),
           NEW replayed \in Nat,
           statement' = [statement EXCEPT ![o] = Replayed(replayed, penalty)],
           replayed >= contractual, ~ doubled => replayed = contractual,
           doubled' = doubled
    PROVE  Shown'
<1> DEFINE b == Replayed(replayed, penalty)
<1>1. b \in Balance /\ b.contractual = replayed /\ b.penalty = penalty
    BY DEF Replayed, Balance
<1> HIDE DEF b
<1>2. statement \in Seq(Balance) /\ DOMAIN statement = DOMAIN obligations
    BY DEF Shown, Covers
<1>3. /\ statement' = [statement EXCEPT ![o] = b]
      /\ statement' \in Seq(Balance) /\ DOMAIN statement' = DOMAIN statement
    <2>1. statement' = [statement EXCEPT ![o] = b]
        BY DEF b
    <2> QED BY <1>1, <1>2, <2>1, ExceptSeq
<1>4. /\ DOMAIN obligations' = DOMAIN obligations
      /\ \A q \in DOMAIN obligations \ {o} : obligations'[q] = obligations[q]
      /\ obligations'[o].contractual = contractual /\ obligations'[o].penalty = penalty
    BY DEF ObligationMoves
<1>5. ASSUME NEW q \in DOMAIN obligations'
      PROVE  /\ statement'[q].penalty = obligations'[q].penalty
             /\ statement'[q].contractual >= obligations'[q].contractual
             /\ ~ doubled' => statement'[q].contractual = obligations'[q].contractual
    <2>1. CASE q = o
        BY <1>1, <1>2, <1>3, <1>4, <2>1
    <2>2. CASE q # o
        <3>1. q \in DOMAIN obligations /\ statement'[q] = statement[q]
              /\ obligations'[q] = obligations[q]
            BY <1>2, <1>3, <1>4, <2>2
        <3> QED BY <3>1 DEF Shown, Covers
    <2> QED BY <2>1, <2>2
<1> QED BY <1>2, <1>3, <1>4, <1>5 DEF Shown, Covers

\* What is shown of one obligation.
LEMMA ShownOf ==
    ASSUME IInv, Shown, NEW o \in DOMAIN obligations
    PROVE  /\ statement[o] \in Balance /\ o \in DOMAIN statement
           /\ statement \in [DOMAIN statement -> Balance]
           /\ statement[o].contractual \in Nat /\ statement[o].penalty \in Nat
           /\ statement[o].penalty = obligations[o].penalty
           /\ statement[o].contractual >= obligations[o].contractual
           /\ ~ doubled => statement[o].contractual = obligations[o].contractual
           /\ obligations[o].contractual \in Nat /\ obligations[o].penalty \in Nat
<1>1. statement \in Seq(Balance) /\ o \in DOMAIN statement
    BY DEF Shown, Covers
<1>2. statement[o] \in Balance /\ statement \in [DOMAIN statement -> Balance]
    BY <1>1, LenProperties, ElementOfSeq
<1>3. statement[o].contractual \in Nat /\ statement[o].penalty \in Nat
    BY <1>2 DEF Balance
<1> QED BY <1>1, <1>2, <1>3, BooksOf DEF Shown, Covers

(***************************************************************************)
(* A payment: the account gives up its contractual part, the statement     *)
(* what the loans took of it, which is no more.                            *)
(***************************************************************************)
LEMMA PaymentCovers ==
    ASSUME IInv, Shown, NEW o \in DOMAIN obligations, NEW applied \in Nat,
           applied <= obligations[o].contractual + obligations[o].penalty,
           NEW status, NEW plan,
           ObligationMoves(o, ContractualLeft(o, applied), PenaltyLeft(o, applied), status, plan),
           statement' = ReplayPayment(o, applied), doubled' = doubled
    PROVE  Shown'
<1> DEFINE pp == PenaltyPart(o, applied)
           taken == ContractualTaken(o, applied)
           c == obligations[o].contractual
           p == obligations[o].penalty
           s == statement[o].contractual
           replayed == Floor0(s - taken)
<1>1. /\ statement[o] \in Balance /\ o \in DOMAIN statement
      /\ statement \in [DOMAIN statement -> Balance]
      /\ s \in Nat /\ statement[o].penalty = p /\ s >= c
      /\ ~ doubled => s = c
      /\ c \in Nat /\ p \in Nat
    BY ShownOf
<1>2. /\ taken \in Nat /\ taken <= applied - pp /\ (~ doubled => taken = applied - pp)
    BY TakenFacts DEF PenaltyPart
<1>3. pp \in Nat /\ pp <= p /\ applied - pp \in Nat /\ applied - pp <= c /\ Floor0(p - pp) = p - pp
    BY <1>1 DEF PenaltyPart, Least, Floor0
<1>4. ContractualLeft(o, applied) = c - (applied - pp) /\ PenaltyLeft(o, applied) = p - pp
    BY DEF ContractualLeft, PenaltyLeft
<1>5. statement' = [statement EXCEPT ![o].contractual = replayed, ![o].penalty = p - pp]
    BY <1>1, <1>3 DEF ReplayPayment, PenaltyPart
<1> HIDE DEF pp, taken, c, p, s
<1>6. /\ replayed \in Nat /\ replayed >= c - (applied - pp)
      /\ ~ doubled => replayed = c - (applied - pp)
    BY <1>1, <1>2, <1>3 DEF Floor0
<1> HIDE DEF replayed
<1> DEFINE rest == p - pp
<1>7. rest \in Nat /\ c - (applied - pp) \in Nat
    BY <1>1, <1>3
<1>8. statement' = [statement EXCEPT ![o] = Replayed(replayed, rest)]
    BY <1>1, <1>5, <1>6, <1>7 DEF Balance, Replayed
<1> HIDE DEF rest
<1>9. ObligationMoves(o, c - (applied - pp), rest, status, plan)
    BY <1>4 DEF rest
<1> QED BY <1>6, <1>7, <1>8, <1>9, MovesCover

\* A payroll payment replays as it was collected.
LEMMA PayrollCovers ==
    ASSUME IInv, Shown, NEW m \in Periods, NEW amount \in Nat, ApplyPayrollPayment(m, amount)
    PROVE  Shown'
<1> DEFINE o == Max(PayrollCandidates(m))
<1>1. PICK k \in Payable(o, m) :
         LET row      == plans[k].rows[m]
             received == Least(amount, RemainingDue(row))
             applied  == Least(received, obligations[o].contractual + obligations[o].penalty)
         IN /\ obligations' = [obligations EXCEPT ![o] = PayObligation(o, amount, applied)]
            /\ statement' = ReplayPayment(o, applied)
    BY DEF ApplyPayrollPayment
<1> HIDE DEF o
<1> DEFINE row == plans[k].rows[m]
           received == Least(amount, RemainingDue(row))
           applied == Least(received, obligations[o].contractual + obligations[o].penalty)
           ob == PayObligation(o, amount, applied)
<1>2. /\ k \in DOMAIN plans /\ m \in DOMAIN plans[k].rows /\ plans[k].obligation = o
      /\ plans \in Seq(Plan)
    BY <1>1 DEF Payable, PlansOf, IInv, Shapes
<1>3. o \in DOMAIN obligations /\ row \in Installment
    BY <1>2, PlanFacts DEF IInv, PlanRefs
<1>4. obligations[o].contractual \in Nat /\ obligations[o].penalty \in Nat
    BY <1>3, BooksOf
<1>5. RemainingDue(row) \in Nat
    BY <1>3, RemainingDueNat
<1>6. /\ applied \in Nat /\ applied <= amount
      /\ applied <= obligations[o].contractual + obligations[o].penalty
    <2> HIDE DEF row
    <2> QED BY <1>4, <1>5 DEF Least
<1>7. obligations' = [obligations EXCEPT ![o] = ob] /\ statement' = ReplayPayment(o, applied)
    BY <1>1
<1>8. doubled' = doubled
    BY DEF ApplyPayrollPayment
<1> HIDE DEF row, received, applied
<1>9. ob.contractual = ContractualLeft(o, applied) /\ ob.penalty = PenaltyLeft(o, applied)
    BY <1>3, <1>6, PayFields
<1> HIDE DEF ob
<1>10. ObligationMoves(o, ContractualLeft(o, applied), PenaltyLeft(o, applied),
                       ob.status, ob.currentPlan)
    BY <1>3, <1>7, <1>9 DEF ObligationMoves
<1> QED BY <1>3, <1>6, <1>7, <1>8, <1>10, PaymentCovers

\* So does a liquidation or another payment outside the schedule.
LEMMA UnscheduledCovers ==
    ASSUME IInv, Shown, NEW o \in DOMAIN obligations, NEW amount \in Nat,
           ApplyUnscheduledPayment(o, amount)
    PROVE  Shown'
<1> DEFINE applied == Least(amount, obligations[o].contractual + obligations[o].penalty)
           paid == PayObligation(o, amount, applied)
<1>1. /\ statement' = ReplayPayment(o, applied) /\ doubled' = doubled
      /\ \/ obligations' = [obligations EXCEPT ![o] = [paid EXCEPT !.currentPlan = Len(plans) + 1]]
         \/ obligations' = [obligations EXCEPT ![o] = [paid EXCEPT !.currentPlan = NoPlan]]
    BY DEF ApplyUnscheduledPayment
<1>2. /\ applied \in Nat /\ applied <= amount
      /\ applied <= obligations[o].contractual + obligations[o].penalty
    BY BooksOf DEF Least
<1> HIDE DEF applied
<1>3. /\ paid \in Obligation
      /\ paid.contractual = ContractualLeft(o, applied) /\ paid.penalty = PenaltyLeft(o, applied)
    BY <1>2, PayFields
<1> HIDE DEF paid
<1>4. PICK plan \in Nat : obligations' = [obligations EXCEPT ![o] = [paid EXCEPT !.currentPlan = plan]]
    <2>1. Len(plans) + 1 \in Nat /\ NoPlan \in Nat
        BY PlanFacts DEF IInv, Shapes, NoPlan
    <2> QED BY <1>1, <2>1
<1>5. ObligationMoves(o, paid.contractual, paid.penalty, paid.status, plan)
    BY <1>3, <1>4, MovesWithPlan
<1> QED BY <1>1, <1>2, <1>3, <1>5, PaymentCovers

\* An obligation with these balances after the replanning of what is left.
LEMMA ReplannedMoves ==
    ASSUME NEW o, NEW contractual, NEW penalty, NEW status, NEW term, NEW from,
           Replanned(o, contractual, penalty, status, term, from)
    PROVE  \E plan : ObligationMoves(o, contractual, penalty, status, plan)
<1> DEFINE fc == Available(o, from, contractual, penalty).contractual
           fp == Available(o, from, contractual, penalty).penalty
<1>1. /\ fc \in Nat /\ fp \in Nat
      /\ fc > 0 \/ fp > 0 => ObligationMoves(o, contractual, penalty, status, Len(plans) + 1)
      /\ fc = 0 /\ fp = 0 => ObligationMoves(o, contractual, penalty, status, NoPlan)
    BY DEF Replanned
<1> HIDE DEF fc, fp
<1> QED BY <1>1

\* adjustPenalty and approveTenureChange on the statement.
LEMMA AdministrationCovers ==
    ASSUME IInv, Shown, NEW o \in DOMAIN obligations,
           \/ \E amount \in Nat : AdjustPenalty(o, amount)
           \/ \E term \in Nat \ {0} : ChangeTenure(o, term)
    PROVE  Shown'
<1> DEFINE s == statement[o].contractual
           owed == obligations[o].contractual
<1>1. /\ o \in DOMAIN statement /\ statement \in [DOMAIN statement -> Balance]
      /\ s \in Nat /\ statement[o].penalty = obligations[o].penalty
      /\ owed \in Nat /\ obligations[o].penalty \in Nat
      /\ s >= owed /\ (~ doubled => s = owed)
    BY ShownOf
<1>2. ASSUME NEW amount \in Nat, AdjustPenalty(o, amount)
      PROVE  Shown'
    <2> DEFINE penalty == obligations[o].penalty - amount
    <2>1. statement' = [statement EXCEPT ![o].penalty = Floor0(@ - amount)] /\ doubled' = doubled
        BY <1>2 DEF AdjustPenalty
    <2>2. /\ penalty \in Nat
          /\ \E term \in Nat \ {0} : \E status :
                Replanned(o, owed, penalty, status, term, FirstOpenPeriod(month, official))
        BY <1>2, AdjustPenaltyEffect
    <2>3. PICK status, plan : ObligationMoves(o, owed, penalty, status, plan)
        BY <2>2, ReplannedMoves
    <2>4. Floor0(statement[o].penalty - amount) = penalty
        BY <1>1, <2>2 DEF Floor0
    <2>5. statement' = [statement EXCEPT ![o].penalty = penalty]
        BY <1>1, <2>1, <2>4
    <2> HIDE DEF penalty
    <2>6. statement' = [statement EXCEPT ![o] = Replayed(s, penalty)]
        BY <1>1, <2>2, <2>5, StatementWritten
    <2> HIDE DEF s, owed
    <2> QED BY <1>1, <2>1, <2>2, <2>3, <2>6, MovesCover
<1>3. ASSUME NEW term \in Nat \ {0}, ChangeTenure(o, term)
      PROVE  Shown'
    <2> DEFINE penalty == obligations[o].penalty
    <2>1. statement' = statement /\ doubled' = doubled
        BY <1>3 DEF ChangeTenure
    <2>2. Replanned(o, owed, penalty, obligations[o].status, term,
                    FirstOpenPeriod(month, official))
        BY <1>3, ChangeTenureEffect
    <2>3. PICK plan : ObligationMoves(o, owed, penalty, obligations[o].status, plan)
        BY <2>2, ReplannedMoves
    <2>4. statement' = [statement EXCEPT ![o] = Replayed(s, statement[o].penalty)]
        BY <1>1, <2>1, StatementWritten
    <2>5. statement' = [statement EXCEPT ![o] = Replayed(s, penalty)]
        BY <1>1, <2>4
    <2> HIDE DEF s, owed
    <2> QED BY <1>1, <2>1, <2>3, <2>5, MovesCover
<1> QED BY <1>2, <1>3

\* disburseAdvance on an open obligation adds the loan to both.
LEMMA TopUpCovers ==
    ASSUME IInv, Shown, NEW o \in DOMAIN obligations, NEW total \in Nat, NEW tenure \in Nat \ {0},
           NEW isTopup, DisburseTopUp(o, total, tenure, isTopup)
    PROVE  Shown'
<1> DEFINE s == statement[o].contractual + total
           owed == obligations[o].contractual + total
           penalty == obligations[o].penalty
<1>1. /\ o \in DOMAIN statement /\ statement \in [DOMAIN statement -> Balance]
      /\ statement[o].penalty = penalty
      /\ s \in Nat /\ owed \in Nat /\ penalty \in Nat
      /\ s >= owed /\ (~ doubled => s = owed)
    BY ShownOf
<1>2. /\ statement' = [statement EXCEPT ![o].contractual = s] /\ doubled' = doubled
    BY DEF DisburseTopUp
<1>3. ObligationMoves(o, owed, penalty, obligations[o].status, Len(plans) + 1)
    BY DisburseTopUpEffect
<1> HIDE DEF s, owed
<1>4. statement' = [statement EXCEPT ![o] = Replayed(s, statement[o].penalty)]
    BY <1>1, <1>2, StatementWritten
<1>5. statement' = [statement EXCEPT ![o] = Replayed(s, penalty)]
    BY <1>1, <1>4
<1> HIDE DEF penalty
<1> QED BY <1>1, <1>2, <1>3, <1>5, MovesCover

\* A default adds its penalty to both.
LEMMA DefaultCovers ==
    ASSUME IInv, Shown, NEW k \in closing.todo, CloseDefaulted(k)
    PROVE  Shown'
<1> DEFINE o == plans[k].obligation
           charge == Penalty(RemainingDue(plans[k].rows[closing.period]))
           penalty == obligations[o].penalty + charge
           s == statement[o].contractual
           owed == obligations[o].contractual
<1>0. o \in DOMAIN obligations
    BY TodoRow
<1>1. /\ o \in DOMAIN statement /\ statement \in [DOMAIN statement -> Balance]
      /\ s \in Nat /\ owed \in Nat
      /\ statement[o].penalty = obligations[o].penalty
      /\ s >= owed /\ (~ doubled => s = owed)
    BY <1>0, ShownOf
<1>2. statement' = [statement EXCEPT ![o].penalty = @ + charge] /\ doubled' = doubled
    BY DEF CloseDefaulted
<1>3. /\ penalty \in Nat
      /\ \E plan : ObligationMoves(o, owed, penalty, obligations[o].status, plan)
    BY CloseDefaultedEffect
<1>4. PICK plan : ObligationMoves(o, owed, penalty, obligations[o].status, plan)
    BY <1>3
<1>5. statement' = [statement EXCEPT ![o].penalty = penalty]
    BY <1>1, <1>2
<1> HIDE DEF o, charge, penalty
<1>6. statement' = [statement EXCEPT ![o] = Replayed(s, penalty)]
    BY <1>1, <1>3, <1>5, StatementWritten
<1> HIDE DEF s, owed
<1> QED BY <1>0, <1>1, <1>2, <1>3, <1>4, <1>6, MovesCover

\* A step that touches neither.
LEMMA SameCovers ==
    ASSUME Shown, UNCHANGED <<obligations, statement, doubled>>
    PROVE  Shown'
BY DEF Shown, Covers

\* Every operation replays as it was booked.
LEMMA NextCovers ==
    ASSUME StatementInv, [Next]_vars
    PROVE  Shown'
<1>1. IInv /\ Shown
    BY DEF StatementInv
<1>2. LoansOwe \in Nat /\ LoansOwePenalty \in Nat /\ Len(plans) \in Nat
    BY <1>1, LoansOweNat, PlanFacts DEF IInv, Shapes
<1>3. /\ \A total \in LoanTotals : total \in Nat
      /\ \A term \in Tenures : term \in Nat \ {0}
      /\ \A amount \in Receipts : amount \in Nat
      /\ \A amount \in Waivers : amount \in Nat
    BY ConstantsAssumption DEF ConstantsAssumption
<1>4. ASSUME NEW w, NEW m, NEW k, NEW onPayroll,
             \/ NextMonth \/ SubmitVariation(m, onPayroll) \/ StartClosing(m) \/ CloseSettled(k)
             \/ ClosingFails(k) \/ FinishClosing \/ UNCHANGED vars
             \/ ListBorrower(w) \/ FindNoneOpen(w) \/ BackfillEnds(w)
      PROVE  Shown'
    <2>1. UNCHANGED <<obligations, statement, doubled>>
        BY <1>4 DEF NextMonth, SubmitVariation, StartClosing, CloseSettled, ClosingFails,
                    FinishClosing, ListBorrower, FindNoneOpen, BackfillEnds, vars
    <2> QED BY <1>1, <2>1, SameCovers
<1>5. ASSUME NEW w, NEW term, NEW from, CreateBaseline(w, term, from)
      PROVE  Shown'
    <2>1. /\ obligations' = Append(obligations,
                                   NewObligation(LoansOwe, LoansOwePenalty, Len(plans) + 1))
          /\ statement' = Append(statement, Replayed(LoansOwe, LoansOwePenalty))
          /\ doubled => doubled'
        BY <1>5 DEF CreateBaseline
    <2>2. Len(plans) + 1 \in Nat
        BY <1>2
    <2> QED BY <1>1, <1>2, <2>1, <2>2, AppendCovers
<1>6. ASSUME NEW total \in LoanTotals, NEW tenure, DisburseFirst(total, tenure)
      PROVE  Shown'
    <2>1. /\ obligations' = Append(obligations, NewObligation(total, 0, Len(plans) + 1))
          /\ statement' = Append(statement, Replayed(total, 0))
          /\ doubled' = doubled
        BY <1>6 DEF DisburseFirst
    <2>2. Len(plans) + 1 \in Nat /\ total \in Nat
        BY <1>2, <1>3
    <2> QED BY <1>1, <2>1, <2>2, AppendCovers
<1>7. ASSUME NEW total \in LoanTotals, NEW tenure, NEW legacyTerm, NEW isTopup,
             DisburseOnLegacy(total, tenure, legacyTerm, isTopup)
      PROVE  Shown'
    <2> DEFINE owed == LoansOwe + total
               plan == Len(plans) + 2
    <2>1. /\ obligations' = Append(obligations, NewObligation(owed, LoansOwePenalty, plan))
          /\ statement' = Append(statement, Replayed(owed, LoansOwePenalty))
          /\ doubled' = doubled
        BY <1>7 DEF DisburseOnLegacy
    <2>2. plan \in Nat /\ owed \in Nat
        BY <1>2, <1>3
    <2> HIDE DEF owed, plan
    <2> QED BY <1>1, <1>2, <2>1, <2>2, AppendCovers
<1>8. ASSUME NEW total \in LoanTotals, NEW tenure \in Tenures, NEW isTopup,
             NEW o \in DOMAIN obligations, DisburseTopUp(o, total, tenure, isTopup)
      PROVE  Shown'
    BY <1>1, <1>3, <1>8, TopUpCovers
<1>9. ASSUME NEW m \in Periods, NEW amount \in Receipts, ApplyPayrollPayment(m, amount)
      PROVE  Shown'
    BY <1>1, <1>3, <1>9, PayrollCovers
<1>10. ASSUME NEW o \in DOMAIN obligations,
              \/ \E amount \in Receipts : ApplyUnscheduledPayment(o, amount)
              \/ \E amount \in Waivers : AdjustPenalty(o, amount)
              \/ \E term \in Tenures : ChangeTenure(o, term)
       PROVE  Shown'
    BY <1>1, <1>3, <1>10, UnscheduledCovers, AdministrationCovers
<1>11. ASSUME NEW k \in closing.todo, CloseDefaulted(k)
       PROVE  Shown'
    BY <1>1, <1>11, DefaultCovers
<1> QED BY <1>4, <1>5, <1>6, <1>7, <1>8, <1>9, <1>10, <1>11, Zenon DEF Next

\* The statement follows the books in every reachable state.
LEMMA StatementInductive == Spec => []StatementInv
<1>1. Init => StatementInv
    <2> SUFFICES ASSUME Init PROVE StatementInv
        OBVIOUS
    <2>1. Shown
        BY EmptySeq DEF Init, Shown, Covers
    <2> QED BY <2>1, InitEstablishes DEF StatementInv
<1>2. StatementInv /\ [Next]_vars => StatementInv'
    <2> SUFFICES ASSUME StatementInv, [Next]_vars PROVE StatementInv'
        OBVIOUS
    <2>1. IInv'
        BY NextPreserves DEF StatementInv
    <2>2. Shown'
        BY NextCovers
    <2> QED BY <2>1, <2>2 DEF StatementInv
<1> QED BY <1>1, <1>2, PTL DEF Spec

(***************************************************************************)
(* getLoanStatement, replaying the per-loan allocations of every payment,  *)
(* never shows less debt than the account it is a statement of; it shows   *)
(* the same penalty, and the same contractual debt until a second          *)
(* obligation asks for it too: for every number of loans and every amount. *)
(***************************************************************************)
THEOREM StatementAlwaysCovers == Spec => []StatementCoversAccount
<1>1. StatementInv => StatementCoversAccount
    BY DEF StatementInv, Shown, Covers, StatementCoversAccount
<1> QED BY <1>1, StatementInductive, PTL

(***************************************************************************)
(* Every row and balance keeps its shape, and plans, obligations, loan     *)
(* statements and the work list of closeRepaymentPeriod only name rows     *)
(* that exist.                                                             *)
(***************************************************************************)
THEOREM TypeCorrect == Spec => []TypeOK
<1>1. StatementInv => TypeOK
    <2> SUFFICES ASSUME StatementInv PROVE TypeOK
        OBVIOUS
    <2>1. IInv /\ Shown
        BY DEF StatementInv
    <2>2. \A k \in DOMAIN plans :
             /\ plans[k].status \in {"PUBLISHED", "SUPERSEDED"}
             /\ \A m \in DOMAIN plans[k].rows : plans[k].rows[m] \in Installment
        BY <2>1, PlanFacts DEF IInv, Shapes, Plan
    <2>3. statement \in Seq(Balance) /\ DOMAIN statement = DOMAIN obligations
        BY <2>1 DEF Shown, Covers
    <2> QED BY <2>1, <2>2, <2>3 DEF IInv, Shapes, PlanRefs, TodoRefs, TypeOK
<1> QED BY <1>1, StatementInductive, PTL
=============================================================================
