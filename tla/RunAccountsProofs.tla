-------------------------- MODULE RunAccountsProofs --------------------------
(***************************************************************************)
(* Theorems about what a run of ExtractRun spends and what it reports, for *)
(* any number of units, workers and attempts and whatever the costs: the   *)
(* spend bound of the budget gate, and the accounts of a run that ends     *)
(* without an error.                                                       *)
(*                                                                         *)
(* Sums of costs are sizes of sets.  A unit may cost Cap units of money at *)
(* most, its tokens; those up to the cost of its job are paid.             *)
(***************************************************************************)
EXTENDS ExtractRunProofs

Cap == Attempts * MaxCost

Slice(u, a, b) == {u} \X ((a + 1)..b)

Tokens == Units \X (1..Cap)

Paid(j) == {x \in Tokens : x[2] =< j[x[1]].cost}

\* What the jobs under way may still cost.
Unpaid(j) == {x \in Tokens : j[x[1]].stage # "idle" /\ ~(x[2] =< j[x[1]].cost)}

InHand(j) == {u \in Units : j[u].stage # "idle"}

\* A job costs at most MaxCost for each attempt.
Costed(j) ==
  \A u \in Units :
    /\ j[u].stage \in {"idle", "queued"} => j[u].cost = 0
    /\ j[u].stage = "calling" =>
         /\ j[u].attempt >= 1
         /\ j[u].cost =< (j[u].attempt - 1) * MaxCost
    /\ j[u].cost =< Cap

-----------------------------------------------------------------------------
(* Arithmetic and sizes.                                                   *)

\* Products of numbers are numbers, grow by one factor at a time, and grow with
\* either factor.
LEMMA Products ==
  \A i, m, n \in Nat : /\ i * m \in Nat /\ (i + 1) * m = i * m + m
                       /\ i =< n => i * m =< n * m
<1>1. ASSUME NEW i \in Nat, NEW m \in Nat, NEW n \in Nat, i =< n
      PROVE  i * m =< n * m
  <2>1. PICK k \in Nat : n = i + k
    <3>1. n - i \in Nat /\ n = i + (n - i)
      BY <1>1
    <3> QED
      BY <3>1
  <2>2. k * m \in Nat /\ n * m = i * m + k * m
    BY <2>1
  <2> QED
    BY <2>2
<1> QED
  BY <1>1

\* What a unit may cost is a number.
LEMMA CapType == Cap \in Nat /\ MaxCost \in Nat
  BY SettingsType, ConstantsAssumption, Products DEF Cap

\* Sizes of sets that share nothing add up.
LEMMA SizeOfUnion ==
  ASSUME NEW S, NEW T, IsFiniteSet(S), IsFiniteSet(T), S \cap T = {}
  PROVE  Cardinality(S \cup T) = Cardinality(S) + Cardinality(T)
<1>1. Cardinality(S \cup T) = Cardinality(S) + Cardinality(T) - Cardinality(S \cap T)
  BY FS_Union
<1>2. Cardinality(S \cap T) = 0
  BY FS_EmptySet
<1>3. Cardinality(S) \in Nat /\ Cardinality(T) \in Nat
  BY FS_CardinalityType
<1> QED
  BY <1>1, <1>2, <1>3

\* The size of what is left of a set when a part of it is taken away.
LEMMA SizeOfRest ==
  ASSUME NEW S, NEW T, IsFiniteSet(S), S \cap T = T
  PROVE  Cardinality(S \ T) = Cardinality(S) - Cardinality(T)
BY FS_Difference

\* A slice has as many tokens as its interval has numbers.
LEMMA SliceSize ==
  ASSUME NEW u, NEW a \in Nat, NEW b \in Nat, a =< b
  PROVE  IsFiniteSet(Slice(u, a, b)) /\ Cardinality(Slice(u, a, b)) = b - a
<1> DEFINE rest == (a + 1)..b
<1>1. IsFiniteSet(rest) /\ Cardinality(rest) = b - a
  <2>1. PICK c \in Int : c = a + 1
    OBVIOUS
  <2>2. IsFiniteSet(c..b) /\ Cardinality(c..b) = IF c > b THEN 0 ELSE b - c + 1
    BY <2>1, FS_Interval
  <2> QED
    BY <2>1, <2>2
<1> HIDE DEF rest
<1>2. IsFiniteSet({u}) /\ Cardinality({u}) = 1
  BY FS_Singleton
<1>3. IsFiniteSet({u} \X rest)
        /\ Cardinality({u} \X rest) = Cardinality({u}) * Cardinality(rest)
  BY <1>1, <1>2, FS_Product, Zenon
<1>4. PICK n \in Nat : n = b - a
  OBVIOUS
<1>5. Cardinality({u} \X rest) = 1 * n
  BY <1>1, <1>2, <1>3, <1>4
<1> QED
  BY <1>3, <1>4, <1>5 DEF Slice, rest

\* There are finitely many tokens.
LEMMA TokensFinite ==
  IsFiniteSet(Tokens) /\ \A S : S \subseteq Tokens => IsFiniteSet(S) /\ Cardinality(S) \in Nat
<1>1. IsFiniteSet(1..Cap)
  BY CapType, FS_Interval
<1>2. IsFiniteSet(Tokens)
  BY <1>1, FiniteUnits, FS_Product DEF Tokens
<1> QED
  BY <1>2, FS_Subset, FS_CardinalityType

\* The tokens of the jobs in hand are paid or still to come.
LEMMA Split ==
  ASSUME NEW j \in [Units -> JobSet], Costed(j)
  PROVE  Cardinality(Paid(j)) + Cardinality(Unpaid(j)) = Cardinality(InHand(j)) * Cap
<1>1. Paid(j) \cup Unpaid(j) = InHand(j) \X (1..Cap)
  <2>1. ASSUME NEW x \in Paid(j) PROVE x \in InHand(j) \X (1..Cap)
    BY CapType DEF Paid, Tokens, InHand, Costed, JobSet
  <2>2. ASSUME NEW x \in Unpaid(j) PROVE x \in InHand(j) \X (1..Cap)
    BY DEF Unpaid, Tokens, InHand
  <2>3. ASSUME NEW x \in InHand(j) \X (1..Cap) PROVE x \in Paid(j) \cup Unpaid(j)
    BY DEF Paid, Unpaid, Tokens, InHand
  <2> QED
    BY <2>1, <2>2, <2>3
<1>2. Paid(j) \cap Unpaid(j) = {} /\ Paid(j) \subseteq Tokens /\ Unpaid(j) \subseteq Tokens
  BY DEF Paid, Unpaid
<1>3. Cardinality(Paid(j) \cup Unpaid(j)) = Cardinality(Paid(j)) + Cardinality(Unpaid(j))
  BY <1>2, TokensFinite, SizeOfUnion
<1>4. IsFiniteSet(1..Cap) /\ Cardinality(1..Cap) = Cap
  BY CapType, FS_Interval
<1>5. IsFiniteSet(InHand(j))
  BY FiniteUnits DEF InHand
<1>6. Cardinality(InHand(j) \X (1..Cap)) = Cardinality(InHand(j)) * Cap
  BY <1>4, <1>5, FS_Product
<1> QED
  BY <1>1, <1>3, <1>6

\* The job of u costs that much more, and the others are as they were.
CostGrows(j, k, u, cost) ==
  /\ j \in [Units -> JobSet] /\ k \in [Units -> JobSet] /\ u \in Units
  /\ \A v \in Units \ {u} : k[v] = j[v]
  /\ cost \in Nat /\ j[u].stage # "idle" /\ k[u].stage # "idle"
  /\ k[u].cost = j[u].cost + cost /\ k[u].cost =< Cap

\* A job whose cost grows turns tokens from unpaid to paid.
LEMMA PaidGrows ==
  ASSUME NEW j, NEW k, NEW u, NEW cost, CostGrows(j, k, u, cost)
  PROVE  /\ Cardinality(Paid(k)) = Cardinality(Paid(j)) + cost
         /\ Cardinality(Unpaid(k)) = Cardinality(Unpaid(j)) - cost
<1> USE DEF CostGrows
<1>1. PICK S : S = Slice(u, j[u].cost, j[u].cost + cost)
  OBVIOUS
<1>2. j[u].cost \in Nat /\ Cap \in Nat
  BY CapType DEF JobSet
<1>3. IsFiniteSet(S) /\ Cardinality(S) = cost
  BY <1>1, <1>2, SliceSize
<1>4. \A x : x \in S <=> /\ x \in Tokens /\ x[1] = u
                         /\ ~(x[2] =< j[u].cost) /\ x[2] =< j[u].cost + cost
  BY <1>1, <1>2 DEF Slice, Tokens
<1>5. /\ Paid(k) = Paid(j) \cup S /\ Paid(j) \cap S = {}
  BY <1>2, <1>4 DEF Paid, Tokens, JobSet
<1>6. Unpaid(k) = Unpaid(j) \ S /\ Unpaid(j) \cap S = S
  BY <1>2, <1>4 DEF Unpaid, Tokens, JobSet
<1>7. IsFiniteSet(Paid(j)) /\ IsFiniteSet(Unpaid(j))
        /\ Cardinality(Paid(j)) \in Nat /\ Cardinality(Unpaid(j)) \in Nat
  BY TokensFinite DEF Paid, Unpaid
<1>8. Cardinality(Paid(k)) = Cardinality(Paid(j)) + cost
  BY <1>3, <1>5, <1>7, SizeOfUnion
<1>9. Cardinality(Unpaid(k)) = Cardinality(Unpaid(j)) - cost
  BY <1>3, <1>6, <1>7, SizeOfRest
<1> QED
  BY <1>8, <1>9

\* A job that is put away takes its tokens with it.
LEMMA PaidShrinks ==
  ASSUME NEW j \in [Units -> JobSet], Costed(j), NEW u \in Units,
         NEW k, k = [j EXCEPT ![u] = NoJob]
  PROVE  /\ Cardinality(Paid(k)) = Cardinality(Paid(j)) - j[u].cost
         /\ Cardinality(Unpaid(k)) =< Cardinality(Unpaid(j))
<1>1. PICK S : S = Slice(u, 0, j[u].cost)
  OBVIOUS
<1>2. j[u].cost \in Nat /\ j[u].cost =< Cap /\ Cap \in Nat
  BY CapType DEF JobSet, Costed
<1>3. IsFiniteSet(S) /\ Cardinality(S) = j[u].cost
  BY <1>1, <1>2, SliceSize
<1>4. \A x : x \in S <=> x \in Tokens /\ x[1] = u /\ x[2] =< j[u].cost
  BY <1>1, <1>2 DEF Slice, Tokens
<1>5. NoJob.stage = "idle" /\ NoJob.cost = 0
  BY DEF NoJob
<1>6. Paid(k) = Paid(j) \ S /\ Paid(j) \cap S = S
  BY <1>2, <1>4, <1>5 DEF Paid, Tokens, JobSet
<1>7. Unpaid(k) \subseteq Unpaid(j)
  BY <1>5 DEF Unpaid, Tokens
<1>8. IsFiniteSet(Paid(j)) /\ IsFiniteSet(Unpaid(j))
  BY TokensFinite DEF Paid, Unpaid
<1>9. Cardinality(Paid(k)) = Cardinality(Paid(j)) - j[u].cost
  BY <1>3, <1>6, <1>8, SizeOfRest
<1> QED
  BY <1>7, <1>8, <1>9, FS_Subset

\* Without jobs there is nothing paid and nothing to pay.
LEMMA NothingInHand ==
  ASSUME NEW j, j = [u \in Units |-> NoJob]
  PROVE  /\ Costed(j) /\ Cardinality(Paid(j)) = 0 /\ Cardinality(Unpaid(j)) = 0
<1>1. NoJob.stage = "idle" /\ NoJob.cost = 0
  BY DEF NoJob
<1>2. Costed(j)
  BY <1>1, CapType DEF Costed
<1>3. Paid(j) = {} /\ Unpaid(j) = {}
  BY <1>1 DEF Paid, Unpaid, Tokens
<1> QED
  BY <1>2, <1>3, FS_EmptySet

-----------------------------------------------------------------------------
(* What is spent.                                                          *)

Ceiling == IF Estimate =< Budget THEN (Budget - Estimate) + Workers * Cap ELSE 0

\* What was billed is persisted or held by jobs; with what the jobs in hand may
\* still cost it stays below the ceiling.
SpendInv ==
  /\ Costed(job)
  /\ runErr => pc \in {"drain", "finish"}
  /\ pc = "drain" /\ ~runErr => InHand(job) = {}
  /\ ~runErr => billed = spent + Cardinality(Paid(job))
  /\ Priced => billed + Cardinality(Unpaid(job)) =< Ceiling
  /\ Priced /\ pc = "pend" => spent + Estimate =< Budget

\* The ceiling is a number.
LEMMA CeilingType == Ceiling \in Nat
<1>1. Workers * Cap \in Nat
  BY SettingsType, CapType, Products
<1> QED
  BY <1>1, ConstantsAssumption DEF Ceiling

\* So are the sizes the invariant is about.
LEMMA SizesType ==
  \A j : /\ Cardinality(Paid(j)) \in Nat /\ Cardinality(Unpaid(j)) \in Nat
         /\ IsFiniteSet(InHand(j)) /\ Cardinality(InHand(j)) \in Nat
BY TokensFinite, FiniteUnits DEF Paid, Unpaid, InHand

\* A step that leaves jobs and sums alone.
LEMMA QuietSpend ==
  ASSUME SpendInv, UNCHANGED <<job, billed, spent>>,
         runErr => runErr', runErr' => pc' \in {"drain", "finish"},
         pc' = "drain" /\ ~runErr' => InHand(job) = {},
         pc' = "pend" => pc = "pend" \/ BudgetAllows
  PROVE  SpendInv'
BY DEF SpendInv, BudgetAllows

\* A run that ends or crashes forgets its jobs, and with them what they cost.
LEMMA ForgetSpend ==
  ASSUME ForgetRun
  PROVE  SpendInv'
<1>1. Costed(job') /\ Cardinality(Paid(job')) = 0 /\ Cardinality(Unpaid(job')) = 0
  BY NothingInHand DEF ForgetRun
<1> QED
  BY <1>1, CeilingType DEF ForgetRun, SpendInv

\* A unit is submitted: what it may cost is under the ceiling, since the budget
\* admitted one more estimate and the window had room.
LEMMA SubmitSpend ==
  ASSUME IInv, SpendInv, TypeOK', NEW u \in Units, Submit(u)
  PROVE  SpendInv'
<1>1. PICK q : q = [NoJob EXCEPT !.stage = "queued"]
  OBVIOUS
<1>2. q.stage = "queued" /\ q.cost = 0 /\ job' = [job EXCEPT ![u] = q]
  BY <1>1 DEF NoJob, Submit
<1>3. /\ pc = "pend" /\ pc' = "loop" /\ ~runErr /\ runErr' = runErr
      /\ billed' = billed /\ spent' = spent /\ u \in todo
  BY DEF Submit, SpendInv, IsFirst
<1>4. job[u].stage = "idle" /\ job[u].cost = 0 /\ job \in [Units -> JobSet]
        /\ job' \in [Units -> JobSet]
  BY <1>3 DEF IInv, TodoIsOpen, SpendInv, Costed, TypeOK
<1>5. Costed(job')
  BY <1>2, <1>4, CapType DEF SpendInv, Costed
<1>6. Paid(job') = Paid(job)
  BY <1>2, <1>4 DEF Paid, Tokens
<1>7. Cardinality(InHand(job')) =< Workers
  <2>1. InHand(job) = Active /\ InHand(job') = Active'
    BY DEF InHand, Active
  <2>2. Cardinality(Active') = Cardinality(Active) + 1
    BY <1>2, <1>4, ActiveGrows DEF IInv
  <2> QED
    BY <1>3, <2>1, <2>2, SettingsType, ActiveFinite DEF IInv, Window
<1>8. Cardinality(Paid(job')) + Cardinality(Unpaid(job')) =< Workers * Cap
  <2>1. Cardinality(InHand(job')) * Cap =< Workers * Cap
    BY <1>7, SizesType, SettingsType, CapType, Products
  <2> QED
    BY <1>4, <1>5, <2>1, Split
<1>9. billed' = spent' + Cardinality(Paid(job'))
  BY <1>3, <1>6 DEF SpendInv
<1>10. Priced => billed' + Cardinality(Unpaid(job')) =< Ceiling
  <2> SUFFICES ASSUME Priced PROVE billed' + Cardinality(Unpaid(job')) =< Ceiling
    OBVIOUS
  <2>1. spent + Estimate =< Budget
    BY <1>3 DEF SpendInv
  <2>2. PICK n \in Nat : n = Workers * Cap
    BY SettingsType, CapType, Products
  <2>3. Ceiling = (Budget - Estimate) + n
    BY <2>1, <2>2, ConstantsAssumption DEF Ceiling, IInv, TypeOK
  <2>4. Cardinality(Paid(job')) + Cardinality(Unpaid(job')) =< n
    BY <1>8, <2>2
  <2>5. spent \in Nat /\ Cardinality(Paid(job')) \in Nat /\ Cardinality(Unpaid(job')) \in Nat
    BY SizesType DEF IInv, TypeOK
  <2> QED
    BY <1>3, <1>9, <2>1, <2>3, <2>4, <2>5, ConstantsAssumption
<1> QED
  BY <1>3, <1>5, <1>9, <1>10 DEF SpendInv

\* The outcome of a unit is taken: its cost is counted, or the run ends.
LEMMA ReceiveSpend ==
  ASSUME IInv, SpendInv, NEW u \in Units, Receive(u), billed' = billed,
         \/ pc' = pc /\ runErr' = runErr /\ spent' = spent + job[u].cost
         \/ pc' = "drain" /\ runErr'
  PROVE  SpendInv'
<1>1. /\ job \in [Units -> JobSet] /\ Costed(job) /\ pc = "loop"
      /\ job' = [job EXCEPT ![u] = NoJob] /\ job[u].cost \in Nat
      /\ spent \in Nat /\ billed \in Nat
  BY DEF IInv, TypeOK, JobSet, SpendInv, Receive
<1>2. /\ Cardinality(Paid(job')) = Cardinality(Paid(job)) - job[u].cost
      /\ Cardinality(Unpaid(job')) =< Cardinality(Unpaid(job))
  BY <1>1, PaidShrinks
<1>3. NoJob.stage = "idle" /\ NoJob.cost = 0
  BY DEF NoJob
<1>4. Costed(job')
  BY <1>1, <1>3, CapType DEF Costed
<1> QED
  BY <1>1, <1>2, <1>4, SizesType, CeilingType DEF SpendInv

\* A call ends: what it cost is billed.
LEMMA CallSpend ==
  ASSUME IInv, SpendInv, TypeOK', NEW u \in Units, NEW cost \in 0..MaxCost, NEW q,
         EndCall(u, q, cost), q.stage # "idle", q.stage # "queued",
         q.cost = job[u].cost + cost,
         q.stage = "calling" => q.attempt = job[u].attempt + 1
  PROVE  SpendInv'
<1>1. /\ job \in [Units -> JobSet] /\ Costed(job) /\ job[u].stage = "calling"
      /\ job' = [job EXCEPT ![u] = q] /\ job' \in [Units -> JobSet]
      /\ billed' = billed + cost /\ UNCHANGED <<pc, runErr, spent>>
  BY DEF IInv, TypeOK, SpendInv, EndCall
<1>2. q \in JobSet /\ q = job'[u]
  BY <1>1
<1>3. /\ job[u].cost \in Nat /\ job[u].attempt \in Nat /\ job[u].attempt >= 1
      /\ job[u].attempt =< Attempts /\ job[u].cost =< (job[u].attempt - 1) * MaxCost
  BY <1>1, SettingsType DEF Costed, JobSet
<1>4. PICK i \in Nat : job[u].attempt = i + 1 /\ i + 1 =< Attempts
  <2>1. job[u].attempt - 1 \in Nat /\ job[u].attempt = (job[u].attempt - 1) + 1
    BY <1>3
  <2> QED
    BY <1>3, <2>1
<1>5. (i + 1) * MaxCost =< Cap /\ (i + 1) * MaxCost = i * MaxCost + MaxCost
        /\ i * MaxCost \in Nat
  BY <1>4, SettingsType, CapType, Products DEF Cap
<1>6. job[u].cost =< i * MaxCost
  BY <1>3, <1>4
<1>7. PICK m \in Nat, n \in Nat : m = i * MaxCost /\ n = (i + 1) * MaxCost
  BY <1>5, CapType
<1>8. q.cost =< n /\ n =< Cap
  BY <1>3, <1>5, <1>6, <1>7, CapType
<1>9. q.stage = "calling" => q.attempt - 1 = i + 1
  BY <1>3, <1>4
<1>10. q.cost \in Nat /\ q.cost =< Cap
  BY <1>3, <1>7, <1>8, CapType
<1>11. Costed(job')
  <2> SUFFICES ASSUME NEW v \in Units
               PROVE  /\ job'[v].stage \in {"idle", "queued"} => job'[v].cost = 0
                      /\ job'[v].stage = "calling" =>
                           /\ job'[v].attempt >= 1
                           /\ job'[v].cost =< (job'[v].attempt - 1) * MaxCost
                      /\ job'[v].cost =< Cap
    BY DEF Costed
  <2>1. CASE v = u
    BY <1>2, <1>3, <1>7, <1>8, <1>9, <1>10, <2>1
  <2>2. CASE v # u
    BY <1>1, <2>2 DEF Costed
  <2> QED
    BY <2>1, <2>2
<1>12. /\ Cardinality(Paid(job')) = Cardinality(Paid(job)) + cost
       /\ Cardinality(Unpaid(job')) = Cardinality(Unpaid(job)) - cost
  <2>1. cost \in Nat /\ job[u].stage # "idle"
    BY <1>1, CapType
  <2>2. /\ job'[u].stage # "idle" /\ job'[u].cost = job[u].cost + cost
        /\ job'[u].cost =< Cap
    BY <1>2, <1>10
  <2>3. \A v \in Units \ {u} : job'[v] = job[v]
    BY <1>1
  <2>4. CostGrows(job, job', u, cost)
    BY <1>1, <2>1, <2>2, <2>3 DEF CostGrows
  <2> QED
    BY <2>4, PaidGrows
<1>13. u \in InHand(job)
  BY <1>1 DEF InHand
<1>14. cost \in Nat /\ billed \in Nat /\ spent \in Nat
  BY CapType DEF IInv, TypeOK
<1>15. ~runErr' => billed' = spent' + Cardinality(Paid(job'))
  BY <1>1, <1>12, <1>14, SizesType DEF SpendInv
<1>16. Priced => billed' + Cardinality(Unpaid(job')) =< Ceiling
  BY <1>1, <1>12, <1>14, SizesType, CeilingType DEF SpendInv
<1>17. ~(pc' = "drain" /\ ~runErr')
  BY <1>1, <1>13 DEF SpendInv
<1>18. /\ runErr' => pc' \in {"drain", "finish"}
       /\ Priced /\ pc' = "pend" => spent' + Estimate =< Budget
  BY <1>1 DEF SpendInv
<1> QED
  BY <1>11, <1>15, <1>16, <1>17, <1>18 DEF SpendInv

\* Every step preserves the bound on the spend.
LEMMA SpendStep ==
  ASSUME IInv, SpendInv, TypeOK', [Next]_vars
  PROVE  SpendInv'
<1>1. CASE Start \/ Begin \/ PlanFails \/ StopFilling \/ ChooseNext \/ SeeCancellation
  BY <1>1, QuietSpend DEF Start, Begin, PlanFails, StopFilling, ChooseNext, SeeCancellation,
                          SpendInv, durable, plan, loop
<1>2. CASE BeginFails \/ Finish \/ FinishFails \/ Crash
  BY <1>2, ForgetSpend DEF BeginFails, Finish, FinishFails, Crash
<1>3. CASE Plan
  BY <1>3, QuietSpend DEF Plan, SpendInv, durable
<1>4. CASE LeaveLoop
  <2>1. InHand(job) = {}
    <3>1. Cardinality(Active) = 0
      BY <1>4 DEF LeaveLoop, IInv, Window
    <3>2. Active = {}
      BY <3>1, ActiveFinite, FS_EmptySet
    <3> QED
      BY <3>2 DEF InHand, Active
  <2> QED
    BY <1>4, <2>1, QuietSpend DEF LeaveLoop, SpendInv, durable, plan, loop
<1>5. ASSUME NEW u \in Units, Submit(u) PROVE SpendInv'
  BY <1>5, SubmitSpend
<1>6. ASSUME NEW u \in Units, SubmitFails(u) PROVE SpendInv'
  BY <1>6, QuietSpend DEF SubmitFails, SpendInv, plan, loop
<1>7. ASSUME NEW u \in Units, PersistOutcome(u) \/ PersistFails(u) \/ PersistInDoubt(u)
      PROVE  SpendInv'
  BY <1>7, ReceiveSpend DEF PersistOutcome, PersistFails, PersistInDoubt, Receive
<1>8. CASE Drain
  <2>1. Costed(job') /\ Cardinality(Paid(job')) = 0 /\ Cardinality(Unpaid(job')) = 0
    BY <1>8, NothingInHand DEF Drain
  <2>2. UNCHANGED <<billed, spent, runErr>> /\ pc = "drain" /\ pc' = "finish"
    BY <1>8 DEF Drain
  <2>3. ~runErr => Cardinality(Paid(job)) = 0
    <3>1. InHand(job) = {} /\ Costed(job) => Paid(job) = {}
      BY DEF InHand, Costed, Paid, Tokens
    <3> QED
      BY <2>2, <3>1, FS_EmptySet DEF SpendInv
  <2> QED
    BY <2>1, <2>2, <2>3, SizesType, CeilingType DEF SpendInv, IInv, TypeOK
<1>9. ASSUME NEW u \in Units, Take(u) PROVE SpendInv'
  <2>1. PICK q : q = [stage |-> "calling", attempt |-> 1, live |-> ~ctxDone, cost |-> 0,
                      wire |-> "nil"]
    OBVIOUS
  <2>2. /\ job' = [job EXCEPT ![u] = q] /\ job[u].stage = "queued" /\ job[u].cost = 0
        /\ job \in [Units -> JobSet] /\ UNCHANGED <<billed, spent, runErr, pc>>
    BY <1>9, <2>1 DEF Take, IsFirst, InStage, SpendInv, Costed, IInv, TypeOK
  <2>3. q.stage = "calling" /\ q.cost = 0 /\ q.attempt = 1
    BY <2>1
  <2>4. Paid(job') = Paid(job) /\ Unpaid(job') = Unpaid(job)
    BY <2>2, <2>3 DEF Paid, Unpaid, Tokens
  <2>5. 0 =< (1 - 1) * MaxCost
    BY CapType
  <2>6. Costed(job')
    BY <2>2, <2>3, <2>5, CapType DEF SpendInv, Costed
  <2>7. u \in InHand(job)
    BY <2>2 DEF InHand
  <2> QED
    BY <2>2, <2>4, <2>6, <2>7 DEF SpendInv
<1>10. ASSUME NEW u \in Units, CallStep(u) PROVE SpendInv'
  <2>1. Costs \subseteq 0..MaxCost /\ 0 \in 0..MaxCost
    BY ConstantsAssumption
  <2>2. ASSUME NEW w, NEW cost
        PROVE  /\ Answered(u, w, cost).stage = "answered"
               /\ Answered(u, w, cost).cost = job[u].cost + cost
    BY DEF Answered
  <2>3. ASSUME NEW cost
        PROVE  /\ TriedAgain(u, cost).stage \in {"calling", "answered"}
               /\ TriedAgain(u, cost).cost = job[u].cost + cost
               /\ TriedAgain(u, cost).stage = "calling" =>
                    TriedAgain(u, cost).attempt = job[u].attempt + 1
    BY <2>2 DEF TriedAgain
  <2>4. PICK cost \in 0..MaxCost :
          \E q : /\ EndCall(u, q, cost)
                 /\ q = TriedAgain(u, cost) \/ \E w : q = Answered(u, w, cost)
    BY <1>10, <2>1 DEF CallStep, Parsed, Unparseable, CallFails, Overload
  <2>5. PICK q : /\ EndCall(u, q, cost)
                 /\ q = TriedAgain(u, cost) \/ \E w : q = Answered(u, w, cost)
    BY <2>4
  <2>6. /\ q.stage \in {"calling", "answered"} /\ q.cost = job[u].cost + cost
        /\ q.stage = "calling" => q.attempt = job[u].attempt + 1
    BY <2>2, <2>3, <2>5
  <2> QED
    BY <2>5, <2>6, CallSpend
<1>11. CASE Cancel \/ (\E u \in Units : Drift(u)) \/ UNCHANGED vars
  BY <1>11, QuietSpend DEF Cancel, Drift, SpendInv, vars, durable, plan, loop
<1> QED
  BY <1>1, <1>2, <1>3, <1>4, <1>5, <1>6, <1>7, <1>8, <1>9, <1>10, <1>11
     DEF Next, MainStep, Environment

\* The bound is invariant.
LEMMA SpendInvariant == Spec => []SpendInv
<1>1. Init => SpendInv
  BY NothingInHand, CeilingType DEF Init, SpendInv
<1>2. IInv /\ IInv' /\ SpendInv /\ [Next]_vars => SpendInv'
  BY SpendStep DEF IInv
<1> QED
  BY <1>1, <1>2, Inductive, PTL DEF Spec

\* A priced run is charged no more than the budget leaves after the estimate of
\* one unit and what one window of units, each tried as often as it may be,
\* costs; and nothing when not even one unit fits.
THEOREM SpendIsBounded == Spec => []SpendBound
<1>1. IInv /\ SpendInv => SpendBound
  <2>1. Workers * Attempts * MaxCost = Workers * Cap
    BY SettingsType, CapType DEF Cap
  <2> QED
    BY <2>1, SizesType, CeilingType DEF SpendInv, SpendBound, Ceiling, IInv, TypeOK
<1> QED
  BY <1>1, Inductive, SpendInvariant, PTL

-----------------------------------------------------------------------------
(* What is reported.                                                       *)

SettledNow == {u \in Units : Settled(u, work[u])}
FailedNow == {u \in Units \ todo : ledger[u].status = "failed"}
Counted == stats.skipped + stats.done + stats.failed + stats.deferred

\* As long as a run meets no error its statistics agree with the ledger, and
\* what is not yet counted is still to be submitted or under way.
CountInv ==
  /\ pc \in {"off", "begin", "plan"} => stats = NoStats /\ ~runErr
  /\ ~runErr /\ pc \in {"loop", "pend", "drain", "finish"} =>
       /\ stats.skipped + stats.done = Cardinality(SettledNow)
       /\ stats.failed =< Cardinality(FailedNow)
  /\ ~runErr /\ pc \in {"loop", "pend", "drain"} =>
       Counted + Cardinality(todo) + Cardinality(Active) = NumUnits
  /\ ~runErr /\ pc = "finish" /\ ~opts.dryRun => Counted = NumUnits

\* What is counted are numbers and sizes of finite sets.
LEMMA CountTypes ==
  ASSUME TypeOK
  PROVE  /\ stats.skipped \in Nat /\ stats.done \in Nat /\ stats.failed \in Nat
         /\ stats.deferred \in Nat /\ IsFiniteSet(todo) /\ Cardinality(todo) \in Nat
         /\ IsFiniteSet(SettledNow) /\ Cardinality(SettledNow) \in Nat
         /\ IsFiniteSet(FailedNow) /\ Cardinality(FailedNow) \in Nat
BY FiniteUnits DEF TypeOK, SettledNow, FailedNow

\* There are NumUnits units.
LEMMA NumberOfUnits == Cardinality(Units) = NumUnits
<1>1. PICK n \in Nat : n = NumUnits
  BY ConstantsAssumption
<1>2. Cardinality(1..n) = IF 1 > n THEN 0 ELSE n - 1 + 1
  BY FS_Interval
<1> QED
  BY <1>1, <1>2 DEF Units

\* A set with one more element.
LEMMA OneMore ==
  ASSUME NEW S, NEW x, IsFiniteSet(S), x \notin S
  PROVE  Cardinality(S \cup {x}) = Cardinality(S) + 1
BY FS_AddElement

\* A set with one element less.
LEMMA OneLess ==
  ASSUME NEW S, NEW x, IsFiniteSet(S), x \in S
  PROVE  Cardinality(S \ {x}) = Cardinality(S) - 1
BY FS_RemoveElement

\* A step of the loop that touches neither the ledger nor the window.
LEMMA QuietCount ==
  ASSUME CountInv, UNCHANGED <<ledger, work, todo, stats, opts>>, job' = job,
         \/ runErr' /\ pc' \notin {"off", "begin", "plan"}
         \/ /\ runErr' = runErr /\ pc \in {"loop", "pend", "drain"}
            /\ pc' \in {"loop", "pend", "drain"}
         \/ runErr' = runErr /\ pc' = pc
         \/ runErr' = runErr /\ pc \in {"off", "begin"} /\ pc' \in {"off", "begin", "plan"}
  PROVE  CountInv'
<1>1. SettledNow' = SettledNow /\ FailedNow' = FailedNow /\ Counted' = Counted
        /\ Active' = Active
  BY DEF SettledNow, FailedNow, Counted, Active, Settled
<1> QED
  BY <1>1 DEF CountInv

\* Nothing is counted of a run that has met an error.
LEMMA FailedCount ==
  ASSUME runErr', pc' \in {"drain", "finish"}
  PROVE  CountInv'
BY DEF CountInv

\* Nor of one that is over.
LEMMA ForgetCount ==
  ASSUME ForgetRun
  PROVE  CountInv'
BY DEF CountInv, ForgetRun

\* The plan counts what it skips and what the limit defers; the rest is to be
\* submitted.
LEMMA PlanCount ==
  ASSUME IInv, CountInv, TypeOK', Plan
  PROVE  CountInv'
<1>1. /\ pc = "plan" /\ stats = NoStats /\ ~runErr /\ runErr' = runErr
      /\ pc' = IF opts.dryRun THEN "finish" ELSE "loop"
      /\ work' = input /\ ledger' = ledger /\ todo' = Planned /\ opts' = opts
      /\ job' = job /\ Active = {}
  BY DEF Plan, CountInv, IInv, Window, durable
<1>2. stats' = [stats EXCEPT !.skipped = Cardinality(Units \ Pending),
                             !.deferred = Cardinality(Pending) - Cardinality(Planned)]
  BY DEF Plan
<1>3. /\ stats'.skipped = Cardinality(Units \ Pending) /\ stats'.done = 0 /\ stats'.failed = 0
      /\ stats'.deferred = Cardinality(Pending) - Cardinality(Planned)
  BY <1>1, <1>2 DEF NoStats
<1>4. SettledNow' = Units \ Pending
  BY <1>1 DEF SettledNow, Pending, Settled
<1>5. /\ Cardinality(Units \ Pending) = NumUnits - Cardinality(Pending)
      /\ Cardinality(Pending) \in Nat /\ Cardinality(Planned) \in Nat
  <2>1. Pending \subseteq Units /\ Planned \subseteq Units /\ Units \cap Pending = Pending
    BY PlannedSubset
  <2> QED
    BY <2>1, FiniteUnits, NumberOfUnits, SizeOfRest
<1>6. Active' = {} /\ Cardinality(Active') = 0
  BY <1>1, FS_EmptySet DEF Active
<1>7. PICK p \in Nat, q \in Nat : p = Cardinality(Pending) /\ q = Cardinality(Planned)
  BY <1>5
<1>8. /\ stats'.skipped = NumUnits - p /\ stats'.done = 0 /\ stats'.failed = 0
      /\ stats'.deferred = p - q /\ Cardinality(todo') = q
  BY <1>1, <1>3, <1>5, <1>7, ConstantsAssumption
<1>9. Counted' + Cardinality(todo') + Cardinality(Active') = NumUnits
  BY <1>6, <1>7, <1>8, ConstantsAssumption DEF Counted
<1>10. stats'.skipped + stats'.done = Cardinality(SettledNow')
  BY <1>4, <1>5, <1>7, <1>8, ConstantsAssumption
<1>11. stats'.failed =< Cardinality(FailedNow')
  <2>1. FailedNow' \subseteq Units
    BY DEF FailedNow
  <2> QED
    BY <1>8, <2>1, FiniteUnits
<1>12. /\ pc' \in {"loop", "finish"} /\ (pc' = "finish" => opts'.dryRun)
  BY <1>1
<1> QED
  BY <1>9, <1>10, <1>11, <1>12 DEF CountInv

\* A unit that is submitted is under way, and no longer to be submitted.
LEMMA SubmitCount ==
  ASSUME IInv, CountInv, TypeOK', NEW u \in Units, Submit(u)
  PROVE  CountInv'
<1>1. /\ pc = "pend" /\ pc' = "loop" /\ runErr' = runErr /\ work' = work /\ stats' = stats
      /\ u \in todo /\ todo' = todo \ {u} /\ ledger \in [Units -> [status : {"none", "pending", "done", "failed"},
                           hash : Hashes \cup {NoHash}]]
      /\ ledger' = [ledger EXCEPT ![u] = [status |-> "pending", hash |-> work[u]]]
  BY DEF Submit, IsFirst, PendRow, plan, IInv, TypeOK
<1>2. ~Settled(u, work[u]) /\ job[u].stage = "idle"
  BY <1>1 DEF IInv, TodoIsOpen
<1>3. SettledNow' = SettledNow
  BY <1>1, <1>2 DEF SettledNow, Settled
<1>4. FailedNow' = FailedNow
  BY <1>1 DEF FailedNow
<1>5. Cardinality(todo') = Cardinality(todo) - 1
  BY <1>1, CountTypes, OneLess DEF IInv
<1>6. Cardinality(Active') = Cardinality(Active) + 1
  BY <1>2, ActiveGrows DEF IInv, Submit, NoJob
<1>7. Counted' = Counted /\ Counted \in Nat
  BY <1>1, CountTypes DEF Counted, IInv
<1> QED
  BY <1>1, <1>3, <1>4, <1>5, <1>6, <1>7, CountTypes, ActiveFinite DEF CountInv, IInv

\* The outcome of a unit is persisted and counted.
LEMMA PersistCount ==
  ASSUME IInv, CountInv, TypeOK', NEW u \in Units, PersistOutcome(u)
  PROVE  CountInv'
<1>1. /\ pc = "loop" /\ pc' = "loop" /\ runErr' = runErr /\ work' = work /\ todo' = todo
      /\ job[u].stage # "idle" /\ job' = [job EXCEPT ![u] = NoJob] /\ WriteOutcome(u)
      /\ stats' = IF job[u].wire = "nil" THEN [stats EXCEPT !.failed = @ + 1]
                                         ELSE [stats EXCEPT !.done = @ + 1]
      /\ stats \in [skipped : Nat, done : Nat, failed : Nat, deferred : Nat]
      /\ ledger \in [Units -> [status : {"none", "pending", "done", "failed"},
                               hash : Hashes \cup {NoHash}]]
  BY DEF PersistOutcome, Receive, plan, IInv, TypeOK
<1>2. Cardinality(Active') = Cardinality(Active) - 1
  BY <1>1, ActiveShrinks DEF IInv
<1>3. ledger[u] = [status |-> "pending", hash |-> work[u]]
  BY <1>1 DEF IInv, RowsOfActive
<1>4. u \notin SettledNow /\ u \notin FailedNow /\ u \notin todo
  <2>1. ledger[u].status = "pending" /\ ~Settled(u, work[u])
    BY <1>3 DEF Settled
  <2>2. u \notin todo
    BY <1>1 DEF IInv, TodoIsOpen
  <2> QED
    BY <2>1, <2>2 DEF SettledNow, FailedNow
<1>5. CASE job[u].wire = "nil"
  <2>1. ledger' = [ledger EXCEPT ![u].status = "failed"]
    BY <1>1, <1>5 DEF WriteOutcome, FinishRow
  <2>2. SettledNow' = SettledNow
    BY <1>1, <1>3, <2>1 DEF SettledNow, Settled
  <2>3. FailedNow' = FailedNow \cup {u}
    BY <1>1, <1>3, <1>4, <2>1 DEF FailedNow
  <2>4. Cardinality(FailedNow') = Cardinality(FailedNow) + 1
    BY <1>4, <2>3, CountTypes, OneMore DEF IInv
  <2>5. /\ stats'.failed = stats.failed + 1 /\ stats'.done = stats.done
        /\ stats'.skipped = stats.skipped /\ stats'.deferred = stats.deferred
    BY <1>1, <1>5
  <2>6. Counted' = Counted + 1 /\ Counted \in Nat
    BY <2>5, CountTypes DEF Counted, IInv
  <2> QED
    BY <1>1, <1>2, <2>2, <2>4, <2>5, <2>6, CountTypes, ActiveFinite DEF CountInv, IInv
<1>6. CASE job[u].wire # "nil"
  <2>1. ledger' = [ledger EXCEPT ![u].status = "done"]
    BY <1>1, <1>6 DEF WriteOutcome, FinishRow
  <2>2. SettledNow' = SettledNow \cup {u}
    BY <1>1, <1>3, <2>1 DEF SettledNow, Settled
  <2>3. FailedNow' = FailedNow
    BY <1>1, <1>3, <2>1 DEF FailedNow
  <2>4. Cardinality(SettledNow') = Cardinality(SettledNow) + 1
    BY <1>4, <2>2, CountTypes, OneMore DEF IInv
  <2>5. /\ stats'.failed = stats.failed /\ stats'.done = stats.done + 1
        /\ stats'.skipped = stats.skipped /\ stats'.deferred = stats.deferred
    BY <1>1, <1>6
  <2>6. Counted' = Counted + 1 /\ Counted \in Nat
    BY <2>5, CountTypes DEF Counted, IInv
  <2> QED
    BY <1>1, <1>2, <2>3, <2>4, <2>5, <2>6, CountTypes, ActiveFinite DEF CountInv, IInv
<1> QED
  BY <1>5, <1>6

\* What nobody received and what was never submitted is counted at the end.
LEMMA DrainCount ==
  ASSUME IInv, CountInv, TypeOK', Drain
  PROVE  CountInv'
<1>1. /\ pc = "drain" /\ pc' = "finish" /\ runErr' = runErr /\ work' = work /\ todo' = todo
      /\ ledger' = ledger /\ opts' = opts
      /\ stats' = [stats EXCEPT !.deferred = @ + Cardinality(Active) + Leftover]
      /\ stats \in [skipped : Nat, done : Nat, failed : Nat, deferred : Nat]
  BY DEF Drain, durable, plan, loop, IInv, TypeOK
<1>2. CASE runErr
  BY <1>1, <1>2, FailedCount
<1>3. CASE ~runErr
  <2>1. PICK a \in Nat, t \in Nat : a = Cardinality(Active) /\ t = Cardinality(todo)
    BY ActiveFinite, CountTypes DEF IInv
  <2>2. /\ stats'.failed = stats.failed /\ stats'.done = stats.done
        /\ stats'.skipped = stats.skipped /\ stats'.deferred = stats.deferred + a + t
    BY <1>1, <1>3, <2>1 DEF Leftover
  <2>3. SettledNow' = SettledNow /\ FailedNow' = FailedNow
    BY <1>1 DEF SettledNow, FailedNow, Settled
  <2>4. Counted + t + a = NumUnits
    BY <1>1, <1>3, <2>1 DEF CountInv
  <2>5. Counted' = NumUnits
    BY <2>2, <2>4, CountTypes DEF Counted, IInv
  <2> QED
    BY <1>1, <1>3, <2>2, <2>3, <2>5 DEF CountInv
<1> QED
  BY <1>2, <1>3

\* Every step preserves the accounts.
LEMMA CountStep ==
  ASSUME IInv, CountInv, TypeOK', [Next]_vars
  PROVE  CountInv'
<1>1. CASE Start \/ Begin
  BY <1>1, QuietCount DEF Start, Begin, durable, plan, loop, CountInv
<1>2. CASE BeginFails \/ Finish \/ FinishFails \/ Crash
  BY <1>2, ForgetCount DEF BeginFails, Finish, FinishFails, Crash
<1>3. CASE Plan
  BY <1>3, PlanCount
<1>4. CASE PlanFails
  BY <1>4, FailedCount DEF PlanFails
<1>5. CASE StopFilling \/ ChooseNext \/ SeeCancellation \/ LeaveLoop
  BY <1>5, QuietCount DEF StopFilling, ChooseNext, SeeCancellation, LeaveLoop,
                          durable, plan, loop
<1>6. ASSUME NEW u \in Units, Submit(u) PROVE CountInv'
  BY <1>6, SubmitCount
<1>7. ASSUME NEW u \in Units, SubmitFails(u) \/ PersistFails(u) \/ PersistInDoubt(u)
      PROVE  CountInv'
  BY <1>7, FailedCount DEF SubmitFails, PersistFails, PersistInDoubt
<1>8. ASSUME NEW u \in Units, PersistOutcome(u) PROVE CountInv'
  BY <1>8, PersistCount
<1>9. CASE Drain
  BY <1>9, DrainCount
<1>10. ASSUME NEW u \in Units, Take(u) \/ CallStep(u) PROVE CountInv'
  <2>1. PICK q : q.stage # "idle" /\ job' = [job EXCEPT ![u] = q]
    <3>1. CASE Take(u)
      <4>1. PICK q : q = [stage |-> "calling", attempt |-> 1, live |-> ~ctxDone, cost |-> 0,
                          wire |-> "nil"]
        OBVIOUS
      <4>2. q.stage # "idle" /\ job' = [job EXCEPT ![u] = q]
        BY <3>1, <4>1 DEF Take
      <4> QED
        BY <4>2
    <3>2. \A w, cost : Answered(u, w, cost).stage # "idle"
      BY DEF Answered
    <3>3. \A cost : TriedAgain(u, cost).stage # "idle"
      BY <3>2 DEF TriedAgain
    <3> QED
      BY <1>10, <3>1, <3>2, <3>3
         DEF CallStep, Parsed, Unparseable, CallFails, Overload, EndCall
  <2>2. job[u].stage # "idle"
    BY <1>10 DEF Take, IsFirst, InStage, CallStep, Parsed, Unparseable, CallFails, Overload,
                 EndCall
  <2>3. Active' = Active
    BY <2>1, <2>2, ActiveStays DEF IInv
  <2>4. UNCHANGED <<ledger, work, todo, stats, opts, pc, runErr>>
    BY <1>10 DEF Take, CallStep, Parsed, Unparseable, CallFails, Overload, EndCall,
                 durable, plan, loop
  <2>5. SettledNow' = SettledNow /\ FailedNow' = FailedNow /\ Counted' = Counted
    BY <2>4 DEF SettledNow, FailedNow, Counted, Settled
  <2> QED
    BY <2>3, <2>4, <2>5 DEF CountInv
<1>11. CASE Cancel \/ (\E u \in Units : Drift(u)) \/ UNCHANGED vars
  BY <1>11, QuietCount DEF Cancel, Drift, vars, durable, plan, loop
<1> QED
  BY <1>1, <1>2, <1>3, <1>4, <1>5, <1>6, <1>7, <1>8, <1>9, <1>10, <1>11
     DEF Next, MainStep, Environment

\* The accounts are invariant.
LEMMA CountInvariant == Spec => []CountInv
<1>1. Init => CountInv
  BY DEF Init, CountInv
<1>2. IInv /\ IInv' /\ CountInv /\ [Next]_vars => CountInv'
  BY CountStep DEF IInv
<1> QED
  BY <1>1, <1>2, Inductive, PTL DEF Spec

\* A run that ends without an error reports all it was charged, and counts
\* every unit once: as skipped or done what is done in the ledger under the
\* input it read, and as failed no more than what failed there.
THEOREM CleanRunsReportAll == Spec => []CleanRunAccountsForAll
<1>1. IInv /\ SpendInv /\ CountInv => CleanRunAccountsForAll
  <2> SUFFICES ASSUME IInv, SpendInv, CountInv, pc = "finish", ~runErr, ~opts.dryRun
               PROVE  /\ spent = billed
                      /\ stats.skipped + stats.done = Cardinality({u \in Units : Settled(u, work[u])})
                      /\ stats.failed =< Cardinality({u \in Units : ledger[u].status = "failed"})
                      /\ Counted = NumUnits
    BY DEF CleanRunAccountsForAll, Counted
  <2>1. Paid(job) = {}
    <3>1. Active = {}
      BY DEF IInv, Window
    <3> QED
      BY <3>1, CapType DEF Active, Paid, Tokens, SpendInv, Costed
  <2>2. spent = billed
    BY <2>1, FS_EmptySet DEF SpendInv, IInv, TypeOK
  <2>3. stats.skipped + stats.done = Cardinality({u \in Units : Settled(u, work[u])})
    BY DEF CountInv, SettledNow
  <2>4. Cardinality(FailedNow) =< Cardinality({u \in Units : ledger[u].status = "failed"})
    <3>1. FailedNow \subseteq {u \in Units : ledger[u].status = "failed"}
      BY DEF FailedNow
    <3>2. IsFiniteSet({u \in Units : ledger[u].status = "failed"})
      BY FiniteUnits
    <3> QED
      BY <3>1, <3>2, FS_Subset
  <2>5. stats.failed =< Cardinality(FailedNow) /\ Counted = NumUnits
    BY DEF CountInv
  <2>6. Cardinality({u \in Units : ledger[u].status = "failed"}) \in Nat
    BY FiniteUnits
  <2> QED
    BY <2>2, <2>3, <2>4, <2>5, <2>6, CountTypes DEF IInv
<1> QED
  BY <1>1, Inductive, SpendInvariant, CountInvariant, PTL
=============================================================================
