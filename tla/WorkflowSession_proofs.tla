---------------------- MODULE WorkflowSession_proofs ----------------------
(***************************************************************************)
(* How many refused logins the monitor asks for: three for each process    *)
(* and application that shares the account, and three for each restart, of *)
(* those whose refusal it hears, whatever the limits and however often.    *)
(***************************************************************************)
EXTENDS WorkflowSession, FiniteSetTheorems, FunctionTheorems, WellFoundedInduction, TLAPS

-----------------------------------------------------------------------------
(* Sums, by induction over how many are added up.                          *)

\* A set of numbers that is not empty has a least one.
LEMMA LeastOf ==
  ASSUME NEW T \in SUBSET Nat, T # {}
  PROVE  \E x \in T : \A y \in T : x <= y
<1>. DEFINE R == OpToRel(<, Nat)
<1>1. IsWellFoundedOn(R, Nat)
  BY NatLessThanWellFounded
<1>2. \A x, y \in Nat : y < x => <<y, x>> \in R
  BY DEF OpToRel
<1>. HIDE DEF R
<1>3. PICK x \in T : \A y \in T : ~(<<y, x>> \in R)
  BY <1>1, WFMin
<1>4. ASSUME NEW y \in T PROVE x <= y
  <2>1. x \in Nat /\ y \in Nat /\ ~(y < x)
    BY <1>2, <1>3
  <2>. QED
    BY <2>1
<1>. QED
  BY <1>4

\* Induction over the numbers, for a set of them.
LEMMA Inductive ==
  ASSUME NEW T \in SUBSET Nat, 0 \in T, \A n \in Nat : n \in T => n + 1 \in T
  PROVE  \A n \in Nat : n \in T
<1>. SUFFICES ASSUME NEW m \in Nat, m \notin T PROVE FALSE
  OBVIOUS
<1>. DEFINE Missing == {n \in Nat : n \notin T}
<1>1. Missing \in SUBSET Nat /\ Missing # {}
  OBVIOUS
<1>. HIDE DEF Missing
<1>2. PICK least \in Missing : \A y \in Missing : least <= y
  BY <1>1, LeastOf
<1>3. least \in Nat /\ least \notin T /\ least # 0
  BY <1>1, <1>2 DEF Missing
<1>4. least - 1 \in Nat /\ ~(least <= least - 1) /\ least - 1 + 1 = least
  BY <1>3
<1>5. least - 1 \in T
  BY <1>2, <1>4 DEF Missing
<1>. QED
  BY <1>3, <1>4, <1>5

\* s holds the sums of the beginnings of f.
RunningSum(s, f, n) ==
  /\ s \in [0 .. n -> Int] /\ s[0] = 0
  /\ \A i \in 1 .. n : s[i] = s[i - 1] + f[i]

\* There are such sums.
LEMMA RunningSumExists ==
  ASSUME NEW f, NEW n \in Nat, \A i \in 1 .. n : f[i] \in Int
  PROVE  \E s : RunningSum(s, f, n)
<1>. DEFINE T == {m \in Nat : m <= n => \E s : RunningSum(s, f, m)}
<1>1. 0 \in T
  <2>1. RunningSum([i \in 0 .. 0 |-> 0], f, 0)
    BY DEF RunningSum
  <2>. QED
    BY <2>1
<1>2. ASSUME NEW m \in Nat, m \in T PROVE m + 1 \in T
  <2>. SUFFICES ASSUME m + 1 <= n PROVE \E s : RunningSum(s, f, m + 1)
    OBVIOUS
  <2>1. PICK s : RunningSum(s, f, m)
    BY <1>2
  <2>2. f[m + 1] \in Int /\ s[m] \in Int
    BY <2>1 DEF RunningSum
  <2>. DEFINE u == [i \in 0 .. m + 1 |-> IF i = m + 1 THEN s[m] + f[m + 1] ELSE s[i]]
  <2>3. u \in [0 .. m + 1 -> Int] /\ u[0] = 0
    BY <2>1, <2>2 DEF RunningSum
  <2>4. ASSUME NEW i \in 1 .. m + 1 PROVE u[i] = u[i - 1] + f[i]
    <3>1. CASE i = m + 1
      BY <2>2, <3>1
    <3>2. CASE i \in 1 .. m
      BY <2>1, <3>2 DEF RunningSum
    <3>. QED
      BY <3>1, <3>2
  <2>. HIDE DEF u
  <2>. QED
    BY <2>3, <2>4 DEF RunningSum
<1>. HIDE DEF T
<1>3. n \in T
  BY <1>1, <1>2, Inductive DEF T
<1>. QED
  BY <1>3 DEF T

\* Total is the last of them.
LEMMA TotalIsLast ==
  ASSUME NEW f, NEW n \in Nat, NEW s, RunningSum(s, f, n)
  PROVE  Total(f, n) = s[n]
<1>. DEFINE Sum(u) == u = [i \in 0 .. n |-> IF i = 0 THEN 0 ELSE u[i - 1] + f[i]]
            u == CHOOSE u : Sum(u)
<1>1. Sum(s)
  BY DEF RunningSum
<1>2. Sum(u)
  <2>. HIDE DEF Sum
  <2>. QED
    BY <1>1
<1>3. Total(f, n) = u[n]
  BY DEF Total
<1>. HIDE DEF u
<1>4. u[0] = 0 /\ \A i \in 1 .. n : u[i] = u[i - 1] + f[i]
  BY <1>2
<1>. DEFINE T == {m \in Nat : m <= n => u[m] = s[m]}
<1>5. 0 \in T
  BY <1>4 DEF RunningSum
<1>6. ASSUME NEW m \in Nat, m \in T PROVE m + 1 \in T
  <2>1. m + 1 <= n => u[m + 1] = u[m] + f[m + 1] /\ s[m + 1] = s[m] + f[m + 1]
    BY <1>4 DEF RunningSum
  <2>. QED
    BY <1>6, <2>1
<1>. HIDE DEF T
<1>7. n \in T
  BY <1>5, <1>6, Inductive DEF T
<1>. QED
  BY <1>3, <1>7 DEF T

\* What Total adds up, one at a time.
LEMMA TotalAdds ==
  ASSUME NEW f, NEW n \in Nat, \A i \in 1 .. n : f[i] \in Int
  PROVE  /\ Total(f, n) \in Int
         /\ n = 0 => Total(f, n) = 0
         /\ n > 0 => Total(f, n) = Total(f, n - 1) + f[n]
<1>1. PICK s : RunningSum(s, f, n)
  BY RunningSumExists
<1>2. Total(f, n) = s[n]
  BY <1>1, TotalIsLast
<1>3. ASSUME n > 0 PROVE Total(f, n - 1) = s[n - 1]
  <2>. DEFINE u == [i \in 0 .. n - 1 |-> s[i]]
  <2>1. RunningSum(u, f, n - 1)
    BY <1>1, <1>3 DEF RunningSum
  <2>2. n - 1 \in Nat /\ u[n - 1] = s[n - 1]
    BY <1>3
  <2>. HIDE DEF u
  <2>. QED
    BY <2>1, <2>2, TotalIsLast
<1>. QED
  BY <1>1, <1>2, <1>3 DEF RunningSum

\* Changing what is added up, most of it by nothing and one of it by d,
\* changes the sum by no more.
LEMMA TotalWithin ==
  ASSUME NEW f, NEW g, NEW n \in Nat, NEW k, NEW d \in Int,
         \A i \in 1 .. n : f[i] \in Int /\ g[i] \in Int,
         \A i \in 1 .. n : g[i] <= f[i] + (IF i = k THEN d ELSE 0)
  PROVE  Total(g, n) <= Total(f, n) + (IF k \in 1 .. n THEN d ELSE 0)
<1>. DEFINE Extra(m) == IF k \in 1 .. m THEN d ELSE 0
            T == {m \in Nat : m <= n => Total(g, m) <= Total(f, m) + Extra(m)}
<1>1. 0 \in T
  <2>1. Total(f, 0) = 0 /\ Total(g, 0) = 0 /\ Extra(0) = 0
    BY TotalAdds
  <2>. QED
    BY <2>1
<1>2. ASSUME NEW m \in Nat, m \in T PROVE m + 1 \in T
  <2>. SUFFICES ASSUME m + 1 <= n
       PROVE  Total(g, m + 1) <= Total(f, m + 1) + Extra(m + 1)
    OBVIOUS
  <2>1. Total(g, m) <= Total(f, m) + Extra(m)
    BY <1>2
  <2>2. /\ m + 1 \in Nat /\ m + 1 > 0 /\ m + 1 - 1 = m
        /\ \A i \in 1 .. m : f[i] \in Int /\ g[i] \in Int
        /\ \A i \in 1 .. m + 1 : f[i] \in Int /\ g[i] \in Int
    OBVIOUS
  <2>3. /\ Total(f, m) \in Int /\ Total(f, m + 1) = Total(f, m) + f[m + 1]
        /\ Total(g, m) \in Int /\ Total(g, m + 1) = Total(g, m) + g[m + 1]
    BY <2>2, TotalAdds
  <2>4. Extra(m + 1) = Extra(m) + (IF m + 1 = k THEN d ELSE 0) /\ Extra(m) \in Int
    OBVIOUS
  <2>5. g[m + 1] <= f[m + 1] + (IF m + 1 = k THEN d ELSE 0)
    OBVIOUS
  <2>. HIDE DEF Extra
  <2>. QED
    BY <2>1, <2>2, <2>3, <2>4, <2>5
<1>. HIDE DEF T
<1>3. n \in T
  BY <1>1, <1>2, Inductive DEF T
<1>. QED
  BY <1>3 DEF T

\* Less or as much of each adds up to less or as much.
LEMMA TotalMonotone ==
  ASSUME NEW f, NEW g, NEW n \in Nat,
         \A i \in 1 .. n : f[i] \in Int /\ g[i] \in Int /\ f[i] <= g[i]
  PROVE  Total(f, n) <= Total(g, n)
<1>1. Total(f, n) \in Int /\ Total(g, n) \in Int
  BY TotalAdds
<1>2. /\ 0 \in Int
      /\ \A i \in 1 .. n : g[i] \in Int /\ f[i] \in Int
      /\ \A i \in 1 .. n : f[i] <= g[i] + (IF i = 0 THEN 0 ELSE 0)
  OBVIOUS
<1>3. Total(f, n) <= Total(g, n) + (IF 0 \in 1 .. n THEN 0 ELSE 0)
  BY <1>2, TotalWithin, Zenon
<1>. QED
  BY <1>1, <1>3

\* What is bounded adds up to no more than the bound for each.
LEMMA TotalBounded ==
  ASSUME NEW f, NEW n \in Nat, NEW bound \in Nat,
         \A i \in 1 .. n : f[i] \in 0 .. bound
  PROVE  0 <= Total(f, n) /\ Total(f, n) <= bound * n
<1>. DEFINE T == {m \in Nat : m <= n => 0 <= Total(f, m) /\ Total(f, m) <= bound * m}
<1>1. 0 \in T
  <2>1. Total(f, 0) = 0 /\ bound * 0 = 0
    BY TotalAdds
  <2>. QED
    BY <2>1
<1>2. ASSUME NEW m \in Nat, m \in T PROVE m + 1 \in T
  <2>. SUFFICES ASSUME m + 1 <= n
       PROVE  0 <= Total(f, m + 1) /\ Total(f, m + 1) <= bound * (m + 1)
    OBVIOUS
  <2>1. /\ Total(f, m) \in Int /\ Total(f, m + 1) = Total(f, m) + f[m + 1]
        /\ f[m + 1] \in 0 .. bound
    <3>1. /\ m + 1 \in Nat /\ m + 1 > 0 /\ m + 1 - 1 = m
          /\ \A i \in 1 .. m : f[i] \in Int
          /\ \A i \in 1 .. m + 1 : f[i] \in Int
          /\ f[m + 1] \in 0 .. bound
      OBVIOUS
    <3>. QED
      BY <3>1, TotalAdds
  <2>2. bound * (m + 1) = bound * m + bound /\ bound * m \in Int
    OBVIOUS
  <2>. QED
    BY <1>2, <2>1, <2>2
<1>. HIDE DEF T
<1>3. n \in T
  BY <1>1, <1>2, Inductive DEF T
<1>. QED
  BY <1>3 DEF T

\* Put one place further on, behind a zero, it adds up to the same.
LEMMA TotalShifted ==
  ASSUME NEW f, NEW g, NEW n \in Nat,
         \A i \in 1 .. n : f[i] \in Int,
         \A i \in 1 .. n + 1 : g[i] = IF i = 1 THEN 0 ELSE f[i - 1]
  PROVE  Total(g, n + 1) = Total(f, n)
<1>. DEFINE T == {m \in Nat : m <= n => Total(g, m + 1) = Total(f, m)}
<1>1. \A m \in 1 .. n + 1 : g[m] \in Int
  OBVIOUS
<1>2. ASSUME NEW m \in Nat, m <= n
      PROVE  /\ Total(g, m + 1) = Total(g, m) + g[m + 1]
             /\ Total(g, m) \in Int
             /\ m = 0 => Total(g, m) = 0
  <2>1. /\ m + 1 \in Nat /\ m + 1 > 0 /\ m + 1 - 1 = m
        /\ \A i \in 1 .. m : g[i] \in Int
        /\ \A i \in 1 .. m + 1 : g[i] \in Int
    BY <1>1, <1>2
  <2>. QED
    BY <2>1, TotalAdds
<1>3. 0 \in T
  <2>1. Total(f, 0) = 0 /\ g[1] = 0
    BY TotalAdds
  <2>. QED
    BY <1>2, <2>1
<1>4. ASSUME NEW m \in Nat, m \in T PROVE m + 1 \in T
  <2>. SUFFICES ASSUME m + 1 <= n PROVE Total(g, m + 1 + 1) = Total(f, m + 1)
    OBVIOUS
  <2>1. Total(g, m + 1) = Total(f, m)
    BY <1>4
  <2>2. Total(g, m + 1 + 1) = Total(g, m + 1) + g[m + 1 + 1] /\ g[m + 1 + 1] = f[m + 1]
    BY <1>2
  <2>3. Total(f, m + 1) = Total(f, m) + f[m + 1]
    <3>1. m + 1 \in Nat /\ m + 1 > 0 /\ m + 1 - 1 = m /\ \A i \in 1 .. m + 1 : f[i] \in Int
      OBVIOUS
    <3>. QED
      BY <3>1, TotalAdds
  <2>. QED
    BY <2>1, <2>2, <2>3
<1>. HIDE DEF T
<1>5. n \in T
  BY <1>3, <1>4, Inductive DEF T
<1>. QED
  BY <1>5 DEF T

\* What is not negative adds up to no less the more is added.
LEMMA TotalOfMore ==
  ASSUME NEW f, NEW n \in Nat, NEW a \in 0 .. n, \A i \in 1 .. n : f[i] \in Nat
  PROVE  Total(f, a) <= Total(f, n)
<1>. DEFINE T == {m \in Nat : a + m <= n => Total(f, a) <= Total(f, a + m)}
<1>1. ASSUME NEW m \in 0 .. n
      PROVE  /\ Total(f, m) \in Int
             /\ m > 0 => Total(f, m) = Total(f, m - 1) + f[m] /\ f[m] \in Nat
  <2>1. m \in Nat /\ (\A i \in 1 .. m : f[i] \in Int) /\ (m > 0 => f[m] \in Nat)
    OBVIOUS
  <2>. QED
    BY <2>1, TotalAdds
<1>2. 0 \in T
  <2>1. a + 0 = a /\ Total(f, a) \in Int
    BY <1>1
  <2>. QED
    BY <2>1
<1>3. ASSUME NEW m \in Nat, m \in T PROVE m + 1 \in T
  <2>. SUFFICES ASSUME a + (m + 1) <= n PROVE Total(f, a) <= Total(f, a + (m + 1))
    OBVIOUS
  <2>1. /\ a \in 0 .. n /\ a + m \in 0 .. n /\ a + (m + 1) \in 0 .. n
        /\ a + (m + 1) > 0 /\ a + (m + 1) - 1 = a + m
    OBVIOUS
  <2>2. /\ Total(f, a) \in Int /\ Total(f, a + m) \in Int
        /\ Total(f, a + (m + 1)) = Total(f, a + m) + f[a + (m + 1)]
        /\ f[a + (m + 1)] \in Nat
    BY <1>1, <2>1
  <2>3. Total(f, a) <= Total(f, a + m)
    BY <1>3, <2>1
  <2>. QED
    BY <2>2, <2>3
<1>. HIDE DEF T
<1>4. n - a \in T
  <2>1. n - a \in Nat
    OBVIOUS
  <2>. QED
    BY <1>2, <1>3, <2>1, Inductive DEF T
<1>5. a + (n - a) = n
  OBVIOUS
<1>. QED
  BY <1>4, <1>5 DEF T

-----------------------------------------------------------------------------
(* The same over the runners, in some order.                               *)

N == Cardinality(Runners)
Order == CHOOSE e : e \in Bijection(1 .. N, Runners)
SumOver(f) == Total([i \in 1 .. N |-> f[Order[i]]], N)

\* What the constants are.
LEMMA Numbers ==
  /\ MaxLoginFailures \in Nat /\ MaxLoginFailures > 0
  /\ Window \in Nat /\ Window > 0 /\ Cooldown \in Nat /\ Window <= Cooldown
  /\ Limit \in Nat /\ MaxRestarts \in Nat /\ N \in Nat
<1>1. N \in Nat
  BY RunnersAssumption, FS_CardinalityType DEF N
<1>. QED
  BY <1>1, TicksAssumption

\* Every runner has one place in the order.
LEMMA Ordered ==
  /\ \A i \in 1 .. N : Order[i] \in Runners
  /\ \A i, j \in 1 .. N : Order[i] = Order[j] => i = j
  /\ \A r \in Runners : \E i \in 1 .. N : Order[i] = r
<1>1. Order \in Bijection(1 .. N, Runners)
  BY RunnersAssumption, FS_CardinalityType DEF Order, N, ExistsBijection
<1>2. Order \in [1 .. N -> Runners]
  BY <1>1, Fun_BijectionProperties, Zenon
<1>3. ASSUME NEW i \in 1 .. N, NEW j \in 1 .. N, Order[i] = Order[j]
      PROVE  i = j
  BY <1>1, <1>3, Fun_BijectionProperties
<1>4. ASSUME NEW r \in Runners PROVE \E i \in 1 .. N : Order[i] = r
  BY <1>1 DEF Bijection, Surjection
<1>. QED
  BY <1>2, <1>3, <1>4

\* Where one runner's share grows by d at least and the others' do not fall,
\* the sum grows by d at least.
LEMMA SumGrows ==
  ASSUME NEW f \in [Runners -> Int], NEW g \in [Runners -> Int],
         NEW r \in Runners, NEW d \in Int,
         \A q \in Runners : f[q] + (IF q = r THEN d ELSE 0) <= g[q]
  PROVE  SumOver(f) \in Int /\ SumOver(g) \in Int /\ SumOver(f) + d <= SumOver(g)
<1>. DEFINE ff == [i \in 1 .. N |-> f[Order[i]]]
            gg == [i \in 1 .. N |-> g[Order[i]]]
<1>1. PICK k \in 1 .. N : Order[k] = r
  BY Ordered
<1>2. N \in Nat /\ -d \in Int
  BY Numbers
<1>3. \A i \in 1 .. N : ff[i] \in Int /\ gg[i] \in Int
  BY Ordered
<1>4. ASSUME NEW i \in 1 .. N PROVE ff[i] <= gg[i] + (IF i = k THEN -d ELSE 0)
  <2>1. Order[i] \in Runners /\ (Order[i] = r <=> i = k)
    BY <1>1, Ordered
  <2>2. f[Order[i]] + (IF i = k THEN d ELSE 0) <= g[Order[i]]
    BY <2>1
  <2>. QED
    BY <1>3, <2>2
<1>5. SumOver(f) = Total(ff, N) /\ SumOver(g) = Total(gg, N)
  BY DEF SumOver
<1>. HIDE DEF ff, gg
<1>6. Total(ff, N) <= Total(gg, N) + (IF k \in 1 .. N THEN -d ELSE 0)
  <2>1. /\ \A i \in 1 .. N : gg[i] \in Int /\ ff[i] \in Int
        /\ \A i \in 1 .. N : ff[i] <= gg[i] + (IF i = k THEN -d ELSE 0)
    BY <1>3, <1>4
  <2>. QED
    BY <1>2, <2>1, TotalWithin
<1>7. Total(ff, N) \in Int /\ Total(gg, N) \in Int
  BY <1>2, <1>3, TotalAdds
<1>. QED
  BY <1>5, <1>6, <1>7

\* Where no share falls, neither does the sum.
LEMMA SumMonotone ==
  ASSUME NEW f \in [Runners -> Int], NEW g \in [Runners -> Int],
         \A q \in Runners : f[q] <= g[q]
  PROVE  SumOver(f) \in Int /\ SumOver(g) \in Int /\ SumOver(f) <= SumOver(g)
<1>. DEFINE ff == [i \in 1 .. N |-> f[Order[i]]]
            gg == [i \in 1 .. N |-> g[Order[i]]]
<1>1. \A i \in 1 .. N : ff[i] \in Int /\ gg[i] \in Int /\ ff[i] <= gg[i]
  BY Ordered
<1>2. SumOver(f) = Total(ff, N) /\ SumOver(g) = Total(gg, N)
  BY DEF SumOver
<1>. HIDE DEF ff, gg
<1>. QED
  BY <1>1, <1>2, Numbers, TotalAdds, TotalMonotone

\* Where every share is at most what starts a pause, so is their sum for all.
LEMMA SumOfShares ==
  ASSUME NEW f \in [Runners -> 0 .. MaxLoginFailures], NEW c \in Nat
  PROVE  /\ SumOver(f) \in Int /\ 0 <= SumOver(f)
         /\ MaxLoginFailures * c \in Nat
         /\ SumOver(f) + MaxLoginFailures * c <= MaxLoginFailures * (N + c)
<1>. DEFINE ff == [i \in 1 .. N |-> f[Order[i]]]
<1>1. \A i \in 1 .. N : ff[i] \in 0 .. MaxLoginFailures
  BY Ordered
<1>2. SumOver(f) = Total(ff, N)
  BY DEF SumOver
<1>. HIDE DEF ff
<1>3. 0 <= Total(ff, N) /\ Total(ff, N) <= MaxLoginFailures * N
  BY <1>1, Numbers, TotalBounded
<1>4. Total(ff, N) \in Int
  <2>1. \A i \in 1 .. N : ff[i] \in Int
    BY <1>1, Numbers
  <2>. QED
    BY <2>1, Numbers, TotalAdds
<1>5. /\ MaxLoginFailures * c \in Nat /\ MaxLoginFailures * N \in Nat
      /\ MaxLoginFailures * N + MaxLoginFailures * c = MaxLoginFailures * (N + c)
  <2>1. \A m, n, x \in Nat : m * x \in Nat /\ m * n \in Nat /\ m * n + m * x = m * (n + x)
    OBVIOUS
  <2>. QED
    BY <2>1, Numbers
<1>. QED
  BY <1>2, <1>3, <1>4, <1>5

-----------------------------------------------------------------------------
(* Who is to blame for the failed logins the target remembers.             *)

\* Of those of the last a ticks: a runner that may log in answers for the ones
\* it counts, one that paused within the a ticks for as many as start a pause.
Blame(r, a) ==
  IF pause[r] = 0 THEN failures[r]
  ELSE IF Cooldown - pause[r] < a THEN MaxLoginFailures ELSE 0

\* A restart forgets what its runner counted.
Blamed(a) == SumOver([r \in Runners |-> Blame(r, a)]) + MaxLoginFailures * restarts

Typed ==
  /\ rejected \in [1 .. Window -> Nat] /\ unheard \in [1 .. Window -> Nat]
  /\ session = [r \in Runners |-> session[r]]
  /\ result = [r \in Runners |-> result[r]]
  /\ failures \in [Runners -> 0 .. MaxLoginFailures - 1]
  /\ pause \in [Runners -> 0 .. Cooldown]
  /\ restarts \in 0 .. MaxRestarts

SessionsClean == \A r \in Runners : session[r] # NoSession => failures[r] = 0 /\ pause[r] = 0

InTrouble ==
  world = "wrong password" => \A a \in 0 .. Window : Total(rejected, a) <= Blamed(a)

Few == Heard <= MaxLoginFailures * (N + restarts)

Margin == Typed /\ (marked => SessionsClean /\ InTrouble /\ Few)

\* The failed logins of the last ticks are a number.
LEMMA RejectedTyped ==
  ASSUME NEW f \in [1 .. Window -> Nat], NEW a \in 0 .. Window
  PROVE  /\ Total(f, a) \in Int
         /\ a = 0 => Total(f, a) = 0
         /\ a > 0 => a - 1 \in 0 .. Window /\ Total(f, a) = Total(f, a - 1) + f[a]
<1>1. a \in Nat /\ \A i \in 1 .. a : f[i] \in Int
  BY Numbers
<1>. QED
  BY <1>1, TotalAdds, Numbers

\* What is blamed on a runner is a share the margin provides for.
LEMMA BlameTyped ==
  ASSUME NEW fails \in 0 .. MaxLoginFailures - 1, NEW paused \in 0 .. Cooldown,
         NEW a \in 0 .. Window
  PROVE  (IF paused = 0 THEN fails
          ELSE IF Cooldown - paused < a THEN MaxLoginFailures ELSE 0)
           \in 0 .. MaxLoginFailures
BY Numbers

\* What is blamed is few.
LEMMA BlamedIsFew ==
  ASSUME NEW f \in [1 .. Window -> Nat], NEW shares \in [Runners -> 0 .. MaxLoginFailures],
         NEW c \in Nat,
         Total(f, Window) <= SumOver(shares) + MaxLoginFailures * c
  PROVE  Total(f, Window) <= MaxLoginFailures * (N + c)
<1>1. Total(f, Window) \in Int
  BY Numbers, RejectedTyped
<1>2. /\ SumOver(shares) \in Int /\ MaxLoginFailures * c \in Nat
      /\ SumOver(shares) + MaxLoginFailures * c <= MaxLoginFailures * (N + c)
  BY SumOfShares
<1>3. MaxLoginFailures * (N + c) \in Int
  <2>1. \A m, n, x \in Nat : m * (n + x) \in Int
    OBVIOUS
  <2>. QED
    BY <2>1, Numbers
<1>. QED
  BY <1>1, <1>2, <1>3

-----------------------------------------------------------------------------
(* What an attempt leaves behind.                                          *)

\* Where nothing is counted and no session opened, nothing changes.
LEMMA NothingCounted ==
  ASSUME Margin, Typed',
         UNCHANGED <<marked, world, rejected, failures, pause, restarts>>,
         \A r \in Runners : session'[r] # NoSession => session[r] # NoSession
  PROVE  Margin'
BY DEF Margin, SessionsClean, InTrouble, Few, Heard, Blamed, Blame

\* A success: by a login only while all is well, where nobody is to blame for
\* more, or in a session whose runner counts nothing.
LEMMA SucceedKeeps ==
  ASSUME Margin, Typed', NEW r \in Runners, Succeed(r),
         UNCHANGED <<marked, world, restarts>>,
         world = "fine" \/ (marked /\ session[r] # NoSession)
  PROVE  Margin'
<1>1. Typed
  BY DEF Margin
<1>. SUFFICES ASSUME marked PROVE SessionsClean' /\ InTrouble' /\ Few'
  BY DEF Margin
<1>2. /\ SessionsClean /\ InTrouble /\ Few
      /\ rejected' = rejected
      /\ failures' = [failures EXCEPT ![r] = 0] /\ pause' = [pause EXCEPT ![r] = 0]
      /\ \A q \in Runners : q # r => session'[q] = session[q]
  BY <1>1 DEF Margin, Succeed, Typed
<1>3. SessionsClean'
  BY <1>1, <1>2 DEF SessionsClean, Typed
<1>4. Few'
  BY <1>2 DEF Few, Heard
<1>5. InTrouble'
  <2>1. CASE world = "fine"
    BY <2>1 DEF InTrouble
  <2>2. CASE session[r] # NoSession
    <3>1. failures' = failures /\ pause' = pause
      BY <1>1, <1>2, <2>2 DEF SessionsClean, Typed
    <3>. QED
      BY <1>2, <3>1 DEF InTrouble, Blamed, Blame
  <2>. QED
    BY <2>1, <2>2
<1>. QED
  BY <1>3, <1>4, <1>5

\* A failed login the target counts and tells of is one its runner counts.
LEMMA RejectedLoginBlamed ==
  ASSUME Typed, Typed', NEW r \in Runners, NEW a \in 0 .. Window,
         marked, pause[r] = 0, NoteLoginFailure(r), UNCHANGED restarts,
         rejected' \in {rejected, [rejected EXCEPT ![1] = @ + 1]},
         Total(rejected, a) <= Blamed(a)
  PROVE  Total(rejected', a) <= Blamed(a)'
<1>. DEFINE now == [q \in Runners |-> Blame(q, a)]
            later == [q \in Runners |-> Blame(q, a)']
<1>1. now \in [Runners -> 0 .. MaxLoginFailures]
  <2>1. \A q \in Runners : Blame(q, a) \in 0 .. MaxLoginFailures
    BY BlameTyped DEF Typed, Blame
  <2>. QED
    BY <2>1
<1>2. later \in [Runners -> 0 .. MaxLoginFailures]
  <2>1. \A q \in Runners : Blame(q, a)' \in 0 .. MaxLoginFailures
    BY BlameTyped DEF Typed, Blame
  <2>. QED
    BY <2>1
<1>3. ASSUME NEW q \in Runners, a > 0
      PROVE  now[q] + (IF q = r THEN 1 ELSE 0) <= later[q]
  <2>1. CASE q # r
    BY <2>1, Numbers DEF Typed, NoteLoginFailure, Blame
  <2>2. CASE q = r /\ failures[r] + 1 < MaxLoginFailures
    BY <2>2, Numbers DEF Typed, NoteLoginFailure, Blame
  <2>3. CASE q = r /\ ~(failures[r] + 1 < MaxLoginFailures)
    <3>1. pause'[r] = Cooldown /\ Cooldown > 0 /\ Cooldown - Cooldown < a
      BY <1>3, <2>3, Numbers DEF Typed, NoteLoginFailure
    <3>. QED
      BY <2>3, <3>1, Numbers DEF Typed, Blame
  <2>. QED
    BY <2>1, <2>2, <2>3
<1>4. /\ Blamed(a) = SumOver(now) + MaxLoginFailures * restarts
      /\ Blamed(a)' = SumOver(later) + MaxLoginFailures * restarts
  BY DEF Blamed
<1>. HIDE DEF now, later
<1>5. MaxLoginFailures * restarts \in Nat /\ SumOver(later) \in Int /\ 0 <= SumOver(later)
  BY <1>2, SumOfShares DEF Typed
<1>6. CASE a = 0
  <2>1. Total(rejected', a) = 0
    BY <1>6, RejectedTyped DEF Typed
  <2>. QED
    BY <1>4, <1>5, <2>1
<1>7. CASE a > 0
  <2>1. now \in [Runners -> Int] /\ later \in [Runners -> Int]
    BY <1>1, <1>2, Numbers
  <2>2. SumOver(now) \in Int /\ SumOver(now) + 1 <= SumOver(later)
    <3>1. 1 \in Int /\ \A q \in Runners : now[q] + (IF q = r THEN 1 ELSE 0) <= later[q]
      BY <1>3, <1>7
    <3>. QED
      BY <2>1, <3>1, SumGrows, Zenon
  <2>3. Total(rejected', a) <= Total(rejected, a) + (IF 1 \in 1 .. a THEN 1 ELSE 0)
    <3>1. \A i \in 1 .. a : rejected[i] \in Int /\ rejected'[i] \in Int
      BY Numbers DEF Typed
    <3>2. \A i \in 1 .. a : rejected'[i] <= rejected[i] + (IF i = 1 THEN 1 ELSE 0)
      BY <3>1, Numbers DEF Typed
    <3>3. a \in Nat /\ 1 \in Int
      BY Numbers
    <3>. QED
      BY <3>1, <3>2, <3>3, TotalWithin
  <2>4. Total(rejected, a) \in Int /\ Total(rejected', a) \in Int
    BY RejectedTyped DEF Typed
  <2>. QED
    BY <1>4, <1>5, <2>2, <2>3, <2>4
<1>. QED
  BY <1>6, <1>7

\* A run with a login of its own, in each of the ways it ends.
LEMMA FreshRunKeeps ==
  ASSUME Margin, Typed', NEW r \in Runners, pause[r] = 0, FreshRun(r),
         UNCHANGED <<marked, world, unheard, restarts>>
  PROVE  Margin'
<1>1. Typed
  BY DEF Margin
<1>2. CASE world = "fine" /\ Succeed(r)
  <2>1. UNCHANGED <<marked, world, restarts>>
    OBVIOUS
  <2>2. world = "fine" \/ (marked /\ session[r] # NoSession)
    BY <1>2
  <2>3. Succeed(r)
    BY <1>2
  <2>. QED
    BY <2>1, <2>2, <2>3, SucceedKeeps, Zenon
<1>. SUFFICES ASSUME marked, ~(world = "fine" /\ Succeed(r))
     PROVE  SessionsClean' /\ InTrouble' /\ Few'
  BY <1>2 DEF Margin
<1>3. SessionsClean /\ InTrouble /\ Few
  BY DEF Margin
<1>4. /\ NoteLoginFailure(r) /\ Forget(r)
      /\ rejected' \in {rejected, [rejected EXCEPT ![1] = @ + 1]}
      /\ world = "wrong password" \/ rejected' = rejected
  BY <1>1 DEF FreshRun, Typed
<1>5. SessionsClean'
  <2>1. \A q \in Runners : /\ q = r => session'[q] = NoSession
                           /\ q # r => /\ session'[q] = session[q]
                                       /\ failures'[q] = failures[q] /\ pause'[q] = pause[q]
    BY <1>1, <1>4 DEF Typed, Forget, NoteLoginFailure
  <2>. QED
    BY <1>3, <2>1 DEF SessionsClean
<1>6. CASE world # "wrong password"
  BY <1>3, <1>4, <1>5, <1>6 DEF InTrouble, Few, Heard
<1>7. CASE world = "wrong password"
  <2>1. \A a \in 0 .. Window : Total(rejected, a) <= Blamed(a)
    BY <1>3, <1>7 DEF InTrouble
  <2>2. \A a \in 0 .. Window : Total(rejected', a) <= Blamed(a)'
    BY <1>1, <1>4, <1>7, <2>1, RejectedLoginBlamed
  <2>3. Few'
    <3>. DEFINE shares == [q \in Runners |-> Blame(q, Window)']
    <3>1. Window \in 0 .. Window
      BY Numbers
    <3>2. shares \in [Runners -> 0 .. MaxLoginFailures]
      <4>1. \A q \in Runners : Blame(q, Window)' \in 0 .. MaxLoginFailures
        BY <3>1, BlameTyped DEF Typed, Blame
      <4>. QED
        BY <4>1
    <3>3. Total(rejected', Window) <= SumOver(shares) + MaxLoginFailures * restarts'
      BY <2>2, <3>1 DEF Blamed
    <3>. HIDE DEF shares
    <3>4. Total(rejected', Window) <= MaxLoginFailures * (N + restarts')
      <4>1. restarts' \in Nat /\ rejected' \in [1 .. Window -> Nat]
        BY Numbers DEF Typed
      <4>. QED
        BY <3>2, <3>3, <4>1, BlamedIsFew
    <3>. QED
      BY <3>4 DEF Few, Heard
  <2>. QED
    BY <1>5, <2>2, <2>3 DEF InTrouble
<1>. QED
  BY <1>6, <1>7

\* An attempt of any kind.
LEMMA AttemptKeeps ==
  ASSUME Margin, Typed', NEW r \in Runners, Attempt(r)
  PROVE  Margin'
<1>1. Typed
  BY DEF Margin
<1>2. CASE AttemptPaused(r) \/ AttemptKeepsSession(r)
  BY <1>2, NothingCounted DEF AttemptPaused, AttemptKeepsSession
<1>3. CASE AttemptBreaksOff(r)
  <2>1. \A q \in Runners : session'[q] = NoSession \/ session'[q] = session[q]
    BY <1>1, <1>3 DEF AttemptBreaksOff, Forget, Typed
  <2>. QED
    BY <1>3, <2>1, NothingCounted DEF AttemptBreaksOff
<1>4. CASE AttemptFresh(r) \/ AttemptSessionLost(r)
  BY <1>4, FreshRunKeeps DEF AttemptFresh, AttemptSessionLost
<1>5. CASE AttemptReusing(r)
  BY <1>5, SucceedKeeps DEF AttemptReusing, Reusing
<1>. QED
  BY <1>2, <1>3, <1>4, <1>5 DEF Attempt

-----------------------------------------------------------------------------
(* The processes, the target and time.                                     *)

\* A restart forgets no more than the margin has for one.
LEMMA RestartKeeps ==
  ASSUME Margin, Typed', NEW r \in Runners, Restart(r)
  PROVE  Margin'
<1>1. Typed
  BY DEF Margin
<1>. SUFFICES ASSUME marked PROVE SessionsClean' /\ InTrouble' /\ Few'
  BY DEF Margin, Restart
<1>2. SessionsClean /\ InTrouble /\ Few
  BY DEF Margin, Restart
<1>3. SessionsClean'
  BY <1>1, <1>2 DEF SessionsClean, Restart, Forget, Typed
<1>4. Few'
  <2>1. rejected' = rejected /\ restarts' = restarts + 1 /\ restarts \in Nat
    BY <1>1, Numbers DEF Restart, Typed
  <2>2. \A m, n, x \in Nat : /\ m * (n + x) <= m * (n + (x + 1))
                            /\ m * (n + x) \in Int /\ m * (n + (x + 1)) \in Int
    <3>1. \A m, n, x \in Nat : m * (n + (x + 1)) = m * (n + x) + m /\ m * (n + x) \in Int
      OBVIOUS
    <3>. QED
      BY <3>1
  <2>3. Total(rejected, Window) \in Int
    BY <1>1, Numbers, RejectedTyped DEF Typed
  <2>. QED
    BY <1>2, <2>1, <2>2, <2>3, Numbers DEF Few, Heard
<1>5. ASSUME NEW a \in 0 .. Window
      PROVE  Blamed(a) \in Int /\ Blamed(a)' \in Int /\ Blamed(a) <= Blamed(a)'
  <2>. DEFINE now == [q \in Runners |-> Blame(q, a)]
              later == [q \in Runners |-> Blame(q, a)']
  <2>1. /\ \A q \in Runners : Blame(q, a) \in 0 .. MaxLoginFailures
        /\ \A q \in Runners : Blame(q, a)' \in 0 .. MaxLoginFailures
    BY <1>1, BlameTyped DEF Typed, Blame
  <2>2. now \in [Runners -> Int] /\ later \in [Runners -> Int]
    BY <2>1, Numbers
  <2>3. \A q \in Runners :
          now[q] + (IF q = r THEN -MaxLoginFailures ELSE 0) <= later[q]
    <3>1. ASSUME NEW q \in Runners, q # r PROVE Blame(q, a)' = Blame(q, a)
      BY <1>1, <3>1 DEF Restart, Typed, Blame
    <3>. QED
      BY <2>1, <3>1, Numbers
  <2>4. /\ Blamed(a) = SumOver(now) + MaxLoginFailures * restarts
        /\ Blamed(a)' = SumOver(later) + MaxLoginFailures * restarts'
    BY DEF Blamed
  <2>. HIDE DEF now, later
  <2>5. /\ SumOver(now) \in Int /\ SumOver(later) \in Int
        /\ SumOver(now) + (-MaxLoginFailures) <= SumOver(later)
    <3>1. -MaxLoginFailures \in Int
      BY Numbers
    <3>. QED
      BY <2>2, <2>3, <3>1, SumGrows, Zenon
  <2>6. MaxLoginFailures * restarts' = MaxLoginFailures * restarts + MaxLoginFailures
    <3>1. restarts' = restarts + 1 /\ restarts \in Nat
      BY <1>1, Numbers DEF Restart, Typed
    <3>2. \A m, x \in Nat : m * (x + 1) = m * x + m
      OBVIOUS
    <3>. QED
      BY <3>1, <3>2, Numbers
  <2>7. MaxLoginFailures * restarts \in Nat
    <3>1. \A m, x \in Nat : m * x \in Nat
      OBVIOUS
    <3>. QED
      BY <1>1, <3>1, Numbers DEF Typed
  <2>. QED
    BY <2>4, <2>5, <2>6, <2>7, Numbers
<1>6. InTrouble'
  <2>1. world = "wrong password" =>
          \A a \in 0 .. Window : Total(rejected, a) <= Blamed(a)
    BY <1>2 DEF InTrouble
  <2>2. ASSUME NEW a \in 0 .. Window, Total(rejected, a) <= Blamed(a)
        PROVE  Total(rejected', a) <= Blamed(a)'
    <3>1. rejected' = rejected /\ Total(rejected, a) \in Int
      BY <1>1, RejectedTyped DEF Restart, Typed
    <3>2. Total(rejected', a) = Total(rejected, a)
      BY <3>1
    <3>. QED
      BY <1>5, <2>2, <3>1, <3>2
  <2>3. world' = world
    BY DEF Restart
  <2>. QED
    BY <2>1, <2>2, <2>3, Zenon DEF InTrouble
<1>. QED
  BY <1>3, <1>4, <1>6

\* With every tick the target forgets its oldest failed logins, and those of
\* a runner are forgotten before its pause ends.
LEMMA PassTimeKeeps ==
  ASSUME Margin, Typed', PassTime
  PROVE  Margin'
<1>1. Typed
  BY DEF Margin
<1>. SUFFICES ASSUME marked PROVE SessionsClean' /\ InTrouble' /\ Few'
  BY DEF Margin, PassTime
<1>2. SessionsClean /\ InTrouble /\ Few
  BY DEF Margin, PassTime
<1>3. SessionsClean'
  <2>1. ASSUME NEW r \in Runners, session'[r] # NoSession PROVE session[r] # NoSession
    BY <2>1 DEF PassTime
  <2>2. ASSUME NEW r \in Runners, pause[r] = 0 PROVE pause'[r] = 0
    BY <2>2 DEF PassTime
  <2>. QED
    BY <1>2, <2>1, <2>2 DEF SessionsClean, PassTime
<1>4. \A t \in 1 .. Window : rejected'[t] = IF t = 1 THEN 0 ELSE rejected[t - 1]
  BY DEF PassTime, Older
<1>6. ASSUME NEW a \in 0 .. Window, a > 0
      PROVE  /\ a - 1 \in 0 .. Window
             /\ Total(rejected', a) = Total(rejected, a - 1)
  <2>1. /\ a - 1 \in Nat /\ a - 1 \in 0 .. Window /\ a - 1 + 1 = a
        /\ \A i \in 1 .. a - 1 : rejected[i] \in Int
        /\ \A i \in 1 .. a - 1 + 1 : rejected'[i] = IF i = 1 THEN 0 ELSE rejected[i - 1]
    BY <1>1, <1>4, <1>6, Numbers DEF Typed
  <2>2. Total(rejected', a - 1 + 1) = Total(rejected, a - 1)
    BY <2>1, TotalShifted
  <2>. QED
    BY <2>1, <2>2
<1>7. Few'
  <2>1. /\ Window \in 0 .. Window /\ Window > 0 /\ Window - 1 \in 0 .. Window
    BY Numbers
  <2>2. Total(rejected', Window) = Total(rejected, Window - 1)
    BY <1>6, <2>1
  <2>3. /\ Total(rejected, Window) \in Int /\ Total(rejected, Window - 1) \in Int
        /\ Total(rejected, Window - 1) <= Total(rejected, Window)
    <3>1. rejected \in [1 .. Window -> Nat]
      BY <1>1 DEF Typed
    <3>. QED
      BY <2>1, <3>1, RejectedTyped, TotalOfMore, Numbers
  <2>4. restarts' = restarts /\ MaxLoginFailures * (N + restarts) \in Int
    <3>1. \A m, n, x \in Nat : m * (n + x) \in Int
      OBVIOUS
    <3>2. restarts' = restarts /\ restarts \in Nat
      BY <1>1, Numbers DEF Typed, PassTime
    <3>. QED
      BY <3>1, <3>2, Numbers
  <2>. QED
    BY <1>2, <2>2, <2>3, <2>4 DEF Few, Heard
<1>8. ASSUME NEW a \in 0 .. Window,
             \A b \in 0 .. Window : Total(rejected, b) <= Blamed(b)
      PROVE  Total(rejected', a) <= Blamed(a)'
  <2>. DEFINE later == [q \in Runners |-> Blame(q, a)']
  <2>1. \A q \in Runners : Blame(q, a)' \in 0 .. MaxLoginFailures
    BY BlameTyped DEF Typed, Blame
  <2>2. /\ later \in [Runners -> 0 .. MaxLoginFailures] /\ later \in [Runners -> Int]
        /\ Blamed(a)' = SumOver(later) + MaxLoginFailures * restarts
        /\ \A q \in Runners : later[q] = Blame(q, a)'
    BY <2>1, Numbers DEF Blamed, PassTime
  <2>. HIDE DEF later
  <2>3. /\ SumOver(later) \in Int /\ 0 <= SumOver(later)
        /\ MaxLoginFailures * restarts \in Nat
    <3>1. restarts \in Nat
      BY <1>1, Numbers DEF Typed
    <3>. QED
      BY <2>2, <3>1, SumOfShares
  <2>4. CASE a = 0
    <3>1. Total(rejected', a) = 0
      BY <2>4, RejectedTyped DEF Typed
    <3>. QED
      BY <2>2, <2>3, <3>1
  <2>5. CASE a > 0
    <3>. DEFINE b == a - 1
                now == [q \in Runners |-> Blame(q, b)]
    <3>1. b \in 0 .. Window /\ Total(rejected', a) = Total(rejected, b)
      BY <1>6, <2>5
    <3>2. \A q \in Runners : Blame(q, b) \in 0 .. MaxLoginFailures
      BY <1>1, <3>1, BlameTyped DEF Typed, Blame
    <3>3. /\ now \in [Runners -> Int] /\ \A q \in Runners : now[q] = Blame(q, b)
          /\ Blamed(b) = SumOver(now) + MaxLoginFailures * restarts
      BY <3>2, Numbers DEF Blamed
    <3>4. ASSUME NEW q \in Runners PROVE now[q] <= later[q]
      <4>1. /\ pause'[q] = IF pause[q] = 0 THEN 0 ELSE pause[q] - 1
            /\ failures'[q] = failures[q]
            /\ pause[q] \in 0 .. Cooldown /\ failures[q] \in 0 .. MaxLoginFailures - 1
        BY <1>1 DEF PassTime, Typed
      <4>2. Blame(q, b) <= Blame(q, a)'
        BY <2>5, <4>1, Numbers DEF Blame
      <4>. QED
        BY <2>2, <3>3, <4>2, Zenon
    <3>. HIDE DEF b, now
    <3>5. SumOver(now) \in Int /\ SumOver(now) <= SumOver(later)
      <4>1. \A q \in Runners : now[q] <= later[q]
        BY <3>4
      <4>. QED
        BY <2>2, <3>3, <4>1, SumMonotone, Zenon
    <3>6. Total(rejected, b) <= Blamed(b) /\ Total(rejected, b) \in Int
      BY <1>1, <1>8, <3>1, RejectedTyped DEF Typed
    <3>. QED
      BY <2>2, <2>3, <3>1, <3>3, <3>5, <3>6
  <2>. QED
    BY <2>4, <2>5
<1>9. InTrouble'
  <2>1. world' = world
    BY DEF PassTime
  <2>. QED
    BY <1>2, <1>8, <2>1, Zenon DEF InTrouble
<1>. QED
  BY <1>3, <1>7, <1>9

\* The password goes wrong where the target remembers no refusal it told of.
LEMMA WorldChangesKeeps ==
  ASSUME Margin, Typed', WorldChanges
  PROVE  Margin'
<1>1. Typed
  BY DEF Margin
<1>. SUFFICES ASSUME marked PROVE SessionsClean' /\ InTrouble' /\ Few'
  BY DEF Margin, WorldChanges
<1>2. SessionsClean /\ InTrouble /\ Few
  BY DEF Margin, WorldChanges
<1>3. SessionsClean'
  BY <1>2 DEF SessionsClean, WorldChanges
<1>4. rejected' = rejected /\ rejected \in [1 .. Window -> Nat]
  BY <1>1 DEF WorldChanges, Typed
<1>5. CASE world' # "wrong password"
  BY <1>2, <1>3, <1>4, <1>5 DEF WorldChanges, InTrouble, Few, Heard
<1>6. CASE world' = "wrong password"
  <2>1. Total(rejected, Window) = 0 /\ restarts' = 0
    BY <1>6 DEF WorldChanges, Heard
  <2>2. Few'
    <3>1. \A m, n \in Nat : 0 <= m * (n + 0)
      <4>1. \A m, n \in Nat : n + 0 = n /\ m * n \in Nat
        OBVIOUS
      <4>. QED
        BY <4>1
    <3>. QED
      BY <1>4, <2>1, <3>1, Numbers DEF Few, Heard
  <2>3. ASSUME NEW a \in 0 .. Window PROVE Total(rejected', a) <= Blamed(a)'
    <3>. DEFINE later == [q \in Runners |-> Blame(q, a)']
    <3>1. \A q \in Runners : Blame(q, a)' \in 0 .. MaxLoginFailures
      BY BlameTyped DEF Typed, Blame
    <3>2. /\ later \in [Runners -> 0 .. MaxLoginFailures]
          /\ Blamed(a)' = SumOver(later) + MaxLoginFailures * restarts'
      BY <3>1 DEF Blamed
    <3>. HIDE DEF later
    <3>3. /\ SumOver(later) \in Int /\ 0 <= SumOver(later)
          /\ MaxLoginFailures * restarts' \in Nat
      BY <2>1, <3>2, SumOfShares
    <3>4. Total(rejected, a) <= 0 /\ Total(rejected, a) \in Int
      <4>1. (\A i \in 1 .. Window : rejected[i] \in Nat) /\ Window \in Nat
        BY <1>4, Numbers
      <4>2. Total(rejected, a) <= Total(rejected, Window)
        BY <4>1, TotalOfMore
      <4>. QED
        BY <1>4, <2>1, <4>2, RejectedTyped
    <3>. QED
      BY <1>4, <3>2, <3>3, <3>4
  <2>. QED
    BY <1>3, <2>2, <2>3 DEF InTrouble
<1>. QED
  BY <1>5, <1>6

\* What the variables can be.
LEMMA TypedKept == ASSUME Typed, [WorkflowNext]_workflowVars PROVE Typed'
<1>1. CASE UNCHANGED workflowVars
  BY <1>1 DEF workflowVars, Typed
<1>2. ASSUME NEW r \in Runners, NoteLoginFailure(r)
      PROVE  /\ failures' \in [Runners -> 0 .. MaxLoginFailures - 1]
             /\ pause' \in [Runners -> 0 .. Cooldown]
  <2>1. /\ failures \in [Runners -> 0 .. MaxLoginFailures - 1]
        /\ pause \in [Runners -> 0 .. Cooldown]
    BY DEF Typed
  <2>. QED
    BY <1>2, <2>1, Numbers DEF NoteLoginFailure
<1>3. ASSUME NEW r \in Runners, Succeed(r)
      PROVE  /\ failures' \in [Runners -> 0 .. MaxLoginFailures - 1]
             /\ pause' \in [Runners -> 0 .. Cooldown]
             /\ session' = [q \in Runners |-> session'[q]]
             /\ result' = [q \in Runners |-> result'[q]]
             /\ rejected' = rejected
  <2>1. /\ failures' \in [Runners -> 0 .. MaxLoginFailures - 1]
        /\ pause' \in [Runners -> 0 .. Cooldown]
    BY <1>3, Numbers DEF Succeed, Typed
  <2>2. session' = [q \in Runners |-> session'[q]]
    BY <1>3 DEF Succeed, Typed
  <2>3. result' = [q \in Runners |-> result'[q]] /\ rejected' = rejected
    BY <1>3 DEF Succeed, Typed
  <2>. QED
    BY <2>1, <2>2, <2>3
<1>4. ASSUME NEW r \in Runners, FreshRun(r), UNCHANGED <<unheard, restarts>> PROVE Typed'
  <2>1. CASE Succeed(r)
    BY <1>3, <1>4, <2>1 DEF Typed
  <2>2. CASE NoteLoginFailure(r) /\ Forget(r) /\ Fail(r)
    <3>1. rejected' \in [1 .. Window -> Nat]
      <4>1. CASE rejected' = rejected
        BY <4>1 DEF Typed
      <4>2. CASE rejected' = [rejected EXCEPT ![1] = IF Locked THEN @ ELSE @ + 1]
        <5>1. rejected \in [1 .. Window -> Nat]
          BY DEF Typed
        <5>. QED
          BY <4>2, <5>1, Numbers
      <4>. QED
        BY <1>4, <4>1, <4>2 DEF FreshRun, Succeed
    <3>2. /\ session' = [q \in Runners |-> session'[q]]
          /\ result' = [q \in Runners |-> result'[q]]
      BY <2>2 DEF Forget, Fail, Typed
    <3>. QED
      BY <1>2, <1>4, <2>2, <3>1, <3>2 DEF Typed
  <2>. QED
    BY <1>4, <2>1, <2>2 DEF FreshRun
<1>5. ASSUME NEW r \in Runners, Attempt(r) PROVE Typed'
  <2>1. CASE AttemptPaused(r)
    BY <2>1 DEF AttemptPaused, Typed
  <2>2. CASE AttemptBreaksOff(r)
    <3>1. unheard' \in [1 .. Window -> Nat]
      <4>1. unheard \in [1 .. Window -> Nat]
        BY DEF Typed
      <4>2. CASE unheard' = unheard
        BY <4>1, <4>2
      <4>3. CASE unheard' = [unheard EXCEPT ![1] = @ + 1]
        BY <4>1, <4>3, Numbers
      <4>. QED
        BY <2>2, <4>2, <4>3 DEF AttemptBreaksOff
    <3>. QED
      BY <2>2, <3>1 DEF AttemptBreaksOff, Forget, Fail, Typed
  <2>3. CASE AttemptFresh(r) \/ AttemptSessionLost(r)
    BY <1>4, <2>3 DEF AttemptFresh, AttemptSessionLost
  <2>4. CASE AttemptReusing(r)
    BY <1>3, <2>4 DEF AttemptReusing, Typed
  <2>5. CASE AttemptKeepsSession(r)
    BY <2>5 DEF AttemptKeepsSession, Fail, Typed
  <2>. QED
    BY <1>5, <2>1, <2>2, <2>3, <2>4, <2>5 DEF Attempt
<1>6. ASSUME NEW r \in Runners, Restart(r) PROVE Typed'
  <2>1. /\ failures' \in [Runners -> 0 .. MaxLoginFailures - 1]
        /\ pause' \in [Runners -> 0 .. Cooldown] /\ restarts' \in 0 .. MaxRestarts
    BY <1>6, Numbers DEF Restart, Typed
  <2>2. session' = [q \in Runners |-> session'[q]]
    BY <1>6 DEF Restart, Forget, Typed
  <2>. QED
    BY <1>6, <2>1, <2>2 DEF Restart, Typed
<1>7. CASE TargetDropsSessions
  BY <1>7 DEF TargetDropsSessions, Typed
<1>8. CASE WorldChanges
  <2>1. restarts' \in 0 .. MaxRestarts
    <3>1. restarts' = 0 \/ restarts' = restarts
      BY <1>8 DEF WorldChanges
    <3>. QED
      BY <3>1, Numbers DEF Typed
  <2>. QED
    BY <1>8, <2>1 DEF WorldChanges, Typed
<1>9. CASE PassTime
  <2>1. rejected' \in [1 .. Window -> Nat] /\ unheard' \in [1 .. Window -> Nat]
    BY <1>9, Numbers DEF PassTime, Older, Typed
  <2>2. pause' \in [Runners -> 0 .. Cooldown]
    BY <1>9, Numbers DEF PassTime, Typed
  <2>. QED
    BY <1>9, <2>1, <2>2 DEF PassTime, Typed
<1>. QED
  BY <1>1, <1>5, <1>6, <1>7, <1>8, <1>9 DEF WorkflowNext

\* Where the monitor begins, nothing was refused.
LEMMA InitMargin == WorkflowInit => Margin
<1>. SUFFICES ASSUME WorkflowInit PROVE Margin
  OBVIOUS
<1>1. Typed
  BY Numbers DEF WorkflowInit, Typed
<1>2. SessionsClean /\ InTrouble
  BY DEF WorkflowInit, SessionsClean, InTrouble
<1>3. Few
  <2>1. /\ Window \in Nat /\ 0 \in Nat /\ (\A t \in 1 .. Window : rejected[t] \in 0 .. 0)
        /\ (\A t \in 1 .. Window : rejected[t] \in Int) /\ restarts = 0
    BY Numbers DEF WorkflowInit
  <2>2. Total(rejected, Window) <= 0 * Window /\ Total(rejected, Window) \in Int
    BY <2>1, TotalBounded, TotalAdds
  <2>3. \A m, n \in Nat : 0 * m = 0 /\ n + 0 = n /\ m * n \in Nat
    OBVIOUS
  <2>4. Total(rejected, Window) <= 0 /\ MaxLoginFailures * (N + restarts) \in Nat
    BY <2>1, <2>2, <2>3, Numbers
  <2>. QED
    BY <2>2, <2>4 DEF Few, Heard
<1>. QED
  BY <1>1, <1>2, <1>3 DEF Margin

\* Every step keeps the margin.
LEMMA NextMargin == Margin /\ [WorkflowNext]_workflowVars => Margin'
<1>. SUFFICES ASSUME Margin, [WorkflowNext]_workflowVars PROVE Margin'
  OBVIOUS
<1>1. Typed'
  BY TypedKept DEF Margin
<1>2. CASE UNCHANGED workflowVars
  BY <1>1, <1>2, NothingCounted DEF workflowVars
<1>3. CASE TargetDropsSessions
  <2>1. \A r \in Runners : session'[r] # NoSession => session[r] # NoSession
    BY <1>3 DEF TargetDropsSessions
  <2>. QED
    BY <1>1, <1>3, <2>1, NothingCounted DEF TargetDropsSessions
<1>. QED
  BY <1>1, <1>2, <1>3, AttemptKeeps, RestartKeeps, WorldChangesKeeps, PassTimeKeeps
     DEF WorkflowNext

\* A wrong password never makes the monitor ask the target for more refusals
\* that it hears of than three for each process and application that shares
\* the account and three for each restart, within any window of the target's
\* memory: each stops after MAX_LOGIN_FAILURES and pauses until the target has
\* forgotten them, however many other refusals are lost on the way.
\* (workflow_service 74-78, 176-193)
THEOREM RefusalsAreFew == WorkflowSpec => []LoginsWithinLimit
<1>1. Margin => LoginsWithinLimit
  BY DEF Margin, LoginsWithinLimit, Few, N
<1>. QED
  BY <1>1, InitMargin, NextMargin, PTL DEF WorkflowSpec

\* A session the target dropped is never reported as an outage where the
\* workflow's steps notice it: while all is well every attempt that may log in
\* ends in a success, whatever came before, as long as no refusal went unheard
\* and the runners are few for the target's limit. (workflow_service 272-285)
THEOREM LostSessionsAreHidden == WorkflowSpec => LostSessionIsNoOutage
<1>1. ASSUME Margin, [WorkflowNext]_workflowVars
      PROVE  [\A r \in Runners :
                Attempt(r) /\ world = "fine" /\ spotted /\ marked /\ pause[r] = 0
                  /\ Unheard = 0
                  /\ MaxLoginFailures * (Cardinality(Runners) + restarts) < Limit
                  => result'[r] = "ok"]_workflowVars
  <2>. SUFFICES ASSUME NEW r \in Runners, Attempt(r), world = "fine", spotted, marked,
                       pause[r] = 0, Unheard = 0,
                       MaxLoginFailures * (Cardinality(Runners) + restarts) < Limit
       PROVE  result'[r] = "ok"
    OBVIOUS
  <2>1. Typed /\ ~Locked
    <3>1. Typed /\ Heard <= MaxLoginFailures * (N + restarts)
      BY <1>1 DEF Margin, Few
    <3>2. MaxLoginFailures * (N + restarts) < Limit
      BY DEF N
    <3>3. Heard \in Int /\ MaxLoginFailures * (N + restarts) \in Int
      <4>1. \A m, n, x \in Nat : m * (n + x) \in Int
        OBVIOUS
      <4>2. restarts \in Nat /\ Heard \in Int
        BY <3>1, Numbers, RejectedTyped DEF Typed, Heard
      <4>. QED
        BY <4>1, <4>2, Numbers
    <3>. QED
      BY <3>1, <3>2, <3>3, Numbers DEF Locked
  <2>2. FreshRun(r) => Succeed(r)
    BY <2>1 DEF FreshRun
  <2>3. ~(pause[r] > 0)
    OBVIOUS
  <2>4. ~AttemptPaused(r) /\ ~AttemptBreaksOff(r)
    BY <2>3 DEF AttemptPaused, AttemptBreaksOff
  <2>5. ~AttemptKeepsSession(r)
    BY Zenon DEF AttemptKeepsSession
  <2>6. Succeed(r)
    BY <2>2, <2>4, <2>5 DEF Attempt, AttemptFresh, AttemptReusing, AttemptSessionLost
  <2>. QED
    BY <2>1, <2>6 DEF Succeed, Typed
<1>. QED
  BY <1>1, InitMargin, NextMargin, PTL DEF WorkflowSpec, LostSessionIsNoOutage
=============================================================================
