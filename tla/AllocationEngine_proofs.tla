----------------------- MODULE AllocationEngine_proofs ------------------------
(***************************************************************************)
(* Proofs about AllocationEngine, for every policy, amount and asset:      *)
(* TypeCorrect (no line is negative), SharesFairHolds (rounding never      *)
(* moves more than a unit per line to the last one), SplitConservesHolds   *)
(* (the lines add up), PlansAreValidHolds and LargeSharesWaitHolds (no     *)
(* rounding takes a line past its approval).                               *)
(*                                                                         *)
(* None is inductive: the first two need what the validation loop          *)
(* established about the percentages (ChecksInv) and what the split still  *)
(* owes to the categories to come (SplitInv), the others the ids seen, the *)
(* sum of the lines and the lines routed so far (PlanInv).                 *)
(***************************************************************************)
EXTENDS AllocationEngine, Sums_proofs, TLAPS

splitting == pc \in {"allocate", "route", "done"}

\* The running sums are those of the percentages seen, as long as no
\* category was refused; a split has begun only after all of them passed.
ChecksInv ==
    /\ running[1] = 0 /\ running[Len(running)] = totalBps
    /\ ok => \A i \in 1..(Len(running) - 1) :
                 /\ categories[i].bps >= 0
                 /\ running[i + 1] = running[i] + categories[i].bps
    /\ splitting => ok /\ n > 0 /\ Len(running) = n + 1 /\ totalBps = 10000

\* What the lines so far are short of their exact shares, in 1/10000 units:
\* less than one unit each, and nothing once the last line is there.
owed == totalUnits * running[Len(lines) + 1] - 10000 * allocated

SplitInv ==
    /\ pc \in {"validate", "refused"} => lines = <<>> /\ allocated = 0
    /\ pc = "allocate" => Len(lines) < n
    /\ pc \in {"route", "done"} => Len(lines) = n
    /\ splitting /\ Len(lines) < n => owed >= 0 /\ owed <= 9999 * Len(lines)

EngineInv == TypeOK /\ ChecksInv /\ SplitInv /\ SharesFair

\* The ids of the categories seen, as long as none was refused, differ and are
\* all in `ids`.
IdsSeen ==
    ok => /\ \A i \in 1..(Len(running) - 1) : categories[i].id \in ids
          /\ \A i, j \in 1..(Len(running) - 1) : categories[i].id = categories[j].id => i = j

\* The units given out are those of the lines, and in the end all there are.
Summed ==
    /\ allocated = SumOver(lines)
    /\ pc \in {"route", "done"} => allocated = totalUnits

\* What the routing loop has filed as pending, so far.
Routed ==
    /\ pc \in {"validate", "refused", "allocate"} => plan = <<>>
    /\ pc = "route" => Len(plan) < n
    /\ pc = "done" => Len(plan) = n
    /\ \A i \in 1..Len(plan) :
           (plan[i] = "pendingActions") <=> requiresApproval(categories[i], lines[i])

PlanInv == IdsSeen /\ Summed /\ Routed

-----------------------------------------------------------------------------
(* Arithmetic                                                              *)

\* Division by 10000 in the split loses less than 10000.
LEMMA DivBounds ==
    ASSUME NEW a \in Nat
    PROVE  /\ a \div 10000 \in Nat
           /\ 10000 * (a \div 10000) <= a /\ a <= 10000 * (a \div 10000) + 9999
  BY SMT

\* The units of two sums of percentages add up.
LEMMA Distribute ==
    ASSUME NEW t \in Nat, NEW x \in Nat, NEW b \in Nat
    PROVE  t * (x + b) = t * x + t * b /\ t * x \in Nat /\ t * b \in Nat
  BY SMT

\* The policy checked is one of the admitted ones, so its parts have types;
\* the units of the amount are a natural number.
LEMMA InputTypes ==
    ASSUME TypeOK
    PROVE  /\ categories \in Seq(Category) /\ n \in Nat
           /\ \A i \in 1..n : categories[i] \in Category /\ categories[i].bps \in Int
                              /\ categories[i].type \in CategoryTypes
                              /\ categories[i].id \in STRING
           /\ totalUnits \in Nat
  <1>1. policy \in [categories : Seq(Category), rules : Seq(Rule)]
    BY EnginePoliciesAssumption DEF TypeOK
  <1>2. categories \in Seq(Category)
    BY <1>1 DEF categories
  <1>3. n \in Nat /\ \A i \in 1..n : categories[i] \in Category
    BY <1>2 DEF n
  <1>4. \A c \in Category : c.bps \in Int /\ c.type \in CategoryTypes /\ c.id \in STRING
    BY DEF Category
  <1>5. totalUnits \in Nat
    <2>1. amount \in Nat /\ asset.dust \in Nat \ {0} /\ asset.finer \in Nat \ {0}
      BY EngineAmountsAssumption DEF TypeOK, Asset
    <2>2. amount * asset.finer \in Nat
      BY <2>1, SMT
    <2>3. \A a \in Nat, d \in Nat \ {0} : a \div d \in Nat
      BY SMT
    <2> QED BY <2>1, <2>2, <2>3 DEF totalUnits
  <1> QED BY <1>2, <1>3, <1>4, <1>5

-----------------------------------------------------------------------------
(* One lemma per action                                                    *)

\* A loop that has not begun satisfies the invariant.
LEMMA InitInv == Init => EngineInv
  <1> SUFFICES ASSUME Init PROVE EngineInv
    OBVIOUS
  <1>1. n \in Nat
    <2>1. policy \in [categories : Seq(Category), rules : Seq(Rule)]
      BY EnginePoliciesAssumption DEF Init
    <2> QED BY <2>1 DEF n, categories
  <1>2. running \in Seq(Nat) /\ Len(running) = 1 /\ running[1] = 0
    BY DEF Init
  <1>3. TypeOK
    BY <1>1, <1>2 DEF Init, TypeOK
  <1>4. ChecksInv
    BY <1>2 DEF Init, ChecksInv, splitting
  <1>5. SplitInv
    BY DEF Init, SplitInv, splitting
  <1>6. SharesFair
    BY DEF Init, SharesFair
  <1> QED BY <1>3, <1>4, <1>5, <1>6 DEF EngineInv

\* An iteration of the validation appends the next running sum.
LEMMA CheckCategoryInv == EngineInv /\ CheckCategory => EngineInv'
  <1> SUFFICES ASSUME EngineInv, CheckCategory PROVE EngineInv'
    OBVIOUS
  <1> USE DEF next
  <1> DEFINE c == categories[next]
  <1>1. /\ TypeOK /\ ChecksInv /\ SplitInv /\ SharesFair
        /\ pc = "validate" /\ pc' = pc /\ next <= n
        /\ policy' = policy /\ amount' = amount /\ asset' = asset
        /\ newRecipients' = newRecipients
        /\ allocated' = allocated /\ lines' = lines /\ plan' = plan
    BY DEF EngineInv, CheckCategory, input
  <1>2. /\ ok' = (ok /\ validCategory(c))
        /\ totalBps' = IF validBps(c) THEN totalBps + c.bps ELSE totalBps
        /\ ids' = ids \cup ({c.id} \ {""})
        /\ running' = Append(running, totalBps')
    BY DEF CheckCategory
  <1>3. /\ categories' = categories /\ n' = n /\ totalUnits' = totalUnits
    BY <1>1 DEF categories, n, totalUnits
  <1>4. running \in Seq(Nat) /\ Len(running) \in 1..(n + 1) /\ totalBps \in Nat
    BY <1>1 DEF TypeOK
  <1>5. n \in Nat /\ next \in 1..n /\ c.bps \in Int /\ c.id \in STRING
    BY <1>1, <1>4, InputTypes
  <1> HIDE DEF c
  <1>6. totalBps' \in Nat
    <2>1. CASE validBps(c)
      <3>1. totalBps' = totalBps + c.bps
        BY <1>2, <2>1
      <3>2. c.bps >= 0
        BY <2>1 DEF validBps
      <3> QED BY <1>4, <1>5, <3>1, <3>2
    <2>2. CASE ~validBps(c)
      BY <1>2, <1>4, <2>2
    <2> QED BY <2>1, <2>2
  <1>7. /\ running' \in Seq(Nat) /\ Len(running') = Len(running) + 1
        /\ running'[Len(running) + 1] = totalBps'
        /\ \A i \in 1..Len(running) : running'[i] = running[i]
    <2>1. running' = Append(running, totalBps')
      BY <1>2
    <2> DEFINE sum == totalBps'
    <2> HIDE DEF sum
    <2>2. running' = Append(running, sum) /\ sum \in Nat
      BY <1>6, <2>1 DEF sum
    <2>3. /\ running' \in Seq(Nat) /\ Len(running') = Len(running) + 1
          /\ running'[Len(running) + 1] = sum
          /\ \A i \in 1..Len(running) : running'[i] = running[i]
      BY <1>4, <2>2
    <2> QED BY <2>3 DEF sum
  <1>8. TypeOK'
    <2>1. ids' \subseteq STRING /\ ok' \in BOOLEAN
      BY <1>1, <1>2, <1>5 DEF TypeOK
    <2>2. Len(running') \in 1..(n' + 1)
      BY <1>3, <1>4, <1>5, <1>7
    <2> QED BY <1>1, <1>3, <1>6, <1>7, <2>1, <2>2 DEF TypeOK
  <1>9. ChecksInv'
    <2>1. running'[1] = 0 /\ running'[Len(running')] = totalBps'
      BY <1>1, <1>4, <1>7 DEF ChecksInv
    <2>2. ASSUME ok', NEW i \in 1..(Len(running') - 1)
          PROVE  categories[i].bps >= 0 /\ running'[i + 1] = running'[i] + categories[i].bps
      <3>1. ok /\ validBps(c)
        BY <1>2, <2>2 DEF validCategory
      <3>2. CASE i = Len(running)
        <4>1. c.bps >= 0 /\ totalBps' = totalBps + c.bps
          BY <1>2, <3>1 DEF validBps
        <4>2. running'[i + 1] = totalBps' /\ running'[i] = totalBps
          BY <1>1, <1>4, <1>7, <3>2 DEF ChecksInv
        <4> QED BY <3>2, <4>1, <4>2 DEF c
      <3>3. CASE i # Len(running)
        <4>1. i \in 1..(Len(running) - 1) /\ i + 1 \in 1..Len(running) /\ i \in 1..Len(running)
          BY <1>4, <1>7, <3>3
        <4> QED BY <1>1, <1>7, <3>1, <4>1 DEF ChecksInv
      <3> QED BY <3>2, <3>3
    <2> QED BY <1>1, <1>3, <2>1, <2>2 DEF ChecksInv, splitting
  <1>10. SplitInv'
    BY <1>1, <1>3 DEF SplitInv, splitting
  <1>11. SharesFair'
    BY <1>1 DEF SplitInv, SharesFair
  <1> QED BY <1>8, <1>9, <1>10, <1>11 DEF EngineInv

\* The whole-policy checks let a split begin only with all the percentages.
LEMMA CheckPolicyInv == EngineInv /\ CheckPolicy => EngineInv'
  <1> SUFFICES ASSUME EngineInv, CheckPolicy PROVE EngineInv'
    OBVIOUS
  <1>1. /\ TypeOK /\ ChecksInv /\ SplitInv /\ SharesFair
        /\ policy' = policy /\ amount' = amount /\ asset' = asset
        /\ newRecipients' = newRecipients
        /\ ids' = ids /\ totalBps' = totalBps /\ ok' = ok /\ running' = running
        /\ allocated' = allocated /\ lines' = lines /\ plan' = plan
    BY DEF EngineInv, CheckPolicy, input
  <1>2. /\ pc = "validate" /\ Len(running) > n
        /\ pc' \in {"allocate", "refused"}
        /\ pc' = "allocate" => ok /\ n > 0 /\ totalBps = 10000
    BY DEF CheckPolicy, next
  <1>3. /\ categories' = categories /\ n' = n /\ totalUnits' = totalUnits
    BY <1>1 DEF categories, n, totalUnits
  <1>4. n \in Nat /\ totalUnits \in Nat /\ Len(running) = n + 1
    BY <1>1, <1>2, InputTypes DEF TypeOK
  <1>5. TypeOK'
    BY <1>1, <1>2, <1>3 DEF TypeOK
  <1>6. ChecksInv'
    BY <1>1, <1>2, <1>3, <1>4 DEF ChecksInv, splitting
  <1>7. lines = <<>> /\ allocated = 0 /\ running[1] = 0
    BY <1>1, <1>2 DEF SplitInv, ChecksInv
  <1>8. SplitInv'
    <2>1. Len(lines) = 0
      BY <1>7
    <2>2. owed' = 0
      BY <1>1, <1>3, <1>4, <1>7, <2>1 DEF owed
    <2> QED BY <1>1, <1>2, <1>3, <1>4, <1>7, <2>1, <2>2 DEF SplitInv, splitting
  <1>9. SharesFair'
    BY <1>1, <1>7 DEF SharesFair
  <1> QED BY <1>5, <1>6, <1>8, <1>9 DEF EngineInv

\* A line takes its share or, being the last, what is left: either way the
\* units owed stay within one per line.
LEMMA AllocateLineInv == EngineInv /\ AllocateLine => EngineInv'
  <1> SUFFICES ASSUME EngineInv, AllocateLine PROVE EngineInv'
    OBVIOUS
  <1> DEFINE k == Len(lines)
             units == allocateAtomic(k + 1)
             b == categories[k + 1].bps
  <1>1. /\ TypeOK /\ ChecksInv /\ SplitInv /\ SharesFair
        /\ policy' = policy /\ amount' = amount /\ asset' = asset
        /\ newRecipients' = newRecipients
        /\ ids' = ids /\ totalBps' = totalBps /\ ok' = ok /\ running' = running
        /\ plan' = plan
    BY DEF EngineInv, AllocateLine, input
  <1>2. /\ pc = "allocate" /\ k < n
        /\ lines' = Append(lines, units) /\ allocated' = allocated + units
        /\ pc' = IF k + 1 = n THEN "route" ELSE "allocate"
    BY DEF AllocateLine
  <1>3. /\ categories' = categories /\ n' = n /\ totalUnits' = totalUnits
    BY <1>1 DEF categories, n, totalUnits
  <1>4. /\ n \in Nat /\ totalUnits \in Nat /\ allocated \in Nat
        /\ lines \in Seq(Nat) /\ k \in Nat /\ k + 1 \in 1..n
    BY <1>1, <1>2, InputTypes DEF TypeOK
  <1>5. /\ ok /\ n > 0 /\ Len(running) = n + 1 /\ totalBps = 10000
        /\ running \in Seq(Nat) /\ running[n + 1] = 10000
    BY <1>1, <1>2 DEF ChecksInv, splitting, TypeOK
  <1>6. /\ b \in Nat /\ running[k + 1] \in Nat /\ running[k + 2] \in Nat
        /\ running[k + 2] = running[k + 1] + b
    <2>1. b \in Int
      BY <1>1, <1>4, InputTypes
    <2>2. k + 1 \in 1..(Len(running) - 1)
      BY <1>4, <1>5
    <2>3. b >= 0 /\ running[(k + 1) + 1] = running[k + 1] + b
      BY <1>1, <1>5, <2>2 DEF ChecksInv
    <2> HIDE DEF b
    <2> QED BY <1>4, <1>5, <2>1, <2>3
  <1>7. /\ totalUnits * running[k + 1] - 10000 * allocated >= 0
        /\ totalUnits * running[k + 1] - 10000 * allocated <= 9999 * k
    BY <1>1, <1>2 DEF SplitInv, splitting, owed
  <1>8. /\ totalUnits * running[k + 2] = totalUnits * running[k + 1] + totalUnits * b
        /\ totalUnits * b \in Nat /\ totalUnits * running[k + 1] \in Nat
    <2> DEFINE r == running[k + 1]
    <2>1. r \in Nat /\ b \in Nat /\ totalUnits \in Nat /\ running[k + 2] = r + b
      BY <1>4, <1>6
    <2> HIDE DEF r, b
    <2>2. /\ totalUnits * (r + b) = totalUnits * r + totalUnits * b
          /\ totalUnits * r \in Nat /\ totalUnits * b \in Nat
      BY <2>1, Distribute
    <2>3. totalUnits * running[k + 2] = totalUnits * r + totalUnits * b
      BY <2>1, <2>2, Zenon
    <2> QED BY <2>2, <2>3, Zenon DEF r
  <1>9. /\ share(k + 1) \in Nat
        /\ 10000 * share(k + 1) <= totalUnits * b
        /\ totalUnits * b <= 10000 * share(k + 1) + 9999
    BY <1>8, DivBounds DEF share
  <1>10. k + 1 # n => units = share(k + 1)
    BY DEF allocateAtomic
  <1>11. k + 1 = n => units = totalUnits - allocated
    BY DEF allocateAtomic
  <1> DEFINE x == totalUnits * running[k + 1]
             y == totalUnits * b
             s == share(k + 1)
  <1>12. k + 1 = n => running[k + 2] = 10000
    BY <1>4, <1>5
  <1>13. k + 1 = n => x + y = totalUnits * 10000
    BY <1>8, <1>12
  <1>14. /\ x - 10000 * allocated >= 0 /\ x - 10000 * allocated <= 9999 * k
         /\ x \in Nat /\ y \in Nat /\ s \in Nat
         /\ 10000 * s <= y /\ y <= 10000 * s + 9999
    BY <1>7, <1>8, <1>9
  <1> HIDE DEF k, units, b, x, y, s
  <1>15. /\ units \in Nat
         /\ k + 1 = n => y <= 10000 * units /\ 10000 * units < y + 10000 * n
    BY <1>4, <1>10, <1>11, <1>13, <1>14 DEF s
  <1>16. /\ lines' \in Seq(Nat) /\ Len(lines') = k + 1 /\ lines'[k + 1] = units
         /\ \A i \in 1..k : lines'[i] = lines[i]
    BY <1>2, <1>4, <1>15 DEF k
  <1>17. TypeOK'
    <2>1. Len(lines') <= n' /\ allocated' \in Nat /\ pc' \in {"allocate", "route"}
      BY <1>2, <1>3, <1>4, <1>15, <1>16
    <2> QED BY <1>1, <1>3, <1>16, <2>1 DEF TypeOK
  <1>18. ChecksInv'
    BY <1>1, <1>2, <1>3, <1>5 DEF ChecksInv, splitting
  <1>19. SplitInv'
    <2>1. /\ pc' \in {"allocate", "route"}
          /\ pc' = "allocate" => k + 1 # n
          /\ pc' = "route" => k + 1 = n
      BY <1>2
    <2>2. ASSUME k + 1 # n
          PROVE  owed' >= 0 /\ owed' <= 9999 * (k + 1)
      <3>1. owed' = totalUnits * running[k + 2] - 10000 * (allocated + units)
        <4>1. Len(lines') + 1 = k + 2
          BY <1>4, <1>16
        <4> QED BY <1>1, <1>2, <1>3, <4>1 DEF owed
      <3>2. owed' = (x + y) - 10000 * (allocated + s)
        <4> DEFINE z == totalUnits * running[k + 2]
        <4>1. z = x + y
          BY <1>8, Zenon DEF x, y
        <4>2. units = s
          BY <1>10, <2>2, Zenon DEF s
        <4>3. owed' = z - 10000 * (allocated + units)
          BY <3>1
        <4> HIDE DEF z
        <4> QED BY <4>1, <4>2, <4>3
      <3> QED BY <1>4, <1>14, <3>2
    <2>3. n \in Nat /\ k \in Nat /\ k < n
      BY <1>2, <1>4
    <2> QED BY <1>3, <1>16, <2>1, <2>2, <2>3 DEF SplitInv, splitting
  <1>20. SharesFair'
    <2> SUFFICES ASSUME NEW i \in 1..(k + 1)
                 PROVE  /\ i < n => lines'[i] = share(i)
                        /\ i = n => /\ totalUnits * categories[i].bps <= 10000 * lines'[i]
                                    /\ 10000 * lines'[i] < totalUnits * categories[i].bps
                                                           + 10000 * n
      <3>1. DOMAIN lines' = 1..(k + 1)
        BY <1>16
      <3>2. \A i : share(i)' = share(i)
        BY <1>3 DEF share
      <3> QED BY <1>3, <3>1, <3>2 DEF SharesFair
    <2>1. CASE i = k + 1
      BY <1>4, <1>10, <1>15, <1>16, <2>1 DEF y, b
    <2>2. CASE i # k + 1
      <3>1. i \in 1..k /\ i \in DOMAIN lines /\ lines'[i] = lines[i] /\ i < n
        BY <1>4, <1>16, <2>2 DEF k
      <3>2. i # n
        BY <1>4, <3>1
      <3> QED BY <1>1, <3>1, <3>2 DEF SharesFair
    <2> QED BY <2>1, <2>2
  <1> QED BY <1>17, <1>18, <1>19, <1>20 DEF EngineInv

\* Routing only reads the lines.
LEMMA RouteLineInv == EngineInv /\ RouteLine => EngineInv'
  <1> SUFFICES ASSUME EngineInv, RouteLine PROVE EngineInv'
    OBVIOUS
  <1> DEFINE i == Len(plan) + 1
             bucket == IF requiresApproval(categories[i], lines[i])
                       THEN "pendingActions" ELSE bucketOf(categories[i].type)
  <1>1. /\ TypeOK /\ ChecksInv /\ SplitInv /\ SharesFair
        /\ policy' = policy /\ amount' = amount /\ asset' = asset
        /\ newRecipients' = newRecipients
        /\ ids' = ids /\ totalBps' = totalBps /\ ok' = ok /\ running' = running
        /\ lines' = lines /\ allocated' = allocated
    BY DEF EngineInv, RouteLine, input
  <1>2. /\ pc = "route" /\ Len(plan) < n /\ plan' = Append(plan, bucket)
        /\ pc' \in {"route", "done"}
    BY DEF RouteLine
  <1>3. /\ categories' = categories /\ n' = n /\ totalUnits' = totalUnits
    BY <1>1 DEF categories, n, totalUnits
  <1>4. n \in Nat /\ plan \in Seq(Buckets) /\ i \in 1..n
    BY <1>1, <1>2, InputTypes DEF TypeOK
  <1>5. categories[i].type \in CategoryTypes
    BY <1>1, <1>4, InputTypes
  <1>6. bucket \in Buckets
    <2>1. bucketOf(categories[i].type) \in Buckets
      BY <1>5 DEF bucketOf, CategoryTypes, Buckets
    <2> QED BY <2>1 DEF Buckets
  <1> HIDE DEF bucket
  <1>7. plan' \in Seq(Buckets) /\ Len(plan') <= n'
    BY <1>2, <1>3, <1>4, <1>6
  <1>8. TypeOK'
    BY <1>1, <1>2, <1>3, <1>7 DEF TypeOK
  <1>9. ChecksInv'
    BY <1>1, <1>2, <1>3 DEF ChecksInv, splitting
  <1>10. SplitInv'
    <2>1. Len(lines) = n /\ n \in Nat
      BY <1>1, <1>2, <1>4 DEF SplitInv
    <2> QED BY <1>1, <1>2, <1>3, <2>1 DEF SplitInv, splitting
  <1>11. SharesFair'
    <2>1. \A j : share(j)' = share(j)
      BY <1>3 DEF share
    <2> QED BY <1>1, <1>3, <2>1 DEF SharesFair
  <1> QED BY <1>8, <1>9, <1>10, <1>11 DEF EngineInv

\* A step that changes nothing.
LEMMA StutterInv == EngineInv /\ UNCHANGED vars => EngineInv'
  BY DEF EngineInv, TypeOK, ChecksInv, SplitInv, SharesFair, vars, input, categories, n,
         splitting, owed, totalUnits, share

-----------------------------------------------------------------------------
(* The theorems                                                            *)

\* The invariant of the loops of buildAllocationPlan.
THEOREM EngineInvariant == Spec => []EngineInv
  <1>1. EngineInv /\ [Next]_vars => EngineInv'
    BY CheckCategoryInv, CheckPolicyInv, AllocateLineInv, RouteLineInv, StutterInv
       DEF Next, Return
  <1> QED BY InitInv, <1>1, PTL DEF Spec

\* Whatever the policy, the amount and the asset, the loop variables keep
\* their types: in particular the residual never makes a line negative.
THEOREM TypeCorrect == Spec => []TypeOK
  <1>1. EngineInv => TypeOK
    BY DEF EngineInv
  <1> QED BY EngineInvariant, <1>1, PTL

\* Every line gets its share rounded down, and the last one less than a unit
\* per line more than its share, for any number of categories.
THEOREM SharesFairHolds == Spec => []SharesFair
  <1>1. EngineInv => SharesFair
    BY DEF EngineInv
  <1> QED BY EngineInvariant, <1>1, PTL

-----------------------------------------------------------------------------
(* What a finished plan says: PlanInv, action by action                    *)

\* An iteration of the validation adds an id that was not there.
LEMMA CheckCategoryPlan == EngineInv /\ PlanInv /\ CheckCategory => PlanInv'
  <1> SUFFICES ASSUME EngineInv, PlanInv, CheckCategory PROVE PlanInv'
    OBVIOUS
  <1> DEFINE c == categories[next]
  <1>1. /\ TypeOK /\ pc = "validate" /\ pc' = pc
        /\ policy' = policy /\ amount' = amount /\ asset' = asset
        /\ allocated' = allocated /\ lines' = lines /\ plan' = plan
        /\ ok' = (ok /\ validCategory(c)) /\ ids' = ids \cup ({c.id} \ {""})
        /\ running' = Append(running, totalBps')
    BY DEF EngineInv, CheckCategory, input
  <1>2. categories' = categories /\ n' = n
    BY <1>1 DEF categories, n
  <1>3. running \in Seq(Nat) /\ Len(running) \in Nat \ {0} /\ next = Len(running)
    <2>1. running \in Seq(Nat) /\ Len(running) \in 1..(n + 1)
      BY <1>1 DEF TypeOK
    <2>2. QED
      BY <2>1 DEF next
  <1>4. Len(running') = Len(running) + 1 /\ Len(running') - 1 = Len(running)
    <2>1. TypeOK'
      BY CheckCategoryInv DEF EngineInv
    <2>2. totalBps' \in Nat
      BY <2>1 DEF TypeOK
    <2>3. PICK b \in Nat : running' = Append(running, b)
      BY <1>1, <2>2
    <2>4. QED
      BY <1>3, <2>3
  <1>5. IdsSeen'
    <2>1. ASSUME ok' PROVE ok /\ c.id # "" /\ c.id \notin ids
      BY <1>1, <2>1 DEF validCategory
    <2>2. ASSUME ok'
          PROVE  /\ \A i \in 1..Len(running) : categories[i].id \in ids'
                 /\ \A i, j \in 1..Len(running) : categories[i].id = categories[j].id => i = j
      <3>1. /\ \A i \in 1..(Len(running) - 1) : categories[i].id \in ids
            /\ \A i, j \in 1..(Len(running) - 1) :
                   categories[i].id = categories[j].id => i = j
        BY <2>1, <2>2 DEF PlanInv, IdsSeen
      <3>2. \A i \in 1..Len(running) : i \in 1..(Len(running) - 1) \/ i = next
        BY <1>3
      <3>3. c.id \in ids' /\ ids \subseteq ids'
        BY <1>1, <2>1, <2>2
      <3> HIDE DEF c
      <3>4. \A i \in 1..(Len(running) - 1) : categories[i].id # c.id
        BY <2>1, <2>2, <3>1
      <3>5. QED
        BY <3>1, <3>2, <3>3, <3>4 DEF c
    <2> DEFINE m == Len(running)
    <2>3. /\ Len(running') - 1 = m /\ categories' = categories
          /\ ok' => /\ \A i \in 1..m : categories[i].id \in ids'
                    /\ \A i, j \in 1..m : categories[i].id = categories[j].id => i = j
      BY <1>2, <1>4, <2>2
    <2> HIDE DEF m
    <2>4. QED
      BY <2>3 DEF IdsSeen
  <1>6. Summed'
    BY <1>1 DEF PlanInv, Summed
  <1>7. Routed'
    <2>1. plan = <<>> /\ Len(plan) = 0
      BY <1>1 DEF PlanInv, Routed
    <2>2. pc' = "validate" /\ plan' = <<>> /\ Len(plan') = 0
      BY <1>1, <2>1
    <2>3. QED
      BY <2>2 DEF Routed
  <1>8. QED
    BY <1>5, <1>6, <1>7 DEF PlanInv

\* The checks on the whole policy leave the plan empty.
LEMMA CheckPolicyPlan == EngineInv /\ PlanInv /\ CheckPolicy => PlanInv'
  <1> SUFFICES ASSUME EngineInv, PlanInv, CheckPolicy PROVE PlanInv'
    OBVIOUS
  <1>1. /\ pc = "validate" /\ pc' \in {"allocate", "refused"}
        /\ policy' = policy /\ ids' = ids /\ ok' = ok /\ running' = running
        /\ allocated' = allocated /\ lines' = lines /\ plan' = plan
    BY DEF CheckPolicy, input
  <1>2. plan = <<>> /\ Len(plan) = 0
    BY <1>1 DEF PlanInv, Routed
  <1>3. IdsSeen'
    BY <1>1 DEF PlanInv, IdsSeen, categories
  <1>4. Summed' /\ Routed'
    BY <1>1, <1>2 DEF PlanInv, Summed, Routed
  <1>5. QED
    BY <1>3, <1>4 DEF PlanInv

\* A line adds its units to the sum; the last one makes it the whole.
LEMMA AllocateLinePlan == EngineInv /\ PlanInv /\ AllocateLine => PlanInv'
  <1> SUFFICES ASSUME EngineInv, PlanInv, AllocateLine PROVE PlanInv'
    OBVIOUS
  <1> DEFINE units == allocateAtomic(Len(lines) + 1)
  <1>1. /\ TypeOK /\ pc = "allocate"
        /\ policy' = policy /\ amount' = amount /\ asset' = asset
        /\ ids' = ids /\ ok' = ok /\ running' = running /\ plan' = plan
        /\ lines' = Append(lines, units) /\ allocated' = allocated + units
        /\ pc' = IF Len(lines) + 1 = n THEN "route" ELSE "allocate"
    BY DEF EngineInv, AllocateLine, input
  <1>2. categories' = categories /\ n' = n /\ totalUnits' = totalUnits
    BY <1>1 DEF categories, n, totalUnits
  <1>3. lines \in Seq(Nat) /\ allocated \in Nat /\ totalUnits \in Nat /\ n \in Nat
    BY <1>1, InputTypes DEF TypeOK
  <1>4. units \in Int
    <2>1. /\ Len(lines) + 1 \in 1..n
          /\ \A i \in 1..n : categories[i].bps \in Int
      BY <1>1, <1>3, InputTypes DEF AllocateLine
    <2>2. categories[Len(lines) + 1].bps \in Int
      BY <2>1
    <2>3. totalUnits * categories[Len(lines) + 1].bps \in Int
      <3> DEFINE b == categories[Len(lines) + 1].bps
      <3> HIDE DEF b
      <3>1. b \in Int => totalUnits * b \in Int
        BY <1>3
      <3>2. QED
        BY <2>2, <3>1 DEF b
    <2>4. share(Len(lines) + 1) \in Int
      <3>1. \A a \in Int : a \div 10000 \in Int
        OBVIOUS
      <3>2. QED
        BY <2>3, <3>1 DEF share
    <2>5. QED
      BY <1>3, <2>4 DEF allocateAtomic
  <1>5. Len(lines) + 1 = n => units = totalUnits - allocated
    BY DEF allocateAtomic
  <1> HIDE DEF units
  <1>6. lines \in Seq(Int)
    BY <1>3
  <1>7. SumOver(lines') = SumOver(lines) + units
    BY <1>1, <1>4, <1>6, SumAppend
  <1>8. Summed'
    BY <1>1, <1>2, <1>3, <1>4, <1>5, <1>7 DEF PlanInv, Summed
  <1>9. IdsSeen'
    BY <1>1, <1>2 DEF PlanInv, IdsSeen
  <1>10. Routed'
    <2>1. plan = <<>> /\ Len(plan) = 0
      BY <1>1 DEF PlanInv, Routed
    <2>2. pc' = "route" => n > 0
      BY <1>1, <1>3
    <2>3. pc' \in {"route", "allocate"}
      BY <1>1
    <2>4. QED
      BY <1>1, <1>2, <2>1, <2>2, <2>3 DEF Routed
  <1>11. QED
    BY <1>8, <1>9, <1>10 DEF PlanInv

\* A line is filed as pending when it requires approval, and only then.
LEMMA RouteLinePlan == EngineInv /\ PlanInv /\ RouteLine => PlanInv'
  <1> SUFFICES ASSUME EngineInv, PlanInv, RouteLine PROVE PlanInv'
    OBVIOUS
  <1> DEFINE k == Len(plan) + 1
             asks == requiresApproval(categories[k], lines[k])
             bucket == IF asks THEN "pendingActions" ELSE bucketOf(categories[k].type)
  <1>1. /\ TypeOK /\ pc = "route" /\ Len(plan) < n
        /\ policy' = policy /\ amount' = amount /\ asset' = asset
        /\ newRecipients' = newRecipients
        /\ ids' = ids /\ ok' = ok /\ running' = running
        /\ lines' = lines /\ allocated' = allocated
        /\ plan' = Append(plan, bucket)
        /\ pc' = IF k = n THEN "done" ELSE "route"
    BY DEF EngineInv, RouteLine, input
  <1>2. categories' = categories /\ n' = n /\ totalUnits' = totalUnits
    BY <1>1 DEF categories, n, totalUnits
  <1>3. plan \in Seq(Buckets) /\ n \in Nat /\ k \in 1..n
    BY <1>1, InputTypes DEF TypeOK
  <1>4. categories[k].type \in CategoryTypes
    BY <1>1, <1>3, InputTypes
  <1>5. (bucket = "pendingActions") <=> asks
    <2>1. bucketOf(categories[k].type) # "pendingActions"
      BY <1>4 DEF bucketOf, CategoryTypes
    <2> HIDE DEF asks
    <2>2. QED
      BY <2>1
  <1>6. bucket \in Buckets
    <2>1. bucketOf(categories[k].type) \in Buckets
      BY <1>4 DEF bucketOf, CategoryTypes, Buckets
    <2> HIDE DEF asks
    <2>2. QED
      BY <2>1 DEF Buckets
  <1> HIDE DEF bucket, asks
  <1>7. /\ Len(plan') = k /\ plan'[k] = bucket
        /\ \A i \in 1..Len(plan) : plan'[i] = plan[i]
    BY <1>1, <1>3, <1>6
  <1>8. \A i : requiresApproval(categories[i], lines[i])'
                = requiresApproval(categories[i], lines[i])
    BY <1>1, <1>2 DEF requiresApproval, ruleAsks
  <1>9. ASSUME NEW i \in 1..Len(plan')
        PROVE  (plan'[i] = "pendingActions") <=> requiresApproval(categories[i], lines[i])
    <2>1. CASE i = k
      BY <1>5, <1>7, <2>1 DEF asks
    <2>2. CASE i # k
      <3>1. i \in 1..Len(plan)
        BY <1>3, <1>7, <2>2
      <3>2. QED
        BY <1>7, <3>1 DEF PlanInv, Routed
    <2>3. QED
      BY <2>1, <2>2
  <1>10. Routed'
    <2>1. \A i \in 1..Len(plan') :
             (plan'[i] = "pendingActions") <=> requiresApproval(categories[i], lines[i])'
      BY <1>8, <1>9
    <2>2. pc' = "route" => Len(plan') < n'
      BY <1>1, <1>2, <1>3, <1>7
    <2>3. pc' = "done" => Len(plan') = n'
      BY <1>1, <1>2, <1>7
    <2>4. pc' \in {"route", "done"}
      BY <1>1
    <2>5. QED
      BY <2>1, <2>2, <2>3, <2>4 DEF Routed
  <1>11. IdsSeen'
    BY <1>1, <1>2 DEF PlanInv, IdsSeen
  <1>12. Summed'
    <2>1. pc' \in {"route", "done"}
      BY <1>1
    <2>2. QED
      BY <1>1, <1>2, <2>1 DEF PlanInv, Summed
  <1>13. QED
    BY <1>10, <1>11, <1>12 DEF PlanInv

\* The invariant holds before the first iteration.
LEMMA InitPlan == Init => PlanInv
  <1> SUFFICES ASSUME Init PROVE PlanInv
    OBVIOUS
  <1>1. Len(running) = 1 /\ Len(lines) = 0 /\ Len(plan) = 0
    BY DEF Init
  <1>2. SumOver(lines) = 0
    BY <1>1, SumEmpty
  <1>3. QED
    BY <1>1, <1>2 DEF Init, PlanInv, IdsSeen, Summed, Routed

\* Every step keeps the invariant.
LEMMA PlanInvStep == EngineInv /\ PlanInv /\ [Next]_vars => PlanInv'
  <1>1. ASSUME PlanInv, UNCHANGED vars PROVE PlanInv'
    <2>1. \A i : requiresApproval(categories[i], lines[i])'
                 = requiresApproval(categories[i], lines[i])
      BY <1>1 DEF vars, input, requiresApproval, ruleAsks, categories
    <2>2. QED
      BY <1>1, <2>1
      DEF vars, input, PlanInv, IdsSeen, Summed, Routed, categories, n, totalUnits
  <1>2. QED
    BY <1>1, CheckCategoryPlan, CheckPolicyPlan, AllocateLinePlan, RouteLinePlan
    DEF Next, Return

\* Every plan in the making satisfies both invariants.
THEOREM PlanInvariant == Spec => [](EngineInv /\ PlanInv)
  BY InitPlan, InitInv, PlanInvStep, EngineInvariant, PTL DEF Spec

\* The lines of a finished split add up to all of the amount but for the
\* digits its asset cannot hold, for any number of lines.
THEOREM SplitConservesHolds == Spec => []SplitConserves
  <1>1. ASSUME EngineInv, PlanInv PROVE SplitConserves
    <2>1. asset.dust \in Nat \ {0} /\ amount * asset.finer \in Nat
      <3>1. amount \in Nat /\ asset.dust \in Nat \ {0} /\ asset.finer \in Nat \ {0}
        BY <1>1, EngineAmountsAssumption DEF EngineInv, TypeOK, Asset
      <3>2. \A a \in Nat, f \in Nat : a * f \in Nat
        BY SMT
      <3>3. QED
        BY <3>1, <3>2
    <2>2. \A a \in Nat, d \in Nat \ {0} : a - d < d * (a \div d) /\ d * (a \div d) <= a
      BY SMT
    <2>3. /\ amount * asset.finer - asset.dust < asset.dust * totalUnits
          /\ asset.dust * totalUnits <= amount * asset.finer
      BY <2>1, <2>2 DEF totalUnits
    <2>4. pc \in {"route", "done"} => allocated = totalUnits /\ SumOver(lines) = totalUnits
      BY <1>1 DEF PlanInv, Summed
    <2>5. QED
      BY <2>3, <2>4 DEF SplitConserves
  <1>2. QED
    BY PlanInvariant, <1>1, PTL

\* Lines exist only for a policy that has all its percentages and no id twice.
THEOREM PlansAreValidHolds == Spec => []PlansAreValid
  <1>1. ASSUME EngineInv, PlanInv PROVE PlansAreValid
    <2>1. ASSUME splitting
          PROVE  ok /\ n > 0 /\ Len(running) = n + 1 /\ running[n + 1] = 10000
      BY <1>1, <2>1 DEF EngineInv, ChecksInv
    <2>2. n \in Nat
      BY <1>1, InputTypes DEF EngineInv
    <2>3. ASSUME splitting
          PROVE  \A i, j \in 1..n : categories[i].id = categories[j].id => i = j
      <3>1. Len(running) - 1 = n
        BY <2>1, <2>2, <2>3
      <3>2. QED
        BY <1>1, <2>1, <2>3, <3>1 DEF PlanInv, IdsSeen
    <2>4. QED
      BY <2>1, <2>3 DEF PlansAreValid, splitting
  <1>2. QED
    BY PlanInvariant, <1>1, PTL

\* A category whose percentage of the split units reaches the threshold of a
\* rule about it waits: its line is not below the units its percentage is worth.
THEOREM LargeSharesWaitHolds == Spec => []LargeSharesWait
  <1>1. ASSUME EngineInv, PlanInv PROVE LargeSharesWait
    <2> SUFFICES ASSUME pc = "done", NEW i \in 1..n, NEW r \in DOMAIN policy.rules,
                        concerns(policy.rules[r], categories[i]),
                        reached(policy.rules[r], categories[i])
                 PROVE  plan[i] = "pendingActions"
      BY DEF LargeSharesWait
    <2>1. /\ Len(plan) = n
          /\ (plan[i] = "pendingActions") <=> requiresApproval(categories[i], lines[i])
      BY <1>1 DEF PlanInv, Routed
    <2>2. n \in Nat /\ totalUnits \in Nat /\ categories[i].bps \in Int
          /\ categories[i].type \in CategoryTypes
      BY <1>1, InputTypes DEF EngineInv
    <2>3. lines \in Seq(Nat) /\ Len(lines) = n /\ i \in DOMAIN lines /\ lines[i] \in Nat
      BY <1>1, <2>2 DEF EngineInv, SplitInv, TypeOK
    <2>4. totalUnits * categories[i].bps < 10000 * lines[i] + 10000
      <3> DEFINE y == totalUnits * categories[i].bps
      <3>1. y \in Nat
        <4>1. categories[i].bps \in Nat
          <5>1. ok /\ Len(running) = n + 1
            BY <1>1 DEF EngineInv, ChecksInv, splitting
          <5>2. i \in 1..(Len(running) - 1)
            BY <2>2, <5>1
          <5>3. QED
            BY <1>1, <2>2, <5>1, <5>2 DEF EngineInv, ChecksInv
        <4>2. \A a \in Nat, b \in Nat : a * b \in Nat
          BY SMT
        <4>3. QED
          BY <2>2, <4>1, <4>2
      <3>2. i < n => lines[i] = y \div 10000
        BY <1>1, <2>3 DEF EngineInv, SharesFair, share
      <3>3. i = n => y <= 10000 * lines[i]
        BY <1>1, <2>3 DEF EngineInv, SharesFair
      <3> HIDE DEF y
      <3>4. y < 10000 * lines[i] + 10000
        BY <2>2, <2>3, <3>1, <3>2, <3>3, DivBounds
      <3>5. QED
        BY <3>4 DEF y
    <2>5. ASSUME NEW t \in policy.rules[r].threshold
          PROVE  lines[i] * asset.dust >= t * asset.finer
      <3>1. PICK units \in 0..totalUnits :
                /\ units * asset.dust = t * asset.finer
                /\ units * 10000 <= totalUnits * categories[i].bps
        BY <2>5 DEF reached
      <3>2. units \in Nat /\ asset.dust \in Nat
        BY <1>1, <2>2, EngineAmountsAssumption DEF EngineInv, TypeOK, Asset
      <3>3. units <= lines[i]
        <4> DEFINE y == totalUnits * categories[i].bps
        <4>1. units * 10000 <= y /\ y < 10000 * lines[i] + 10000 /\ y \in Int
          <5>1. \A a \in Int, b \in Int : a * b \in Int
            BY SMT
          <5>2. QED
            BY <2>2, <2>4, <3>1, <5>1
        <4> HIDE DEF y
        <4>2. QED
          BY <2>3, <3>2, <4>1
      <3>4. \A a \in Nat, b \in Nat, d \in Nat : a <= b => b * d >= a * d
        BY SMT
      <3>5. lines[i] * asset.dust >= units * asset.dust
        BY <2>3, <3>2, <3>3, <3>4
      <3>6. QED
        BY <3>1, <3>5
    <2>6. policy.rules[r].action # "NewRecipient"
      BY <2>2 DEF concerns, categoryActionType, CategoryTypes
    <2>7. ruleAsks(policy.rules[r], categories[i], lines[i])
      BY <2>5, <2>6 DEF concerns, ruleAsks
    <2>8. QED
      BY <2>1, <2>7 DEF requiresApproval
  <1>2. QED
    BY PlanInvariant, <1>1, PTL
=============================================================================
