------------------------ MODULE InferenceGuardProofs ------------------------
(* Proofs about InferenceGuard, for every pool of threads, every contents of *)
(* budgets.yaml and every bound.                                             *)
EXTENDS InferenceGuard, FiniteSetTheorems, TLAPS

\* Every action preserves the types, and a check has a file that enforces caps.
LEMMA TypeStep == TypeOK /\ [Next]_vars => TypeOK'
  <1> USE GuardConstants DEF GuardConstants
  <1> SUFFICES ASSUME TypeOK, [Next]_vars PROVE TypeOK'
    OBVIOUS
  <1>1. ASSUME NEW r \in Requests, Post(r) PROVE TypeOK'
    BY <1>1 DEF Post, Goto, TypeOK, PCs
  <1>2. ASSUME NEW r \in Requests, CheckKilled(r) PROVE TypeOK'
    BY <1>2 DEF CheckKilled, Goto, TypeOK, PCs
  <1>3. ASSUME NEW r \in Requests, LoadBudgets(r) PROVE TypeOK'
    BY <1>3 DEF LoadBudgets, Enforced, Goto, TypeOK, PCs
  <1>4. ASSUME NEW r \in Requests, CheckSession(r) PROVE TypeOK'
    BY <1>4 DEF CheckSession, Goto, TypeOK, PCs
  <1>5. ASSUME NEW r \in Requests, CheckDaily(r) PROVE TypeOK'
    BY <1>5 DEF CheckDaily, Goto, TypeOK, PCs
  <1>6. ASSUME NEW r \in Requests, Complete(r) PROVE TypeOK'
    BY <1>6 DEF Complete, Goto, TypeOK, PCs
  <1>7. ASSUME NEW r \in Requests, EndsUnrecorded(r) \/ Disconnect(r) \/ RecordFails(r)
        PROVE  TypeOK'
    BY <1>7 DEF EndsUnrecorded, Disconnect, RecordFails, Goto, TypeOK, PCs
  <1>8. ASSUME NEW r \in Requests, RecordUsage(r) PROVE TypeOK'
    <2>1. job[r] \in Jobs /\ answer[r] \in Nat
      BY <1>8 DEF RecordUsage, TypeOK
    <2>2. job[r].prompt \in Nat
      BY <2>1 DEF Jobs
    <2>3. ledger' \in [Accounts -> Nat]
      BY <1>8, <2>1, <2>2 DEF RecordUsage, TypeOK
    <2> QED BY <1>8, <2>3 DEF RecordUsage, Goto, TypeOK, PCs
  <1>9. ASSUME NEW r \in Requests, Receive(r) PROVE TypeOK'
    BY <1>9 DEF Receive, Goto, TypeOK, PCs
  <1>10. CASE SetKilled \/ ClearKilled
    BY <1>10 DEF SetKilled, ClearKilled, TypeOK
  <1>14. CASE EditBudgets
    BY <1>14 DEF EditBudgets, TypeOK
  <1>11. CASE Midnight
    BY <1>11 DEF Midnight, TypeOK
  <1>12. CASE Crash
    BY <1>12 DEF Crash, TypeOK, PCs
  <1>13. CASE UNCHANGED vars
    BY <1>13 DEF vars, TypeOK
  <1> QED
    BY <1>1, <1>2, <1>3, <1>4, <1>5, <1>6, <1>7, <1>8, <1>9, <1>10, <1>11, <1>12, <1>13, <1>14
       DEF Next, Handler

\* Every variable keeps its type.
THEOREM GuardTypeCorrect == Spec => []TypeOK
  <1>1. Init => TypeOK
    BY GuardConstants DEF GuardConstants, Init, TypeOK, PCs
  <1> QED BY <1>1, TypeStep, PTL DEF Spec

-----------------------------------------------------------------------------
\* The requests that have passed the check of an account and are not billed yet.
InFlight(x) ==
    {r \in Requests :
        \/ pc[r] \in {"inference", "recording"} /\ x \in Billed(r)
        \/ pc[r] = "daily" /\ x = SessionAccount(r)}

\* What n requests may add.
Load(n) == MaxCost * n
Others == Load(Cardinality(Requests) - 1)

\* Either the request that was let in last is among those in flight, and counts
\* with its own prompt, or it has been billed or has failed.
BoundedBy(spent, F, jobs, cap) ==
    \/ spent + Load(Cardinality(F)) <= cap + Others + MaxCompletion
    \/ \E r \in F : spent + jobs[r].prompt + Load(Cardinality(F) - 1) <= cap + Others

\* While the file is not edited, handlers hold what it says.
Loaded ==
    edits = 0 => \A r \in Requests :
        pc[r] \in {"session", "daily", "inference", "recording"} => cfg[r] = budgets

AccountsBounded == edits = 0 => \A x \in Accounts : CapOn(x) # None =>
        BoundedBy(ledger[x], InFlight(x), job, CapOn(x))

GuardInv == TypeOK /\ Loaded /\ AccountsBounded

\* MaxCost times a number, as the steps use it.
LEMMA LoadFacts ==
  /\ MaxCost \in Nat
  /\ Load(0) = 0
  /\ \A n \in Nat : Load(n) \in Nat /\ Load(n + 1) = Load(n) + MaxCost
  /\ \A m, n \in Nat : m <= n => Load(m) <= Load(n)
  <1>1. MaxCost \in Nat
    BY GuardConstants DEF GuardConstants, MaxCost
  <1>2. \A n \in Nat : Load(n) \in Nat /\ Load(n + 1) = Load(n) + MaxCost
    BY <1>1 DEF Load
  <1>3. ASSUME NEW m \in Nat, NEW n \in Nat, m <= n PROVE Load(m) <= Load(n)
    <2>1. PICK d \in Nat : n = m + d
      BY <1>3
    <2>2. MaxCost * (m + d) = MaxCost * m + MaxCost * d /\ MaxCost * d \in Nat /\ MaxCost * m \in Nat
      BY <1>1, <2>1
    <2> QED BY <2>1, <2>2 DEF Load
  <1>4. Load(0) = 0
    BY <1>1 DEF Load
  <1> QED BY <1>1, <1>2, <1>3, <1>4

\* How many requests can be in flight.
LEMMA InFlightSize ==
  ASSUME NEW F \in SUBSET Requests
  PROVE  /\ IsFiniteSet(F)
         /\ Cardinality(F) \in Nat
         /\ Cardinality(F) <= Cardinality(Requests)
         /\ Cardinality(Requests) - 1 \in Nat
         /\ \A q \in F : /\ Cardinality(F) - 1 \in Nat
                         /\ Cardinality(F \ {q}) = Cardinality(F) - 1
  <1> USE GuardConstants DEF GuardConstants
  <1>1. IsFiniteSet(F) /\ Cardinality(F) <= Cardinality(Requests)
    BY FS_Subset
  <1>2. Cardinality(F) \in Nat /\ Cardinality(Requests) \in Nat
    BY <1>1, FS_CardinalityType
  <1>3. Cardinality(Requests) # 0
    BY FS_EmptySet
  <1>4. ASSUME NEW q \in F
        PROVE  Cardinality(F) - 1 \in Nat /\ Cardinality(F \ {q}) = Cardinality(F) - 1
    <2>1. Cardinality(F \ {q}) = Cardinality(F) - 1
      BY <1>1, FS_RemoveElement
    <2>2. Cardinality(F) # 0
      BY <1>1, FS_EmptySet
    <2> QED BY <1>2, <2>1, <2>2
  <1> QED BY <1>1, <1>2, <1>3, <1>4

\* A request that is let in has counted its own prompt.
LEMMA Admission ==
  ASSUME NEW F \in SUBSET Requests, NEW q \in Requests, NEW jobs, NEW spent \in Nat,
         NEW cap \in Nat, jobs[q].prompt \in Nat, q \notin F, spent + jobs[q].prompt <= cap
  PROVE  BoundedBy(spent, F \cup {q}, jobs, cap)
  <1> DEFINE G == F \cup {q}
  <1>1. G \in SUBSET Requests
    OBVIOUS
  <1>2. q \in G
    OBVIOUS
  <1> HIDE DEF G
  <1>3. /\ Cardinality(G) - 1 \in Nat /\ Cardinality(Requests) - 1 \in Nat
        /\ Cardinality(G) - 1 <= Cardinality(Requests) - 1
    <2>1. Cardinality(G) - 1 \in Nat /\ Cardinality(Requests) - 1 \in Nat
      BY <1>1, <1>2, InFlightSize
    <2>2. Cardinality(G) \in Nat /\ Cardinality(G) <= Cardinality(Requests)
      BY <1>1, InFlightSize
    <2>3. Cardinality(Requests) \in Nat
      BY GuardConstants, FS_CardinalityType DEF GuardConstants
    <2> QED BY <2>1, <2>2, <2>3
  <1>5. Load(Cardinality(G) - 1) <= Others /\ Load(Cardinality(G) - 1) \in Nat /\ Others \in Nat
    BY <1>3, LoadFacts DEF Others
  <1>4. spent + jobs[q].prompt + Load(Cardinality(G) - 1) <= cap + Others
    BY <1>5
  <1> QED BY <1>2, <1>4 DEF BoundedBy, G

\* A request that is billed, or fails, costs no more than it was counted with.
LEMMA Release ==
  ASSUME NEW F \in SUBSET Requests, NEW q \in F, NEW jobs, NEW spent \in Nat, NEW now \in Nat,
         NEW cap \in Nat, \A r \in F : jobs[r].prompt \in 1..MaxPrompt,
         BoundedBy(spent, F, jobs, cap), now <= spent + jobs[q].prompt + MaxCompletion
  PROVE  BoundedBy(now, F \ {q}, jobs, cap)
  <1> USE GuardConstants DEF GuardConstants
  <1> DEFINE n == Cardinality(F) - 1
  <1>1. n \in Nat /\ Cardinality(F) = n + 1 /\ Cardinality(F \ {q}) = n
    BY InFlightSize
  <1>2. /\ Load(n) \in Nat /\ Load(n + 1) = Load(n) + MaxCost /\ Others \in Nat
        /\ MaxCost = MaxPrompt + MaxCompletion
    BY <1>1, LoadFacts, InFlightSize DEF Others, MaxCost
  <1> HIDE DEF n
  <1>3. CASE spent + Load(n + 1) <= cap + Others + MaxCompletion
    <2>1. now + Load(n) <= cap + Others + MaxCompletion
      BY <1>2, <1>3
    <2> QED BY <1>1, <2>1 DEF BoundedBy
  <1>4. ASSUME spent + jobs[q].prompt + Load(n) <= cap + Others
        PROVE  BoundedBy(now, F \ {q}, jobs, cap)
    <2>1. now + Load(n) <= cap + Others + MaxCompletion
      BY <1>2, <1>4
    <2> QED BY <1>1, <2>1 DEF BoundedBy
  <1>5. ASSUME NEW r \in F \ {q}, spent + jobs[r].prompt + Load(n) <= cap + Others
        PROVE  BoundedBy(now, F \ {q}, jobs, cap)
    <2>1. n - 1 \in Nat /\ Load(n) = Load(n - 1) + MaxCost /\ Load(n - 1) \in Nat
      <3>1. n - 1 \in Nat
        BY <1>1, <1>5, InFlightSize
      <3>2. n = (n - 1) + 1
        BY <1>1
      <3> QED BY <3>1, <3>2, LoadFacts
    <2>2. now + jobs[r].prompt + Load(n - 1) <= cap + Others
      BY <1>2, <1>5, <2>1
    <2> QED BY <1>1, <1>5, <2>2 DEF BoundedBy
  <1> QED BY <1>1, <1>3, <1>4, <1>5 DEF BoundedBy, n

\* A sum that shrinks stays bounded, with the same requests in flight or none.
LEMMA Shrinks ==
  ASSUME NEW F \in SUBSET Requests, NEW jobs, NEW spent \in Nat, NEW now \in Nat, NEW cap \in Nat,
         \A r \in F : jobs[r].prompt \in 1..MaxPrompt,
         BoundedBy(spent, F, jobs, cap), now <= spent
  PROVE  BoundedBy(now, F, jobs, cap) /\ now <= cap + Others + MaxCompletion
  <1> USE GuardConstants DEF GuardConstants
  <1>1. Others \in Nat /\ Cardinality(F) \in Nat /\ Load(Cardinality(F)) \in Nat
    BY LoadFacts, InFlightSize DEF Others
  <1>2. \A r \in F : Load(Cardinality(F) - 1) \in Nat
    BY LoadFacts, InFlightSize
  <1>3. CASE spent + Load(Cardinality(F)) <= cap + Others + MaxCompletion
    <2>1. /\ now + Load(Cardinality(F)) <= cap + Others + MaxCompletion
          /\ now <= cap + Others + MaxCompletion
      BY <1>1, <1>3
    <2> QED BY <2>1 DEF BoundedBy
  <1>4. ASSUME NEW r \in F,
               spent + jobs[r].prompt + Load(Cardinality(F) - 1) <= cap + Others
        PROVE  BoundedBy(now, F, jobs, cap) /\ now <= cap + Others + MaxCompletion
    <2>1. /\ now + jobs[r].prompt + Load(Cardinality(F) - 1) <= cap + Others
          /\ now <= cap + Others + MaxCompletion
      BY <1>1, <1>2, <1>4
    <2> QED BY <2>1 DEF BoundedBy
  <1> QED BY <1>3, <1>4 DEF BoundedBy

\* While the file stays as it is, a handler's budgets are the file's.
LEMMA LoadedStep == TypeOK /\ Loaded /\ [Next]_vars => Loaded'
  <1> SUFFICES ASSUME TypeOK, Loaded, [Next]_vars, edits' = 0 PROVE Loaded'
    BY DEF Loaded
  <1> USE DEF Loaded, Goto
  <1>1. ASSUME NEW r \in Requests, LoadBudgets(r) PROVE Loaded'
    BY <1>1 DEF LoadBudgets, TypeOK
  <1>2. ASSUME NEW r \in Requests, Post(r) \/ CheckKilled(r) \/ CheckSession(r) \/ CheckDaily(r)
        PROVE  Loaded'
    BY <1>2 DEF Post, CheckKilled, CheckSession, CheckDaily, TypeOK
  <1>3. ASSUME NEW r \in Requests,
               \/ Complete(r) \/ EndsUnrecorded(r) \/ Disconnect(r) \/ RecordUsage(r) \/ RecordFails(r)
        PROVE  Loaded'
    BY <1>3 DEF Complete, EndsUnrecorded, Disconnect, RecordUsage, RecordFails, TypeOK
  <1>4. ASSUME NEW r \in Requests, Receive(r) PROVE Loaded'
    BY <1>4 DEF Receive, TypeOK
  <1>5. CASE SetKilled \/ ClearKilled \/ Midnight \/ UNCHANGED vars
    BY <1>5 DEF SetKilled, ClearKilled, Midnight, vars
  <1>6. CASE Crash
    BY <1>6 DEF Crash, TypeOK
  <1>7. CASE EditBudgets
    BY <1>7 DEF EditBudgets, TypeOK
  <1> QED BY <1>1, <1>2, <1>3, <1>4, <1>5, <1>6, <1>7 DEF Next, Handler

\* Each step lets one request in, lets one go, or leaves those in flight alone.
LEMMA BoundedStep == GuardInv /\ [Next]_vars => AccountsBounded'
  <1> SUFFICES ASSUME TypeOK, Loaded, AccountsBounded, [Next]_vars, edits' = 0,
                      NEW x \in Accounts, CapOn(x)' # None
               PROVE  BoundedBy(ledger'[x], InFlight(x)', job', CapOn(x)')
    BY DEF GuardInv, AccountsBounded
  <1>1. edits = 0 /\ budgets' = budgets
    BY DEF Next, Handler, Post, CheckKilled, LoadBudgets, CheckSession, CheckDaily, Complete,
       EndsUnrecorded, Disconnect, RecordUsage, RecordFails, Receive, SetKilled, ClearKilled,
       EditBudgets, Midnight, Crash, vars, TypeOK
  <1> DEFINE cap == CapOn(x)
             F == InFlight(x)
  <1>2. CapOn(x)' = cap
    BY <1>1 DEF CapOn
  <1>3. /\ cap \in Nat /\ Enforced(budgets)
        /\ cap = Cap(budgets, x[1],
                     IF x[2] = Day THEN "per_agent_daily_tokens" ELSE "per_session_tokens")
    BY <1>2, GuardConstants DEF GuardConstants, CapOn, Enforced, TypeOK, Accounts, Scopes
  <1>4. BoundedBy(ledger[x], F, job, cap) /\ ledger[x] \in Nat
    BY <1>1, <1>3, GuardConstants DEF GuardConstants, AccountsBounded, TypeOK
  <1>5. F \in SUBSET Requests
    BY DEF InFlight
  <1>6. \A r \in Requests : pc[r] # "idle" =>
           /\ job[r].prompt \in 1..MaxPrompt /\ job[r].prompt \in Nat
           /\ job[r].session \in Sessions \cup {None}
    BY DEF TypeOK, Jobs
  <1>7. \A r \in F : job[r].prompt \in 1..MaxPrompt
    BY <1>6 DEF InFlight
  <1> HIDE DEF cap, F
  <1>8. ASSUME ledger' = ledger, InFlight(x)' = F, \A r \in F : job'[r] = job[r]
        PROVE  BoundedBy(ledger'[x], InFlight(x)', job', cap)
    BY <1>4, <1>8 DEF BoundedBy
  <1>9. ASSUME NEW q \in Requests, InFlight(x)' = F \ {q}, job' = job,
               ledger'[x] \in Nat,
               q \in F => ledger'[x] <= ledger[x] + job[q].prompt + MaxCompletion,
               q \notin F => ledger'[x] <= ledger[x]
        PROVE  BoundedBy(ledger'[x], InFlight(x)', job', cap)
    <2>1. CASE q \in F
      <3>1. ledger'[x] <= ledger[x] + job[q].prompt + MaxCompletion
        BY <1>9, <2>1
      <3>2. BoundedBy(ledger'[x], F \ {q}, job, cap)
        BY <1>3, <1>4, <1>5, <1>7, <1>9, <2>1, <3>1, Release
      <3> QED BY <1>9, <3>2
    <2>2. CASE q \notin F
      <3>1. F \ {q} = F /\ ledger'[x] <= ledger[x]
        BY <1>9, <2>2
      <3>2. BoundedBy(ledger'[x], F, job, cap)
        BY <1>3, <1>4, <1>5, <1>7, <1>9, <3>1, Shrinks
      <3> QED BY <1>9, <3>1, <3>2
    <2> QED BY <2>1, <2>2
  <1>10. ASSUME NEW r \in Requests, Post(r)
         PROVE  BoundedBy(ledger'[x], InFlight(x)', job', cap)
    <2>1. ledger' = ledger /\ InFlight(x)' = F /\ \A q \in F : job'[q] = job[q]
      BY <1>10 DEF Post, Goto, TypeOK, F, InFlight, Billed, SessionAccount, DayAccount
    <2> QED BY <1>8, <2>1
  <1>11. ASSUME NEW r \in Requests, CheckKilled(r) \/ Complete(r)
         PROVE  BoundedBy(ledger'[x], InFlight(x)', job', cap)
    <2>1. ledger' = ledger /\ InFlight(x)' = F /\ job' = job
      BY <1>11 DEF CheckKilled, Complete, Goto, TypeOK, F, InFlight, Billed, SessionAccount,
         DayAccount
    <2> QED BY <1>8, <2>1
  <1>12. ASSUME NEW r \in Requests, LoadBudgets(r)
         PROVE  BoundedBy(ledger'[x], InFlight(x)', job', cap)
    <2>1. ledger' = ledger /\ InFlight(x)' = F /\ job' = job
      BY <1>3, <1>12 DEF LoadBudgets, Goto, TypeOK, F, InFlight, Billed, SessionAccount, DayAccount
    <2> QED BY <1>8, <2>1
  <1>13. ASSUME NEW r \in Requests, Receive(r)
         PROVE  BoundedBy(ledger'[x], InFlight(x)', job', cap)
    <2>1. ledger' = ledger /\ InFlight(x)' = F /\ \A q \in F : job'[q] = job[q]
      BY <1>13 DEF Receive, Goto, TypeOK, F, InFlight, Billed, SessionAccount, DayAccount
    <2> QED BY <1>8, <2>1
  <1>14. ASSUME NEW r \in Requests, CheckSession(r)
         PROVE  BoundedBy(ledger'[x], InFlight(x)', job', cap)
    <2>1. ledger' = ledger /\ job' = job /\ r \notin F /\ cfg[r] = budgets
      BY <1>1, <1>14 DEF CheckSession, Loaded, F, InFlight
    <2>2. CASE x = SessionAccount(r) /\ pc'[r] = "daily"
      <3>1. InFlight(x)' = F \cup {r}
        BY <1>14, <2>1, <2>2 DEF CheckSession, Goto, TypeOK, F, InFlight, Billed, SessionAccount,
           DayAccount
      <3>2. job[r].session # None /\ x[2] # Day /\ x[1] = job[r].agent
        BY <1>6, <1>14, <2>2, GuardConstants DEF GuardConstants, CheckSession, SessionAccount, Accounts
      <3>3. ~Exceeds(SessionAccount(r), r, cap)
        BY <1>3, <1>14, <2>1, <2>2, <3>2 DEF CheckSession, Goto, TypeOK
      <3>4. ledger[x] + job[r].prompt <= cap /\ job[r].prompt \in Nat
        BY <1>3, <1>4, <1>6, <1>14, <2>2, <3>3, GuardConstants DEF GuardConstants, Exceeds, CheckSession
      <3>5. BoundedBy(ledger[x], F \cup {r}, job, cap)
        BY <1>3, <1>4, <1>5, <3>1, <3>4, Admission
      <3> QED BY <2>1, <3>1, <3>5
    <2>3. CASE ~(x = SessionAccount(r) /\ pc'[r] = "daily")
      <3>1. InFlight(x)' = F
        BY <1>14, <2>1, <2>3 DEF CheckSession, Goto, TypeOK, F, InFlight, Billed, SessionAccount,
           DayAccount
      <3> QED BY <1>8, <2>1, <3>1
    <2> QED BY <2>2, <2>3
  <1>15. ASSUME NEW r \in Requests, CheckDaily(r)
         PROVE  BoundedBy(ledger'[x], InFlight(x)', job', cap)
    <2>1. ledger' = ledger /\ job' = job /\ cfg[r] = budgets /\ pc[r] = "daily"
      BY <1>1, <1>15 DEF CheckDaily, Loaded
    <2>2. job[r].session # Day
      BY <1>6, <2>1, GuardConstants DEF GuardConstants
    <2>3. CASE pc'[r] = "refused"
      <3>1. InFlight(x)' = F \ {r}
        BY <1>15, <2>1, <2>3 DEF CheckDaily, Goto, TypeOK, F, InFlight, Billed, SessionAccount,
           DayAccount
      <3>2. r \in F => ledger[x] <= ledger[x] + job[r].prompt + MaxCompletion
        BY <1>4, <1>6, <2>1, GuardConstants DEF GuardConstants
      <3> QED BY <1>4, <1>9, <2>1, <3>1, <3>2
    <2>4. CASE pc'[r] = "inference" /\ x = DayAccount(r)
      <3>1. InFlight(x)' = F \cup {r} /\ r \notin F
        BY <1>15, <2>1, <2>2, <2>4 DEF CheckDaily, Goto, TypeOK, F, InFlight, Billed,
           SessionAccount, DayAccount
      <3>2. x[2] = Day /\ x[1] = job[r].agent
        BY <2>4 DEF DayAccount
      <3>3. ~Exceeds(DayAccount(r), r, cap)
        BY <1>3, <1>15, <2>1, <2>4, <3>2 DEF CheckDaily, Goto, TypeOK
      <3>4. ledger[x] + job[r].prompt <= cap /\ job[r].prompt \in Nat
        BY <1>3, <1>4, <1>6, <2>1, <2>4, <3>3, GuardConstants DEF GuardConstants, Exceeds
      <3>5. BoundedBy(ledger[x], F \cup {r}, job, cap)
        BY <1>3, <1>4, <1>5, <3>1, <3>4, Admission
      <3> QED BY <2>1, <3>1, <3>5
    <2>5. CASE pc'[r] = "inference" /\ x # DayAccount(r)
      <3>1. InFlight(x)' = F
        BY <1>15, <2>1, <2>5 DEF CheckDaily, Goto, TypeOK, F, InFlight, Billed, SessionAccount,
           DayAccount
      <3> QED BY <1>8, <2>1, <3>1
    <2> QED BY <1>15, <2>3, <2>4, <2>5 DEF CheckDaily, Goto, TypeOK
  <1>16. ASSUME NEW r \in Requests, EndsUnrecorded(r) \/ Disconnect(r) \/ RecordFails(r)
         PROVE  BoundedBy(ledger'[x], InFlight(x)', job', cap)
    <2>1. ledger' = ledger /\ job' = job /\ InFlight(x)' = F \ {r}
      BY <1>16 DEF EndsUnrecorded, Disconnect, RecordFails, Goto, TypeOK, F, InFlight, Billed,
         SessionAccount, DayAccount
    <2>2. r \in F => ledger[x] <= ledger[x] + job[r].prompt + MaxCompletion
      BY <1>4, <1>7, GuardConstants DEF GuardConstants
    <2> QED BY <1>4, <1>9, <2>1, <2>2
  <1>17. ASSUME NEW r \in Requests, RecordUsage(r)
         PROVE  BoundedBy(ledger'[x], InFlight(x)', job', cap)
    <2>1. job' = job /\ InFlight(x)' = F \ {r}
      BY <1>17 DEF RecordUsage, Goto, TypeOK, F, InFlight, Billed, SessionAccount, DayAccount
    <2>2. /\ answer[r] \in Nat /\ answer[r] <= MaxCompletion
          /\ job[r].prompt \in Nat
      BY <1>6, <1>17 DEF RecordUsage, TypeOK
    <2>3. ledger'[x] = IF x \in Billed(r) THEN ledger[x] + job[r].prompt + answer[r] ELSE ledger[x]
      BY <1>17 DEF RecordUsage
    <2>4. x \in Billed(r) <=> r \in F
      BY <1>17 DEF RecordUsage, F, InFlight
    <2>5. /\ ledger'[x] \in Nat
          /\ r \in F => ledger'[x] <= ledger[x] + job[r].prompt + MaxCompletion
          /\ r \notin F => ledger'[x] <= ledger[x]
      BY <1>4, <2>2, <2>3, <2>4, GuardConstants DEF GuardConstants
    <2> QED BY <1>9, <2>1, <2>5
  <1>18. CASE SetKilled \/ ClearKilled \/ UNCHANGED vars
    <2>1. ledger' = ledger /\ InFlight(x)' = F /\ job' = job
      BY <1>18 DEF SetKilled, ClearKilled, vars, F, InFlight, Billed, SessionAccount, DayAccount
    <2> QED BY <1>2, <1>8, <2>1
  <1>19. CASE Midnight
    <2>1. /\ InFlight(x)' = F /\ job' = job
          /\ ledger'[x] \in Nat /\ ledger'[x] <= ledger[x]
      BY <1>4, <1>19 DEF Midnight, F, InFlight, Billed, SessionAccount, DayAccount
    <2>2. BoundedBy(ledger'[x], F, job, cap)
      BY <1>3, <1>4, <1>5, <1>7, <2>1, Shrinks
    <2> QED BY <1>2, <2>1, <2>2
  <1>20. CASE Crash
    <2>1. ledger' = ledger /\ InFlight(x)' = {}
      BY <1>20 DEF Crash, TypeOK, InFlight
    <2>2. ledger[x] <= cap + Others + MaxCompletion
      BY <1>3, <1>4, <1>5, <1>7, Shrinks
    <2>3. Load(Cardinality({})) = 0
      BY FS_EmptySet, LoadFacts
    <2>4. ledger[x] + Load(Cardinality({})) <= cap + Others + MaxCompletion
      BY <1>4, <2>2, <2>3
    <2>5. BoundedBy(ledger[x], {}, job', cap)
      BY <2>4 DEF BoundedBy
    <2> QED BY <1>2, <2>1, <2>5
  <1>21. CASE EditBudgets
    BY <1>21 DEF EditBudgets, TypeOK
  <1> QED
    BY <1>2, <1>10, <1>11, <1>12, <1>13, <1>14, <1>15, <1>16, <1>17, <1>18, <1>19, <1>20, <1>21
       DEF Next, Handler

\* With any number of threads, a cap is overshot at most by the requests the other
\* threads had in flight and by the last answer.
THEOREM OvershootIsBounded == Spec => []OvershootBounded
  <1>1. Init => GuardInv
    <2> SUFFICES ASSUME Init PROVE GuardInv
      OBVIOUS
    <2>1. TypeOK
      BY GuardConstants DEF GuardConstants, Init, TypeOK, PCs
    <2>2. Loaded
      BY DEF Init, Loaded
    <2>3. ASSUME NEW x \in Accounts, CapOn(x) # None
          PROVE  BoundedBy(ledger[x], InFlight(x), job, CapOn(x))
      <3>1. InFlight(x) = {} /\ ledger[x] = 0
        BY <2>3 DEF Init, InFlight
      <3>2. CapOn(x) \in Nat
        BY <2>1, <2>3, GuardConstants DEF GuardConstants, CapOn, Enforced, TypeOK, Accounts, Scopes
      <3>3. Others \in Nat /\ MaxCompletion \in Nat
        BY LoadFacts, InFlightSize, GuardConstants DEF Others, GuardConstants
      <3>4. 0 + Load(Cardinality({})) = 0
        BY FS_EmptySet, LoadFacts
      <3> QED BY <3>1, <3>2, <3>3, <3>4 DEF BoundedBy
    <2> QED BY <2>1, <2>2, <2>3 DEF GuardInv, AccountsBounded
  <1>2. GuardInv /\ [Next]_vars => GuardInv'
    BY TypeStep, LoadedStep, BoundedStep DEF GuardInv
  <1>3. GuardInv => OvershootBounded
    <2> SUFFICES ASSUME GuardInv, edits = 0, NEW x \in Accounts, CapOn(x) # None
                 PROVE  ledger[x] <= CapOn(x) + Others + MaxCompletion
      BY DEF OvershootBounded, Others, Load
    <2>1. CapOn(x) \in Nat /\ ledger[x] \in Nat
      BY GuardConstants
         DEF GuardConstants, GuardInv, CapOn, Enforced, TypeOK, Accounts, Scopes
    <2>2. /\ BoundedBy(ledger[x], InFlight(x), job, CapOn(x)) /\ InFlight(x) \in SUBSET Requests
          /\ \A r \in InFlight(x) : job[r].prompt \in 1..MaxPrompt
      BY GuardConstants
         DEF GuardConstants, GuardInv, AccountsBounded, InFlight, TypeOK, Jobs
    <2> QED BY <2>1, <2>2, Shrinks
  <1> QED BY <1>1, <1>2, <1>3, PTL DEF Spec
=============================================================================
