-------------------------- MODULE MemoryStoreProofs --------------------------
(* Proofs about MemoryStore, for any number of processes and operations.     *)
EXTENDS MemoryStore, TLAPS, WellFoundedInduction

Places == {"idle", "locking", "locked", "writing", "written", "unlocking"}
Inside == {"locked", "writing", "written", "unlocking"}

\* Only one process is inside the critical section, and the temporary file is its own.
Exclusion ==
    /\ pc \in [Procs -> Places]
    /\ DOMAIN text = Procs
    /\ \A p \in Procs : pc[p] \in Inside => lock = p
    /\ OwnTextPublished

\* What a process has copied is in the conflicts file, and it replaces the memory
\* only when it has copied all that changed.
Copies ==
    /\ pc \in [Procs -> Places]
    /\ DOMAIN seen = Procs /\ DOMAIN base = Procs /\ DOMAIN job = Procs /\ DOMAIN copied = Procs
    /\ \A p \in Procs :
          /\ pc[p] \in Inside => \A id \in copied[p] : Entry(seen[p], id) \in conflicts
          /\ pc[p] \in {"idle", "locking"} => copied[p] = {}
          /\ pc[p] \in {"writing", "written"} => Changed(p) \subseteq copied[p]

LEMMA ExclusionStep == Exclusion /\ [Next]_vars => Exclusion'
  <1> SUFFICES ASSUME Exclusion, [Next]_vars PROVE Exclusion'
    OBVIOUS
  <1> USE DEF Exclusion, OwnTextPublished, Places, Inside
  <1>1. ASSUME NEW p \in Procs,
               \/ Scaffold(p) \/ MemoryAdd(p) \/ MemorySupersede(p) \/ MemoryExpire(p)
               \/ WriteExpecting(p)
        PROVE  Exclusion'
    <2>1. PICK kind, id, target, new : Begin(p, kind, id, target, new)
      BY <1>1 DEF Scaffold, MemoryAdd, MemorySupersede, MemoryExpire, WriteExpecting
    <2> QED BY <2>1 DEF Begin
  <1>2. ASSUME NEW p \in Procs, Acquire(p) PROVE Exclusion'
    <2>1. None \notin Procs
      BY StoreConstants DEF StoreConstants
    <2> QED BY <1>2, <2>1 DEF Acquire, LockFree
  <1>3. ASSUME NEW p \in Procs, SaveConflict(p) \/ Skip(p) PROVE Exclusion'
    BY <1>3 DEF SaveConflict, Skip
  <1>4. ASSUME NEW p \in Procs, BeginTmp(p) \/ EndTmp(p) \/ Replace(p) PROVE Exclusion'
    BY <1>4 DEF BeginTmp, EndTmp, Replace
  <1>5. ASSUME NEW p \in Procs, Release(p) \/ Crash(p) PROVE Exclusion'
    BY <1>5 DEF Release, Crash, Finish, Unlocked
  <1>6. CASE AgentEdits \/ Midnight \/ UNCHANGED vars
    BY <1>6 DEF AgentEdits, Midnight, vars
  <1> QED BY <1>1, <1>2, <1>3, <1>4, <1>5, <1>6 DEF Next, Write

\* Through one shared temporary file, every process publishes its own complete text.
THEOREM OwnTextIsPublished == Spec => []OwnTextPublished
  <1>1. Init => Exclusion
    BY DEF Init, Exclusion, OwnTextPublished, Places, Inside
  <1>2. Exclusion => OwnTextPublished
    BY DEF Exclusion
  <1> QED BY <1>1, <1>2, ExclusionStep, PTL DEF Spec

LEMMA CopiesStep == Copies /\ [Next]_vars => Copies'
  <1> SUFFICES ASSUME Copies, [Next]_vars PROVE Copies'
    OBVIOUS
  <1> USE DEF Copies, Places, Inside
  <1>1. ASSUME NEW p \in Procs,
               \/ Scaffold(p) \/ MemoryAdd(p) \/ MemorySupersede(p) \/ MemoryExpire(p)
               \/ WriteExpecting(p)
        PROVE  Copies'
    <2>1. PICK kind, id, target, new : Begin(p, kind, id, target, new)
      BY <1>1 DEF Scaffold, MemoryAdd, MemorySupersede, MemoryExpire, WriteExpecting
    <2> QED BY <2>1 DEF Begin, Changed
  <1>2. ASSUME NEW p \in Procs, Acquire(p) PROVE Copies'
    BY <1>2 DEF Acquire, Changed
  <1>3. ASSUME NEW p \in Procs, SaveConflict(p) PROVE Copies'
    BY <1>3 DEF SaveConflict, WithConflict, Changed
  <1>4. ASSUME NEW p \in Procs, Skip(p) \/ BeginTmp(p) \/ EndTmp(p) \/ Replace(p) PROVE Copies'
    BY <1>4 DEF Skip, BeginTmp, EndTmp, Replace, Changed
  <1>5. ASSUME NEW p \in Procs, Release(p) \/ Crash(p) PROVE Copies'
    BY <1>5 DEF Release, Crash, Finish, Changed
  <1>6. CASE AgentEdits \/ Midnight \/ UNCHANGED vars
    BY <1>6 DEF AgentEdits, Midnight, vars, Changed
  <1> QED BY <1>1, <1>2, <1>3, <1>4, <1>5, <1>6 DEF Next, Write

\* A write with expected hashes never drops an entry that changed without a copy.
THEOREM ChangedEntriesAreCopied == Spec => []ChangedEntriesCopied
  <1>1. Init => Copies
    BY DEF Init, Copies, Places, Inside
  <1>2. Copies => ChangedEntriesCopied
    <2> SUFFICES ASSUME Copies, NEW p \in Procs, pc[p] \in {"writing", "written"},
                        job[p].kind = "edit", NEW i \in DOMAIN seen[p],
                        seen[p][i].id \in IdsOf(base[p]),
                        seen[p][i] # Entry(base[p], seen[p][i].id),
                        seen[p][i] = Entry(seen[p], seen[p][i].id)
                 PROVE  seen[p][i] \in conflicts
      BY DEF ChangedEntriesCopied
    <2>1. seen[p][i].id \in Changed(p)
      BY DEF Changed, IdsOf
    <2> QED BY <2>1 DEF Copies, Inside
  <1> QED BY <1>1, <1>2, CopiesStep, PTL DEF Spec

-----------------------------------------------------------------------------
(* What is kept, as long as every operation replaced the text it had read *)

\* Each entry is where it was, with its id and fact, and is not active again.
Keeps(s, t) ==
    \A i \in DOMAIN s :
        /\ i \in DOMAIN t
        /\ t[i].id = s[i].id /\ t[i].fact = s[i].fact
        /\ t[i].status = "active" => s[i].status = "active"
Unique(t) == \A i, k \in DOMAIN t : t[i].id = t[k].id => i = k
Has(t, j) == \E i \in DOMAIN t : t[i].id = j.id /\ t[i].fact = j.fact
Ended(t, id) ==
    id \in IdsOf(t) /\ \A i \in DOMAIN t : t[i].id = id => t[i].status # "active"

\* Serials are limited by the number of operations: today's largest exists.
Numbered(t) == \A d \in IdsOf(t) : d[2] \in 1..ops
Numbers ==
    /\ Numbered(ReadMemory)
    /\ \A p \in Procs : Numbered(base[p]) /\ Numbered(text[p])

\* What an operation has computed from what it read.
Computed(j, s, t) ==
    /\ Keeps(s, t)
    /\ Unique(s) => Unique(t) /\ (j.target # None /\ j.kind # "edit" => Ended(t, j.target))
    /\ j.kind \in {"add", "supersede"} => Has(t, j)
Computations ==
    \A p \in Procs : pc[p] # "idle" /\ job[p].kind # "scaffold" =>
        Computed(job[p], base[p], text[p])

\* A scaffold writes where nothing was.
Scaffolds ==
    \A p \in Procs : pc[p] # "idle" /\ job[p].kind = "scaffold" =>
        /\ text[p] = <<>> /\ job[p].target = None
        /\ pc[p] \in {"writing", "written"} => memory = None

\* A fact is one job's.
Facts ==
    /\ \A j \in acked : j.fact < ops
    /\ \A p \in Procs : pc[p] # "idle" => job[p].fact < ops
    /\ \A j, k \in acked : j.fact = k.fact => j = k
    /\ \A p \in Procs, j \in acked : pc[p] # "idle" => job[p].fact # j.fact
    /\ \A p, q \in Procs : pc[p] # "idle" /\ pc[q] # "idle" /\ job[p].fact = job[q].fact => p = q

Fulfilled(j) ==
    /\ j.kind \in {"add", "supersede"} => Has(ReadMemory, j)
    /\ j.target # None /\ j.kind # "edit" => Ended(ReadMemory, j.target)
Kept ==
    ~raced =>
        /\ Unique(ReadMemory)
        /\ \A j \in acked : Fulfilled(j)
        /\ \A p \in Procs : pc[p] = "unlocking" => Fulfilled(job[p])

-----------------------------------------------------------------------------

\* A set of numbers below a bound has its largest.
LEMMA MaxFacts ==
  ASSUME NEW N \in Nat, NEW S, S \subseteq 0..N, S # {}
  PROVE  Max(S) \in S /\ \A n \in S : n <= Max(S)
  <1> DEFINE R == OpToRel(<, Nat)
             B == {n \in Nat : \A k \in S : k <= n}
  <1>1. N \in B OBVIOUS
  <1>2. IsWellFoundedOn(R, Nat) BY NatLessThanWellFounded, Zenon
  <1>3. PICK m \in B : \A n \in B : ~(<<n, m>> \in R)
    <2> HIDE DEF R
    <2>1. B \subseteq Nat /\ B # {} BY <1>1
    <2> HIDE DEF B
    <2> QED BY <1>2, <2>1, WFMin
  <1>8. m \in Nat /\ \A k \in S : k \in Nat /\ k <= m
    <2>1. m \in Nat /\ \A k \in S : k <= m
      <3>1. m \in B BY <1>3
      <3> HIDE DEF R
      <3> QED BY <3>1
    <2> HIDE DEF R, B
    <2>2. \A k \in S : k \in 0..N OBVIOUS
    <2> QED BY <2>1, <2>2
  <1>4. \A n \in B : ~(n < m)
    <2>1. ASSUME NEW n \in B, n < m PROVE FALSE
      <3>1. <<n, m>> \in R BY <2>1 DEF OpToRel
      <3> QED BY <1>3, <3>1
    <2> QED BY <2>1
  <1>5. m \in S
    <2>1. SUFFICES ASSUME m \notin S PROVE FALSE OBVIOUS
    <2> HIDE DEF R
    <2>2. \A k \in S : k <= m - 1 BY <1>8, <2>1
    <2>3. PICK k : k \in S OBVIOUS
    <2>4. m - 1 \in Nat BY <1>8, <2>2, <2>3
    <2>5. m - 1 \in B BY <2>2, <2>4
    <2> QED BY <1>4, <1>8, <2>5
  <1>7. \E x \in S : \A y \in S : x >= y BY <1>5, <1>8
  <1> QED BY <1>7 DEF Max

\* A new id is one that the text does not have.
LEMMA NextIdFacts ==
  ASSUME NEW t \in Texts, ops \in Nat, today \in Days, Numbered(t)
  PROVE  /\ NextId(t) \in Ids /\ NextId(t) \notin IdsOf(t)
         /\ NextId(t)[2] \in 1..(ops + 1)
  <1>1. IdsOf(t) \subseteq Ids
    <2>1. \A i \in DOMAIN t : t[i] \in Blocks BY DEF Texts
    <2> QED BY <2>1 DEF IdsOf, Blocks
  <1>2. Serials(t) \subseteq 0..ops /\ 0 \in Serials(t)
    BY DEF Numbered, Serials
  <1>3. Max(Serials(t)) \in 0..ops /\ \A n \in Serials(t) : n <= Max(Serials(t))
    BY <1>2, MaxFacts
  <1>4. ASSUME NextId(t) \in IdsOf(t) PROVE FALSE
    <2> DEFINE m == Max(Serials(t)) + 1
               e == <<today, m>>
    <2>1. e \in {d \in IdsOf(t) : d[1] = today} BY <1>4 DEF NextId
    <2>2. e[2] = m OBVIOUS
    <2> HIDE DEF m
    <2>3. m \in {d[2] : d \in {d \in IdsOf(t) : d[1] = today}} BY <2>1, <2>2
    <2>4. m \in Serials(t) BY <2>3 DEF Serials
    <2> QED BY <1>3, <2>4 DEF m
  <1> QED BY <1>3, <1>4 DEF NextId, Ids

\* A text in which entries were only changed in place.
InPlace(s, t) == t \in Texts /\ DOMAIN t = DOMAIN s /\ Keeps(s, t)

\* It has the ids of the other and keeps what it has ended and is told apart.
LEMMA InPlaceFacts ==
  ASSUME NEW s \in Texts, NEW t, InPlace(s, t)
  PROVE  /\ IdsOf(t) = IdsOf(s)
         /\ Unique(s) => Unique(t)
         /\ \A id : Ended(s, id) => Ended(t, id)
         /\ \A j : Has(s, j) => Has(t, j)
  <1>1. DOMAIN t = DOMAIN s /\ \A i \in DOMAIN s : t[i].id = s[i].id
    BY DEF InPlace, Keeps
  <1>2. IdsOf(t) = IdsOf(s) BY <1>1 DEF IdsOf
  <1> QED BY <1>1, <1>2 DEF InPlace, Keeps, Unique, Ended, Has

\* A text that was read keeps, with whatever is published over it, what it had.
LEMMA KeepFacts ==
  ASSUME NEW s, NEW t, Keeps(s, t)
  PROVE  /\ \A j : Has(s, j) => Has(t, j)
         /\ Unique(t) => \A id : Ended(s, id) => Ended(t, id)
  <1>1. \A j : Has(s, j) => Has(t, j) BY DEF Keeps, Has
  <1>2. ASSUME Unique(t), NEW id, Ended(s, id) PROVE Ended(t, id)
    <2>1. PICK k \in DOMAIN s : s[k].id = id BY <1>2 DEF Ended, IdsOf
    <2>2. k \in DOMAIN t /\ t[k].id = id /\ t[k].status # "active"
      BY <1>2, <2>1 DEF Keeps, Ended
    <2>3. \A i \in DOMAIN t : t[i].id = id => i = k BY <1>2, <2>2 DEF Unique
    <2> QED BY <2>2, <2>3 DEF Ended, IdsOf
  <1> QED BY <1>1, <1>2

\* Replacing an entry's status.
LEMMA MarkedFacts ==
  ASSUME NEW t \in Texts, NEW id \in IdsOf(t), NEW from \in {{"active"}, Statuses},
         NEW status \in {"superseded", "expired"}
  PROVE  /\ InPlace(t, Marked(t, id, from, status))
         /\ Unique(t) => Ended(Marked(t, id, from, status), id)
  <1> DEFINE m == Marked(t, id, from, status)
             old == Entry(t, id)
  <1>1. \A i \in DOMAIN t : t[i] \in Blocks BY DEF Texts
  <1>2. PICK n \in Nat : DOMAIN t = 1..n BY DEF Texts
  <1>3. DOMAIN m = DOMAIN t BY DEF Marked
  <1>4. \A i \in DOMAIN t :
          m[i] = IF old.status \in from /\ t[i] = old
                 THEN [id |-> t[i].id, fact |-> t[i].fact, rev |-> t[i].rev, status |-> status]
                 ELSE t[i]
    BY <1>1 DEF Marked, Blocks
  <1>5. ASSUME NEW i \in DOMAIN t
        PROVE  /\ m[i] \in Blocks /\ m[i].id = t[i].id /\ m[i].fact = t[i].fact
               /\ m[i].status = "active" => t[i].status = "active"
    <2>1. t[i] \in Blocks BY <1>1
    <2>2. \/ m[i] = [id |-> t[i].id, fact |-> t[i].fact, rev |-> t[i].rev, status |-> status]
          \/ m[i] = t[i]
      BY <1>4
    <2> HIDE DEF m
    <2> QED BY <2>1, <2>2 DEF Blocks, Statuses
  <1>6. m \in Texts
    <2>1. m \in [1..n -> Blocks]
      <3>1. m = [i \in DOMAIN t |-> m[i]] BY DEF Marked, Texts
      <3> QED BY <1>2, <1>5, <3>1
    <2> HIDE DEF m
    <2> QED BY <2>1 DEF Texts
  <1>7. InPlace(t, m)
    <2> HIDE DEF m
    <2> QED BY <1>3, <1>5, <1>6 DEF InPlace, Keeps
  <1>8. ASSUME Unique(t) PROVE Ended(m, id)
    <2>1. PICK k \in DOMAIN t : t[k].id = id BY DEF IdsOf
    <2>2. \A i \in DOMAIN t : t[i].id = id => i = k BY <1>8, <2>1 DEF Unique
    <2>3. old = t[k]
      <3>1. k \in Nat BY <1>2
      <3>2. LET last == CHOOSE i \in DOMAIN t : t[i].id = id /\ \A j \in DOMAIN t : t[j].id = id => j <= i
            IN  last \in DOMAIN t /\ t[last].id = id
        BY <2>1, <2>2, <3>1
      <3> QED BY <2>2, <3>2 DEF Entry
    <2>4. m[k].id = id /\ m[k].status # "active"
      <3>1. k \in DOMAIN t /\ t[k] \in Blocks BY <1>1, <2>1
      <3>2. m[k] = IF old.status \in from
                   THEN [id |-> t[k].id, fact |-> t[k].fact, rev |-> t[k].rev, status |-> status]
                   ELSE t[k]
        BY <1>4, <2>3, <3>1
      <3>3. old.status \notin from => t[k].status # "active"
        BY <2>3, <3>1 DEF Blocks, Statuses
      <3> HIDE DEF m
      <3> QED BY <2>1, <3>2, <3>3
    <2>5. \A i \in DOMAIN m : m[i].id = id => i = k BY <1>3, <1>5, <2>2
    <2> HIDE DEF m
    <2> QED BY <1>3, <2>4, <2>5 DEF Ended, IdsOf
  <1> QED BY <1>7, <1>8

\* Editing an entry.
LEMMA EditedFacts ==
  ASSUME NEW t \in Texts, NEW id, edits \in Nat
  PROVE  InPlace(t, Edited(t, id))
  <1> DEFINE m == Edited(t, id)
  <1>1. \A i \in DOMAIN t : t[i] \in Blocks BY DEF Texts
  <1>2. PICK n \in Nat : DOMAIN t = 1..n BY DEF Texts
  <1>3. DOMAIN m = DOMAIN t BY DEF Edited
  <1>4. \A i \in DOMAIN t :
          m[i] = IF t[i] = Entry(t, id)
                 THEN [id |-> t[i].id, fact |-> t[i].fact, rev |-> edits + 1, status |-> t[i].status]
                 ELSE t[i]
    BY <1>1 DEF Edited, Blocks
  <1>5. ASSUME NEW i \in DOMAIN t
        PROVE  /\ m[i] \in Blocks /\ m[i].id = t[i].id /\ m[i].fact = t[i].fact
               /\ m[i].status = t[i].status
    <2>1. t[i] \in Blocks BY <1>1
    <2>2. \/ m[i] = [id |-> t[i].id, fact |-> t[i].fact, rev |-> edits + 1, status |-> t[i].status]
          \/ m[i] = t[i]
      BY <1>4
    <2> HIDE DEF m
    <2> QED BY <2>1, <2>2 DEF Blocks
  <1>6. m \in [1..n -> Blocks]
    <2>1. m = [i \in DOMAIN t |-> m[i]] BY DEF Edited
    <2> QED BY <1>2, <1>5, <2>1
  <1>7. m \in Texts
    <2> HIDE DEF m
    <2> QED BY <1>6 DEF Texts
  <1>8. InPlace(t, m)
    <2> HIDE DEF m
    <2> QED BY <1>3, <1>5, <1>7 DEF InPlace, Keeps
  <1> QED BY <1>8

\* Adding an entry.
LEMMA AppendFacts ==
  ASSUME NEW s \in Texts, NEW t, InPlace(s, t), NEW b \in Blocks
  PROVE  /\ Append(t, b) \in Texts
         /\ Keeps(s, Append(t, b))
         /\ IdsOf(Append(t, b)) = IdsOf(s) \cup {b.id}
         /\ \A j : j.id = b.id /\ j.fact = b.fact => Has(Append(t, b), j)
         /\ Unique(t) /\ b.id \notin IdsOf(t) => Unique(Append(t, b))
         /\ \A id : Ended(t, id) /\ id # b.id => Ended(Append(t, b), id)
  <1> DEFINE a == Append(t, b)
  <1>1. t \in Seq(Blocks) /\ DOMAIN t = DOMAIN s BY DEF InPlace, Texts
  <1>2. PICK n \in Nat : DOMAIN t = 1..n /\ Len(t) = n BY <1>1
  <1>3. /\ a \in Seq(Blocks) /\ DOMAIN a = 1..(n + 1) /\ a[n + 1] = b
        /\ \A i \in 1..n : a[i] = t[i]
    BY <1>1, <1>2
  <1> HIDE DEF a
  <1>4. a \in Texts BY <1>3 DEF Texts
  <1>5. \A i \in DOMAIN a : i \in DOMAIN t \/ i = n + 1 BY <1>2, <1>3
  <1>6. \A i \in DOMAIN t : i \in DOMAIN a /\ a[i] = t[i] BY <1>2, <1>3
  <1>7. n + 1 \in DOMAIN a BY <1>3
  <1>8. Keeps(s, a) BY <1>1, <1>6 DEF InPlace, Keeps
  <1>9. IdsOf(a) = IdsOf(t) \cup {b.id} BY <1>3, <1>5, <1>6, <1>7 DEF IdsOf
  <1>10. IdsOf(t) = IdsOf(s) BY InPlaceFacts
  <1>11. \A j : j.id = b.id /\ j.fact = b.fact => Has(a, j) BY <1>3, <1>7 DEF Has
  <1>12. Unique(t) /\ b.id \notin IdsOf(t) => Unique(a)
    BY <1>3, <1>5, <1>6 DEF Unique, IdsOf
  <1>13. \A id : Ended(t, id) /\ id # b.id => Ended(a, id)
    BY <1>3, <1>5, <1>6, <1>9 DEF Ended
  <1> QED BY <1>4, <1>8, <1>9, <1>10, <1>11, <1>12, <1>13 DEF a

-----------------------------------------------------------------------------
(* The invariant of the store                                              *)

StoreInv ==
    /\ TypeOK /\ Exclusion
    /\ Numbers /\ Computations /\ Scaffolds /\ Facts /\ Kept

\* All of it but the exclusion, of which ExclusionStep speaks.
Rest == TypeOK /\ Numbers /\ Computations /\ Scaffolds /\ Facts /\ Kept

LEMMA ReadFacts ==
  ASSUME TypeOK
  PROVE  /\ ReadMemory \in Texts /\ <<>> \in Texts
         /\ None \notin Texts \cup Jobs \cup Ids
  <1>1. None \notin Texts \cup Jobs \cup Ids BY StoreConstants DEF StoreConstants
  <1>2. <<>> \in Texts BY DEF Texts
  <1> QED BY <1>1, <1>2 DEF TypeOK, ReadMemory

\* An id of a text has an entry.
LEMMA EntryFacts ==
  ASSUME NEW t \in Texts, NEW id \in IdsOf(t)
  PROVE  Entry(t, id) \in Blocks /\ id \in Ids
  <1> DEFINE S == {i \in DOMAIN t : t[i].id = id}
  <1>1. \A i \in DOMAIN t : t[i] \in Blocks BY DEF Texts
  <1>2. PICK n \in Nat : DOMAIN t = 1..n BY DEF Texts
  <1>3. S \subseteq 0..n /\ S # {} BY <1>2 DEF IdsOf
  <1>4. PICK m \in S : \A i \in S : i <= m
    <2> HIDE DEF S
    <2> QED BY <1>3, MaxFacts
  <1>5. LET last == CHOOSE i \in DOMAIN t : t[i].id = id /\ \A j \in DOMAIN t : t[j].id = id => j <= i
        IN  last \in DOMAIN t
    BY <1>4
  <1> QED BY <1>1, <1>3, <1>5 DEF Entry, IdsOf, Blocks

LEMMA BeginKeeps ==
  ASSUME StoreInv, NEW p \in Procs, NEW kind, NEW id, NEW target, NEW new \in Texts,
         Begin(p, kind, id, target, new), edits' \in Nat,
         NEW j \in Jobs, j = [kind |-> kind, id |-> id, target |-> target, fact |-> ops],
         \A d \in IdsOf(new) : d[2] \in 1..(ops + 1),
         kind # "scaffold" => Computed(j, ReadMemory, new),
         kind = "scaffold" => new = <<>> /\ target = None
  PROVE  Rest'
  <1> USE DEF StoreInv
  <1>1. /\ ReadMemory \in Texts /\ None \notin Jobs
        /\ j.kind = kind /\ j.target = target /\ j.fact = ops /\ ops \in Nat
    BY ReadFacts DEF TypeOK
  <1>2. /\ pc[p] = "idle" /\ ops' = ops + 1
        /\ pc' = [pc EXCEPT ![p] = "locking"]
        /\ job' = [job EXCEPT ![p] = j]
        /\ base' = [base EXCEPT ![p] = ReadMemory]
        /\ text' = [text EXCEPT ![p] = new]
        /\ UNCHANGED <<memory, tmp, conflicts, lock, seen, copied, today, acked, raced>>
    BY DEF Begin
  <1>3. \A q \in Procs : q # p => /\ pc'[q] = pc[q] /\ job'[q] = job[q]
                                  /\ base'[q] = base[q] /\ text'[q] = text[q]
    BY <1>2 DEF TypeOK
  <1>4. pc'[p] = "locking" /\ job'[p] = j /\ base'[p] = ReadMemory /\ text'[p] = new
    BY <1>2 DEF TypeOK
  <1>5. ReadMemory' = ReadMemory BY <1>2 DEF ReadMemory
  <1>6. TypeOK'
    BY <1>1, <1>2 DEF TypeOK
  <1>7. Numbers'
    <2>1. \A t : Numbered(t) => \A d \in IdsOf(t) : d[2] \in 1..ops'
      BY <1>1, <1>2 DEF Numbered
    <2>2. \A d \in IdsOf(ReadMemory) : d[2] \in 1..ops' BY <2>1 DEF Numbers
    <2>3. \A q \in Procs : /\ \A d \in IdsOf(base'[q]) : d[2] \in 1..ops'
                           /\ \A d \in IdsOf(text'[q]) : d[2] \in 1..ops'
      BY <1>2, <1>3, <1>4, <2>1, <2>2 DEF Numbers
    <2> QED BY <1>5, <2>2, <2>3 DEF Numbers, Numbered, IdsOf
  <1>8. Computations' BY <1>1, <1>3, <1>4 DEF Computations
  <1>9. Scaffolds' BY <1>1, <1>2, <1>3, <1>4 DEF Scaffolds
  <1>10. Facts'
    <2>1. \A n \in Nat : n < ops => n < ops' /\ n # ops BY <1>1, <1>2
    <2>2. ops < ops' BY <1>1, <1>2
    <2>3. \A k \in acked : k.fact \in Nat BY DEF TypeOK, Jobs
    <2>4. \A q \in Procs : pc[q] # "idle" => job[q].fact \in Nat BY DEF TypeOK, Jobs
    <2> QED BY <1>1, <1>2, <1>3, <1>4, <2>1, <2>2, <2>3, <2>4 DEF Facts
  <1>11. Kept' BY <1>2, <1>3, <1>4, <1>5 DEF Kept, Fulfilled
  <1> QED BY <1>6, <1>7, <1>8, <1>9, <1>10, <1>11 DEF Rest

\* What every operation reads and computes keeps the invariant.
LEMMA OperationKeeps ==
  ASSUME StoreInv, NEW p \in Procs,
         \/ Scaffold(p) \/ MemoryAdd(p) \/ MemorySupersede(p) \/ MemoryExpire(p)
         \/ WriteExpecting(p)
  PROVE  Rest'
  <1> DEFINE s == ReadMemory
             new == NextId(s)
             b == Active(new, ops)
  <1>1. /\ s \in Texts /\ <<>> \in Texts /\ None \notin Texts \cup Jobs \cup Ids
        /\ ops \in Nat /\ edits \in Nat /\ today \in Days
        /\ Numbered(s) /\ \A d \in IdsOf(s) : d[2] \in 1..(ops + 1)
    BY ReadFacts DEF StoreInv, TypeOK, Numbers, Numbered
  <1>2. /\ new \in Ids /\ new \notin IdsOf(s) /\ new[2] \in 1..(ops + 1)
        /\ new # None
    BY <1>1, NextIdFacts
  <1>3. b \in Blocks /\ b.id = new /\ b.fact = ops
    BY <1>1, <1>2 DEF Active, Blocks, Statuses
  <1>4. \A t \in Texts : IdsOf(t) \subseteq Ids
    BY EntryFacts
  <1>5. InPlace(s, s) BY <1>1 DEF InPlace, Keeps
  <1>6. CASE Scaffold(p)
    <2> DEFINE j == [kind |-> "scaffold", id |-> None, target |-> None, fact |-> ops]
    <2>1. Begin(p, "scaffold", None, None, <<>>) /\ edits' = edits BY <1>6 DEF Scaffold
    <2>2. j \in Jobs BY <1>1 DEF Jobs
    <2>3. IdsOf(<<>>) = {} BY DEF IdsOf
    <2> QED BY <1>1, <2>1, <2>2, <2>3, BeginKeeps
  <1>7. CASE MemoryAdd(p)
    <2> DEFINE j == [kind |-> "add", id |-> new, target |-> None, fact |-> ops]
               a == Append(s, b)
    <2>1. Begin(p, "add", new, None, a) /\ edits' = edits BY <1>7 DEF MemoryAdd
    <2>2. j \in Jobs BY <1>1, <1>2 DEF Jobs
    <2> HIDE DEF new, s, b
    <2>3. /\ a \in Texts /\ Keeps(s, a) /\ IdsOf(a) = IdsOf(s) \cup {new}
          /\ Has(a, j) /\ (Unique(s) => Unique(a))
      BY <1>1, <1>2, <1>3, <1>5, AppendFacts
    <2> HIDE DEF a
    <2>4. Computed(j, s, a) BY <2>3 DEF Computed
    <2>5. \A d \in IdsOf(a) : d[2] \in 1..(ops + 1) BY <1>1, <1>2, <2>3
    <2> HIDE DEF j
    <2>6. j = [kind |-> "add", id |-> new, target |-> None, fact |-> ops] BY DEF j
    <2> QED BY <1>1, <2>1, <2>2, <2>3, <2>4, <2>5, <2>6, BeginKeeps DEF s
  <1>8. CASE MemorySupersede(p)
    <2>1. PICK target \in IdsOf(s) :
            Begin(p, "supersede", new, target,
                  Append(Marked(s, target, {"active"}, "superseded"), b)) /\ edits' = edits
      BY <1>8 DEF MemorySupersede
    <2> DEFINE j == [kind |-> "supersede", id |-> new, target |-> target, fact |-> ops]
               m == Marked(s, target, {"active"}, "superseded")
               a == Append(m, b)
    <2>2. j \in Jobs BY <1>1, <1>2, <1>4 DEF Jobs
    <2> HIDE DEF new, s, b
    <2>3. InPlace(s, m) /\ (Unique(s) => Ended(m, target))
      BY <1>1, MarkedFacts
    <2> HIDE DEF m
    <2>4. IdsOf(m) = IdsOf(s) /\ (Unique(s) => Unique(m)) BY <1>1, <2>3, InPlaceFacts
    <2>5. /\ a \in Texts /\ Keeps(s, a) /\ IdsOf(a) = IdsOf(s) \cup {new}
          /\ Has(a, j) /\ (Unique(s) => Unique(a))
          /\ Unique(s) => Ended(a, target)
      <3>1. target # new BY <1>2
      <3> QED BY <1>1, <1>2, <1>3, <2>3, <2>4, <3>1, AppendFacts
    <2> HIDE DEF a
    <2>6. Computed(j, s, a) BY <2>5 DEF Computed
    <2>7. \A d \in IdsOf(a) : d[2] \in 1..(ops + 1) BY <1>1, <1>2, <2>5
    <2>8. Begin(p, "supersede", new, target, a) BY <2>1 DEF a, m
    <2> HIDE DEF j
    <2>9. j = [kind |-> "supersede", id |-> new, target |-> target, fact |-> ops] BY DEF j
    <2> QED BY <1>1, <2>1, <2>2, <2>5, <2>6, <2>7, <2>8, <2>9, BeginKeeps DEF s
  <1>9. CASE MemoryExpire(p)
    <2>1. PICK target \in IdsOf(s) :
            Begin(p, "expire", None, target, Marked(s, target, Statuses, "expired")) /\ edits' = edits
      BY <1>9 DEF MemoryExpire
    <2> DEFINE j == [kind |-> "expire", id |-> None, target |-> target, fact |-> ops]
               m == Marked(s, target, Statuses, "expired")
    <2>2. j \in Jobs BY <1>1, <1>4 DEF Jobs
    <2> HIDE DEF s
    <2>3. InPlace(s, m) /\ (Unique(s) => Ended(m, target))
      BY <1>1, MarkedFacts
    <2> HIDE DEF m
    <2>4. IdsOf(m) = IdsOf(s) /\ (Unique(s) => Unique(m)) BY <1>1, <2>3, InPlaceFacts
    <2>5. m \in Texts /\ Computed(j, s, m) BY <2>3, <2>4 DEF Computed, InPlace
    <2>6. Begin(p, "expire", None, target, m) BY <2>1 DEF m
    <2> HIDE DEF j
    <2>7. j = [kind |-> "expire", id |-> None, target |-> target, fact |-> ops] BY DEF j
    <2> QED BY <1>1, <2>1, <2>2, <2>4, <2>5, <2>6, <2>7, BeginKeeps DEF s
  <1>10. CASE WriteExpecting(p)
    <2>1. PICK target \in IdsOf(s) :
            Begin(p, "edit", None, target, Edited(s, target)) /\ edits' = edits + 1
      BY <1>10 DEF WriteExpecting
    <2> DEFINE j == [kind |-> "edit", id |-> None, target |-> target, fact |-> ops]
               m == Edited(s, target)
    <2>2. j \in Jobs BY <1>1, <1>4 DEF Jobs
    <2> HIDE DEF s
    <2>3. InPlace(s, m) BY <1>1, EditedFacts
    <2> HIDE DEF m
    <2>4. IdsOf(m) = IdsOf(s) /\ (Unique(s) => Unique(m)) BY <1>1, <2>3, InPlaceFacts
    <2>5. m \in Texts /\ Computed(j, s, m) BY <2>3, <2>4 DEF Computed, InPlace
    <2>6. Begin(p, "edit", None, target, m) BY <2>1 DEF m
    <2>7. edits' \in Nat BY <1>1, <2>1
    <2> HIDE DEF j
    <2>8. j = [kind |-> "edit", id |-> None, target |-> target, fact |-> ops] BY DEF j
    <2> QED BY <1>1, <2>2, <2>4, <2>5, <2>6, <2>7, <2>8, BeginKeeps DEF s
  <1> QED BY <1>6, <1>7, <1>8, <1>9, <1>10

\* Taking the lock, copying, skipping and writing the temporary file.
LEMMA WaitingKeeps ==
  ASSUME StoreInv, NEW p \in Procs,
         Acquire(p) \/ SaveConflict(p) \/ Skip(p) \/ BeginTmp(p) \/ EndTmp(p)
  PROVE  Rest'
  <1> USE DEF StoreInv
  <1>1. /\ UNCHANGED <<memory, job, base, text, today, ops, edits, acked, raced>>
        /\ pc[p] # "idle" /\ pc'[p] # "idle" /\ \A q \in Procs : q # p => pc'[q] = pc[q]
        /\ pc' \in [Procs -> Places]
    BY DEF Acquire, SaveConflict, Skip, BeginTmp, EndTmp, TypeOK, Places
  <1>2. ReadMemory' = ReadMemory BY <1>1 DEF ReadMemory
  <1>3. TypeOK'
    <2>1. ReadMemory \in Texts BY ReadFacts
    <2>2. tmp' \in Texts \cup {None, Torn} /\ lock' \in Procs \cup {None}
          /\ seen' \in [Procs -> Texts]
      BY <2>1 DEF Acquire, SaveConflict, Skip, BeginTmp, EndTmp, TypeOK
    <2>3. conflicts' \subseteq Blocks /\ copied' \in [Procs -> SUBSET Ids]
      <3>1. CASE SaveConflict(p)
        <4>1. PICK id \in Changed(p) :
                /\ conflicts' = conflicts \cup {Entry(seen[p], id)}
                /\ copied' = [copied EXCEPT ![p] = @ \cup {id}]
          BY <3>1 DEF SaveConflict, WithConflict
        <4>2. seen[p] \in Texts /\ id \in IdsOf(seen[p]) BY <4>1 DEF TypeOK, Changed
        <4>3. Entry(seen[p], id) \in Blocks /\ id \in Ids BY <4>2, EntryFacts
        <4> QED BY <4>1, <4>3 DEF TypeOK
      <3>2. CASE Acquire(p) \/ Skip(p) \/ BeginTmp(p) \/ EndTmp(p)
        BY <3>2 DEF Acquire, Skip, BeginTmp, EndTmp, TypeOK
      <3> QED BY <3>1, <3>2
    <2> QED BY <1>1, <2>2, <2>3 DEF TypeOK, Places
  <1>4. Numbers' BY <1>1, <1>2 DEF Numbers, Numbered, IdsOf
  <1>5. Computations' BY <1>1 DEF Computations
  <1>6. Scaffolds'
    <2>1. pc'[p] \in {"writing", "written"} /\ job[p].kind = "scaffold" => memory = None
      BY DEF Acquire, SaveConflict, Skip, BeginTmp, EndTmp, Scaffolds, TypeOK
    <2> QED BY <1>1, <2>1 DEF Scaffolds
  <1>7. Facts' BY <1>1 DEF Facts
  <1>8. Kept'
    <2>1. pc'[p] = "unlocking" => job[p].kind = "scaffold" \/ pc[p] = "unlocking"
      BY DEF Acquire, SaveConflict, Skip, BeginTmp, EndTmp, TypeOK
    <2>2. pc[p] # "idle" /\ job[p].kind = "scaffold" => Fulfilled(job[p])
      BY DEF Scaffolds, Fulfilled
    <2> QED BY <1>1, <1>2, <2>1, <2>2 DEF Kept, Fulfilled
  <1> QED BY <1>3, <1>4, <1>5, <1>6, <1>7, <1>8 DEF Rest

\* Replacing the file: what the text was computed from is what is replaced, or
\* the step says that it is not.
LEMMA ReplaceKeeps ==
  ASSUME StoreInv, NEW p \in Procs, Replace(p)
  PROVE  Rest'
  <1> USE DEF StoreInv
  <1>1. /\ UNCHANGED <<conflicts, lock, job, base, text, seen, copied, today, ops, edits, acked>>
        /\ pc[p] = "written" /\ pc' = [pc EXCEPT ![p] = "unlocking"]
        /\ raced' = (raced \/ (job[p].kind # "scaffold" /\ base[p] # ReadMemory))
        /\ memory' = text[p] /\ tmp' = None
    BY DEF Replace, Exclusion, OwnTextPublished
  <1>2. /\ text[p] \in Texts /\ ReadMemory \in Texts
        /\ None \notin Texts
    BY ReadFacts DEF TypeOK
  <1>3. ReadMemory' = text[p] BY <1>1, <1>2 DEF ReadMemory
  <1>4. /\ pc'[p] = "unlocking"
        /\ \A q \in Procs : q # p => pc'[q] = pc[q] /\ pc'[q] \notin Inside
    BY <1>1 DEF TypeOK, Exclusion, Inside
  <1>5. TypeOK'
    <2>1. raced' \in BOOLEAN BY <1>1
    <2> QED BY <1>1, <1>2, <2>1 DEF TypeOK
  <1>6. Numbers' BY <1>1, <1>3 DEF Numbers, Numbered, IdsOf
  <1>7. Computations' BY <1>1, <1>4 DEF Computations
  <1>8. Scaffolds' BY <1>1, <1>4 DEF Scaffolds, Inside
  <1>9. Facts' BY <1>1, <1>4 DEF Facts
  <1>10. Kept'
    <2> SUFFICES ASSUME ~raced' PROVE Kept' BY DEF Kept
    <2>1. /\ ~raced /\ Unique(ReadMemory) /\ \A j \in acked : Fulfilled(j)
          /\ job[p].kind = "scaffold" \/ base[p] = ReadMemory
      BY <1>1 DEF Kept
    <2>2. Keeps(ReadMemory, text[p]) /\ Unique(text[p])
      <3>1. CASE job[p].kind = "scaffold"
        <4>1. text[p] = <<>> /\ ReadMemory = <<>> BY <1>1, <3>1 DEF Scaffolds, ReadMemory
        <4> QED BY <4>1 DEF Keeps, Unique
      <3>2. CASE job[p].kind # "scaffold"
        BY <1>1, <2>1, <3>2 DEF Computations, Computed
      <3> QED BY <3>1, <3>2
    <2>3. /\ job[p].kind \in {"add", "supersede"} => Has(text[p], job[p])
          /\ job[p].target # None /\ job[p].kind # "edit" => Ended(text[p], job[p].target)
      <3>1. CASE job[p].kind = "scaffold" BY <1>1, <3>1 DEF Scaffolds
      <3>2. CASE job[p].kind # "scaffold"
        BY <1>1, <2>1, <3>2 DEF Computations, Computed
      <3> QED BY <3>1, <3>2
    <2>4. \A j \in acked :
            /\ j.kind \in {"add", "supersede"} => Has(text[p], j)
            /\ j.target # None /\ j.kind # "edit" => Ended(text[p], j.target)
      BY <2>1, <2>2, KeepFacts DEF Fulfilled
    <2> QED BY <1>1, <1>3, <1>4, <2>2, <2>3, <2>4 DEF Kept, Fulfilled, Inside
  <1> QED BY <1>5, <1>6, <1>7, <1>8, <1>9, <1>10 DEF Rest

\* Returning and dying.
LEMMA FinishKeeps ==
  ASSUME StoreInv, NEW p \in Procs, Release(p) \/ Crash(p)
  PROVE  Rest'
  <1> USE DEF StoreInv
  <1>1. /\ UNCHANGED <<memory, tmp, conflicts, today, ops, edits, raced>>
        /\ pc' = [pc EXCEPT ![p] = "idle"] /\ job' = [job EXCEPT ![p] = None]
        /\ base' = [base EXCEPT ![p] = <<>>] /\ text' = [text EXCEPT ![p] = <<>>]
        /\ seen' = [seen EXCEPT ![p] = <<>>] /\ copied' = [copied EXCEPT ![p] = {}]
        /\ lock' \in {lock, None}
    BY DEF Release, Crash, Finish, Unlocked
  <1>2. ReadMemory' = ReadMemory /\ <<>> \in Texts BY <1>1, ReadFacts DEF ReadMemory
  <1>3. \/ acked' = acked
        \/ acked' = acked \cup {job[p]} /\ pc[p] = "unlocking"
    BY DEF Release, Crash
  <1>4. /\ pc'[p] = "idle" /\ base'[p] = <<>> /\ text'[p] = <<>>
        /\ \A q \in Procs : q # p => /\ pc'[q] = pc[q] /\ job'[q] = job[q]
                                     /\ base'[q] = base[q] /\ text'[q] = text[q]
    BY <1>1 DEF TypeOK
  <1>5. pc[p] = "unlocking" => job[p] \in Jobs BY DEF TypeOK
  <1>6. TypeOK' BY <1>1, <1>2, <1>3, <1>5 DEF TypeOK
  <1>7. Numbers'
    <2>1. IdsOf(<<>>) = {} BY DEF IdsOf
    <2>2. \A t : Numbered(t) <=> \A d \in IdsOf(t) : d[2] \in 1..ops' BY <1>1 DEF Numbered
    <2>3. \A q \in Procs : /\ \A d \in IdsOf(base'[q]) : d[2] \in 1..ops'
                           /\ \A d \in IdsOf(text'[q]) : d[2] \in 1..ops'
      BY <1>4, <2>1, <2>2 DEF Numbers
    <2> QED BY <1>1, <1>2, <2>2, <2>3 DEF Numbers, Numbered, IdsOf
  <1>8. Computations' BY <1>4 DEF Computations
  <1>9. Scaffolds' BY <1>1, <1>4 DEF Scaffolds
  <1>10. Facts' BY <1>1, <1>3, <1>4 DEF Facts
  <1>11. Kept' BY <1>1, <1>2, <1>3, <1>4 DEF Kept, Fulfilled
  <1> QED BY <1>6, <1>7, <1>8, <1>9, <1>10, <1>11 DEF Rest

\* What happens outside of the operations.
LEMMA OutsideKeeps ==
  ASSUME StoreInv, AgentEdits \/ Midnight \/ UNCHANGED vars
  PROVE  Rest'
  <1> USE DEF StoreInv
  <1>1. CASE AgentEdits
    <2>1. PICK id \in IdsOf(memory) : memory' = Edited(memory, id)
      BY <1>1 DEF AgentEdits
    <2>2. /\ memory # None /\ edits' = edits + 1
          /\ UNCHANGED <<tmp, conflicts, lock, pc, job, base, text, seen, copied, today, ops, acked, raced>>
      BY <1>1 DEF AgentEdits
    <2>3. /\ ReadMemory = memory /\ memory \in Texts /\ edits \in Nat
          /\ None \notin Texts
      BY <2>2, ReadFacts DEF TypeOK, ReadMemory
    <2>4. InPlace(memory, memory') BY <2>1, <2>3, EditedFacts
    <2>5. memory' \in Texts /\ ReadMemory' = memory' BY <2>3, <2>4 DEF InPlace, ReadMemory
    <2>6. /\ IdsOf(memory') = IdsOf(memory)
          /\ Unique(memory) => Unique(memory')
          /\ \A id2 : Ended(memory, id2) => Ended(memory', id2)
          /\ \A j : Has(memory, j) => Has(memory', j)
      BY <2>3, <2>4, InPlaceFacts
    <2>7. TypeOK' BY <2>2, <2>3, <2>5 DEF TypeOK
    <2>8. Numbers' BY <2>2, <2>3, <2>5, <2>6 DEF Numbers, Numbered, IdsOf
    <2>9. Computations' /\ Facts' BY <2>2 DEF Computations, Facts
    <2>10. Scaffolds' BY <2>2 DEF Scaffolds
    <2>11. Kept' BY <2>2, <2>3, <2>5, <2>6 DEF Kept, Fulfilled
    <2> QED BY <2>7, <2>8, <2>9, <2>10, <2>11 DEF Rest
  <1>2. CASE Midnight \/ UNCHANGED vars
    <2>1. /\ UNCHANGED <<memory, tmp, conflicts, lock, pc, job, base, text, seen, copied, ops, edits, acked, raced>>
          /\ today' \in Days
      BY <1>2, StoreConstants DEF Midnight, vars, TypeOK, Days, StoreConstants
    <2>2. ReadMemory' = ReadMemory BY <2>1 DEF ReadMemory
    <2>3. TypeOK' BY <2>1 DEF TypeOK
    <2>4. Numbers' BY <2>1, <2>2 DEF Numbers, Numbered, IdsOf
    <2>5. Computations' /\ Facts' /\ Scaffolds' BY <2>1 DEF Computations, Facts, Scaffolds
    <2>6. Kept' BY <2>1, <2>2 DEF Kept, Fulfilled
    <2> QED BY <2>3, <2>4, <2>5, <2>6 DEF Rest
  <1> QED BY <1>1, <1>2

LEMMA StoreStep == StoreInv /\ [Next]_vars => StoreInv'
  <1> SUFFICES ASSUME StoreInv, [Next]_vars PROVE StoreInv'
    OBVIOUS
  <1>1. Exclusion' BY ExclusionStep DEF StoreInv
  <1>2. Rest'
    BY OperationKeeps, WaitingKeeps, ReplaceKeeps, FinishKeeps, OutsideKeeps DEF Next, Write
  <1> QED BY <1>1, <1>2 DEF StoreInv, Rest

LEMMA StoreInit == Init => StoreInv
  <1> SUFFICES ASSUME Init PROVE StoreInv
    OBVIOUS
  <1>1. <<>> \in Texts /\ 0 \in Days BY StoreConstants DEF Texts, Days, StoreConstants
  <1>2. ReadMemory = <<>> BY DEF Init, ReadMemory
  <1>3. IdsOf(<<>>) = {} /\ Unique(<<>>) BY DEF IdsOf, Unique
  <1>4. TypeOK BY <1>1 DEF Init, TypeOK
  <1>5. Exclusion BY DEF Init, Exclusion, OwnTextPublished, Places, Inside
  <1>6. Numbers BY <1>2, <1>3 DEF Init, Numbers, Numbered
  <1>7. Computations /\ Scaffolds /\ Facts /\ Kept
    BY <1>2, <1>3 DEF Init, Computations, Scaffolds, Facts, Kept
  <1> QED BY <1>4, <1>5, <1>6, <1>7 DEF StoreInv

\* Every variable keeps its type; the memory is never a torn file.
THEOREM StoreTypeCorrect == Spec => []TypeOK
  <1>1. StoreInv => TypeOK BY DEF StoreInv
  <1> QED BY <1>1, StoreInit, StoreStep, PTL DEF Spec

\* Nothing but a stale read loses a fact whose add or supersede has returned, and
\* no two such facts have one id.
THEOREM AckedFactsAreKept == Spec => []AckedFactsKept
  <1>1. StoreInv => AckedFactsKept
    <2> SUFFICES ASSUME StoreInv, ~raced
                 PROVE  /\ \A j \in Adds : Listed(j)
                        /\ \A j, k \in Adds : j.id = k.id => j = k
      BY DEF AckedFactsKept
    <2>1. \A j \in Adds : j \in acked /\ Has(ReadMemory, j)
      BY DEF StoreInv, Kept, Fulfilled, Adds
    <2>2. ASSUME NEW j \in Adds, NEW k \in Adds, j.id = k.id PROVE j = k
      <3>1. j.fact = k.fact BY <2>1, <2>2 DEF StoreInv, Kept, Unique, Has
      <3> QED BY <2>1, <3>1 DEF StoreInv, Facts
    <2> QED BY <2>1, <2>2 DEF Has, Listed
  <1> QED BY <1>1, StoreInit, StoreStep, PTL DEF Spec

\* What an expire or a supersede has ended stays so, unless a stale read undoes it.
THEOREM EndedEntriesStayInactive == Spec => []EndedStayInactive
  <1>1. StoreInv => EndedStayInactive
    BY DEF StoreInv, Kept, Fulfilled, Ended, EndedStayInactive
  <1> QED BY <1>1, StoreInit, StoreStep, PTL DEF Spec
=============================================================================
