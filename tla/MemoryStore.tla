---------------------------- MODULE MemoryStore ----------------------------
(***************************************************************************)
(* The shared memory of a project, .cz/MEMORY.md (home/store.py with       *)
(* home/lockfile.py), as several processes use it at once: the CLI run by  *)
(* the user and by wrapped agents, and callers of write_memory.            *)
(*                                                                         *)
(* An operation reads the file, computes a new text, takes the lock and    *)
(* replaces the file through a temporary file whose name all processes     *)
(* share.  Agents edit the file themselves, without the lock.              *)
(*                                                                         *)
(* Abstractions: a text is the sequence of its entries; an entry has its   *)
(* id, the fact it was added with (the number of the operation), the       *)
(* number of its last edit, and its status.                                *)
(***************************************************************************)
EXTENDS Naturals, Sequences, FiniteSetsExt

CONSTANTS
    Procs,
    MaxOps,            \* bound: operations
    MaxEdits,          \* bound: edits of an entry's text
    MaxDays,           \* bound: midnights
    None,              \* no file, nobody, no operation
    Torn               \* a file that is not completely written

Days == 0..MaxDays
Ids == Days \X Nat
Statuses == {"active", "superseded", "expired"}
Blocks == [id : Ids, fact : Nat, rev : Nat, status : Statuses]
Texts == Seq(Blocks)
Jobs == [kind : {"add", "supersede", "expire", "edit", "scaffold"},
         id : Ids \cup {None}, target : Ids \cup {None}, fact : Nat]

ASSUME StoreConstants ==
    /\ {MaxOps, MaxEdits, MaxDays} \subseteq Nat
    /\ None \notin Procs \cup Texts \cup Jobs \cup Ids
    /\ Torn \notin Texts \cup {None}

VARIABLES
    memory,            \* MEMORY.md
    tmp,               \* MEMORY.md.tmp
    conflicts,         \* entries copied to MEMORY.conflicts.md
    lock,              \* who has flocked .cz/.lock
    pc, job,           \* where a process is, and in which operation
    base,              \* the text its operation has read
    text,              \* the text it is going to write
    seen,              \* the text it read again under the lock
    copied,            \* the ids it has copied to the conflicts file
    today,
    ops, edits,
    acked,             \* jobs that have returned
    raced              \* a text was published that was computed from another than it replaced

vars == <<memory, tmp, conflicts, lock, pc, job, base, text, seen, copied, today, ops, edits, acked, raced>>

Init ==
    /\ memory \in {None, <<>>} /\ tmp = None /\ conflicts = {} /\ lock = None
    /\ pc = [p \in Procs |-> "idle"]
    /\ job = [p \in Procs |-> None]
    /\ base = [p \in Procs |-> <<>>]
    /\ text = [p \in Procs |-> <<>>]
    /\ seen = [p \in Procs |-> <<>>]
    /\ copied = [p \in Procs |-> {}]
    /\ today = 0 /\ ops = 0 /\ edits = 0 /\ acked = {} /\ raced = FALSE

-----------------------------------------------------------------------------
(* Texts.                                                                  *)

ReadMemory == IF memory = None THEN <<>> ELSE memory

IdsOf(t) == {t[i].id : i \in DOMAIN t}

\* _parse_memory_entries keeps the last entry with an id.
Entry(t, id) == t[CHOOSE i \in DOMAIN t : t[i].id = id /\ \A j \in DOMAIN t : t[j].id = id => j <= i]

\* The serials of today's ids, and 0.
Serials(t) == {0} \cup {d[2] : d \in {e \in IdsOf(t) : e[1] = today}}

\* Mutated: the largest serial of the day, not the one after it.
NextId_Largest(t) == <<today, Max(Serials(t))>>

\* One more than the largest serial of the day.
NextId(t) == <<today, Max(Serials(t)) + 1>>

\* Mutated: the new body is computed but not put into the text.
Marked_Unreplaced(t, id, from, status) == t

\* The text with one entry's status replaced, if it is one of those given.
Marked(t, id, from, status) ==
    LET old == Entry(t, id) IN
    IF old.status \in from
    THEN [i \in DOMAIN t |-> IF t[i] = old THEN [old EXCEPT !.status = status] ELSE t[i]]
    ELSE t

Active(id, fact) == [id |-> id, fact |-> fact, rev |-> 0, status |-> "active"]

-----------------------------------------------------------------------------
(* Operations: what they read and compute before they ask for the lock.    *)

Begin(p, kind, id, target, new) ==
    /\ pc[p] = "idle" /\ ops < MaxOps
    /\ ops' = ops + 1
    /\ pc' = [pc EXCEPT ![p] = "locking"]
    /\ job' = [job EXCEPT ![p] = [kind |-> kind, id |-> id, target |-> target, fact |-> ops]]
    /\ base' = [base EXCEPT ![p] = ReadMemory]
    /\ text' = [text EXCEPT ![p] = new]
    /\ UNCHANGED <<memory, tmp, conflicts, lock, seen, copied, today, acked, raced>>

Scaffold(p) == Begin(p, "scaffold", None, None, <<>>) /\ UNCHANGED edits

MemoryAdd(p) ==
    LET id == NextId(ReadMemory) IN
    /\ Begin(p, "add", id, None, Append(ReadMemory, Active(id, ops)))
    /\ UNCHANGED edits

\* Only an active entry's status changes; the new entry is added in any case.
MemorySupersede(p) ==
    \E target \in IdsOf(ReadMemory) :
        LET id == NextId(ReadMemory) IN
        /\ Begin(p, "supersede", id, target,
                 Append(Marked(ReadMemory, target, {"active"}, "superseded"), Active(id, ops)))
        /\ UNCHANGED edits

MemoryExpire(p) ==
    \E target \in IdsOf(ReadMemory) :
        /\ Begin(p, "expire", None, target, Marked(ReadMemory, target, Statuses, "expired"))
        /\ UNCHANGED edits

\* The text with one entry edited.
Edited(t, id) ==
    [i \in DOMAIN t |-> IF t[i] = Entry(t, id) THEN [t[i] EXCEPT !.rev = edits + 1] ELSE t[i]]

\* A caller of write_memory that expects the hashes of all entries it has read.
WriteExpecting(p) ==
    \E target \in IdsOf(ReadMemory) :
        /\ edits < MaxEdits
        /\ edits' = edits + 1
        /\ Begin(p, "edit", None, target, Edited(ReadMemory, target))

-----------------------------------------------------------------------------
(* The critical section.                                                   *)

\* Mutated: a lock that is shared.
LockFree_Shared == TRUE

\* flock with LOCK_EX.
LockFree == lock = None

Acquire(p) ==
    /\ pc[p] = "locking" /\ LockFree
    /\ lock' = p
    /\ seen' = [seen EXCEPT ![p] = ReadMemory]
    /\ pc' = [pc EXCEPT ![p] = "locked"]
    /\ UNCHANGED <<memory, tmp, conflicts, job, base, text, copied, today, ops, edits, acked, raced>>

\* Mutated: only the entry that is written is compared.
Changed_Own(p) ==
    {id \in IdsOf(base[p]) \cap IdsOf(seen[p]) :
        job[p].kind = "edit" /\ id = job[p].target /\ Entry(seen[p], id) # Entry(base[p], id)}

\* Ids of entries whose hash is not the expected one; one that is gone does not count.
Changed(p) ==
    {id \in IdsOf(base[p]) \cap IdsOf(seen[p]) :
        job[p].kind = "edit" /\ Entry(seen[p], id) # Entry(base[p], id)}

\* The conflicts file with one more copy.
WithConflict(b) == conflicts \cup {b}

\* atomic_write under the lock: its rename is the step, and what a death before it
\* leaves in MEMORY.conflicts.md.tmp nobody reads and the next writer truncates.
SaveConflict(p) ==
    /\ pc[p] = "locked"
    /\ \E id \in Changed(p) \ copied[p] :
          /\ conflicts' = WithConflict(Entry(seen[p], id))
          /\ copied' = [copied EXCEPT ![p] = @ \cup {id}]
    /\ UNCHANGED <<memory, tmp, lock, pc, job, base, text, seen, today, ops, edits, acked, raced>>

\* init_scaffold leaves a file alone that exists.
Skip(p) ==
    /\ pc[p] = "locked" /\ job[p].kind = "scaffold" /\ memory # None
    /\ pc' = [pc EXCEPT ![p] = "unlocking"]
    /\ UNCHANGED <<memory, tmp, conflicts, lock, job, base, text, seen, copied, today, ops, edits, acked, raced>>

BeginTmp(p) ==
    /\ pc[p] = "locked" /\ Changed(p) \subseteq copied[p]
    /\ job[p].kind = "scaffold" => memory = None
    /\ tmp' = Torn
    /\ pc' = [pc EXCEPT ![p] = "writing"]
    /\ UNCHANGED <<memory, conflicts, lock, job, base, text, seen, copied, today, ops, edits, acked, raced>>

EndTmp(p) ==
    /\ pc[p] = "writing"
    /\ tmp' = text[p]
    /\ pc' = [pc EXCEPT ![p] = "written"]
    /\ UNCHANGED <<memory, conflicts, lock, job, base, text, seen, copied, today, ops, edits, acked, raced>>

\* tmp.replace(path).
Replace(p) ==
    /\ pc[p] = "written" /\ tmp # None
    /\ memory' = tmp
    /\ tmp' = None
    /\ raced' = (raced \/ (job[p].kind # "scaffold" /\ base[p] # ReadMemory))
    /\ pc' = [pc EXCEPT ![p] = "unlocking"]
    /\ UNCHANGED <<conflicts, lock, job, base, text, seen, copied, today, ops, edits, acked>>

\* Mutated: an operation that ends keeps the lock.
Unlocked_Kept(p) == lock

\* The lock goes with the file descriptor.
Unlocked(p) == IF lock = p THEN None ELSE lock

Finish(p) ==
    /\ pc' = [pc EXCEPT ![p] = "idle"]
    /\ job' = [job EXCEPT ![p] = None]
    /\ base' = [base EXCEPT ![p] = <<>>]
    /\ text' = [text EXCEPT ![p] = <<>>]
    /\ seen' = [seen EXCEPT ![p] = <<>>]
    /\ copied' = [copied EXCEPT ![p] = {}]
    /\ lock' = Unlocked(p)
    /\ UNCHANGED <<memory, tmp, conflicts, today, ops, edits, raced>>

Release(p) ==
    /\ pc[p] = "unlocking"
    /\ acked' = acked \cup {job[p]}
    /\ Finish(p)

\* The process dies; a temporary file stays behind.
Crash(p) ==
    /\ pc[p] # "idle"
    /\ UNCHANGED acked
    /\ Finish(p)

-----------------------------------------------------------------------------
(* Outside of the code.                                                    *)

\* An agent edits an entry in the file, without the lock.
AgentEdits ==
    /\ edits < MaxEdits /\ memory # None
    /\ edits' = edits + 1
    /\ \E target \in IdsOf(memory) : memory' = Edited(memory, target)
    /\ UNCHANGED <<tmp, conflicts, lock, pc, job, base, text, seen, copied, today, ops, acked, raced>>

Midnight ==
    /\ today < MaxDays
    /\ today' = today + 1
    /\ UNCHANGED <<memory, tmp, conflicts, lock, pc, job, base, text, seen, copied, ops, edits, acked, raced>>

Write(p) ==
    \/ Acquire(p) \/ SaveConflict(p) \/ Skip(p) \/ BeginTmp(p) \/ EndTmp(p) \/ Replace(p) \/ Release(p)

Next ==
    \/ \E p \in Procs :
          \/ Scaffold(p) \/ MemoryAdd(p) \/ MemorySupersede(p) \/ MemoryExpire(p)
          \/ WriteExpecting(p) \/ Write(p) \/ Crash(p)
    \/ AgentEdits \/ Midnight

Spec == Init /\ [][Next]_vars

\* Processes run on; the kernel gives a free lock to a waiter.
FairSpec == Spec /\ \A p \in Procs : WF_vars(Write(p))

-----------------------------------------------------------------------------
(* Properties.                                                             *)

\* Every variable holds a value of its type; MEMORY.md is never a torn file.
TypeOK ==
    /\ memory \in Texts \cup {None}
    /\ tmp \in Texts \cup {None, Torn}
    /\ conflicts \subseteq Blocks
    /\ lock \in Procs \cup {None}
    /\ pc \in [Procs -> {"idle", "locking", "locked", "writing", "written", "unlocking"}]
    /\ job \in [Procs -> Jobs \cup {None}]
    /\ base \in [Procs -> Texts] /\ text \in [Procs -> Texts] /\ seen \in [Procs -> Texts]
    /\ copied \in [Procs -> SUBSET Ids]
    /\ today \in Days /\ ops \in Nat /\ edits \in Nat
    /\ acked \subseteq Jobs
    /\ raced \in BOOLEAN
    /\ \A p \in Procs : pc[p] # "idle" => job[p] # None

\* The temporary file a process is about to rename holds that process's own
\* complete text, although all processes write to the same name.
OwnTextPublished == \A p \in Procs : pc[p] = "written" => tmp = text[p]

Listed(j) == \E i \in DOMAIN ReadMemory : ReadMemory[i].id = j.id /\ ReadMemory[i].fact = j.fact
Adds == {j \in acked : j.kind \in {"add", "supersede"}}

\* As long as every operation replaced the text it had read, the facts whose add
\* or supersede returned are in the file, under ids of their own: nothing but a
\* stale read loses a fact, no crash and no scaffold does.
AckedFactsKept ==
    ~raced => /\ \A j \in Adds : Listed(j)
              /\ \A j, k \in Adds : j.id = k.id => j = k

\* Under the same condition, an entry stays inactive once its expire or supersede
\* has returned.
EndedStayInactive ==
    ~raced => \A j \in acked : j.target # None /\ j.kind # "edit" =>
        \A i \in DOMAIN ReadMemory :
            ReadMemory[i].id = j.target => ReadMemory[i].status # "active"

\* A write with expected hashes drops no entry that changed since it was read:
\* what it saw under the lock is copied before the file is replaced.
ChangedEntriesCopied ==
    \A p \in Procs :
        pc[p] \in {"writing", "written"} /\ job[p].kind = "edit" =>
            \A i \in DOMAIN seen[p] :
                LET b == seen[p][i] IN
                b.id \in IdsOf(base[p]) /\ b # Entry(base[p], b.id) /\ b = Entry(seen[p], b.id)
                => b \in conflicts

\* An operation ends: a lock is passed on when its owner returns or dies.
OperationsEnd == \A p \in Procs : pc[p] # "idle" ~> pc[p] = "idle"

\* "Durable facts": what memory_add has returned an id for is in MEMORY.md.
FactsAreDurable == \A j \in Adds : Listed(j)
=============================================================================
