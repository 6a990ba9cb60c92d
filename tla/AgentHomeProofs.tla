-------------------------- MODULE AgentHomeProofs --------------------------
(* Proofs about AgentHome, for any number of processes, agents, commands and *)
(* edits: what the registry and the keys promise, then what the pointer      *)
(* files promise, and last the types of the files and the commands.          *)
EXTENDS AgentHome, FiniteSetTheorems, SequenceTheorems, WellFoundedInduction, TLAPS

FilePlaces == {"open file", "write file"}
RegistryPlaces == {"sync", "register", "open", "write", "replace"}
KeyPlaces == {"keys", "open keys", "write keys"}

\* What a process has loaded and computed, by the file it is for.
RegistryWork(r) ==
    /\ r.for \in {"sync", "register"} /\ r.new \in Records
    /\ r.for = "sync" /\ r.old # None => r.new = r.old
    /\ r.for = "register" => r.new.listed
KeyWork(r, c) == r.old # Torn /\ r.new = WithKey(r.old, c.agent, c.serial)
Work ==
    /\ {registry, tmp} \subseteq Records \cup {None, Torn} /\ touched \in [Procs -> SUBSET Files]
    /\ pc \in [Procs -> Files \cup {"idle"} \cup FilePlaces \cup RegistryPlaces \cup KeyPlaces]
    /\ DOMAIN reg = Procs /\ DOMAIN cmd = Procs /\ DOMAIN fd = Procs /\ DOMAIN issued = Agents
    /\ \A p \in Procs :
          /\ pc[p] \in {"open", "write", "replace"} => RegistryWork(reg[p])
          /\ pc[p] \in KeyPlaces => cmd[p].agent \in Agents
          /\ pc[p] \in {"open keys", "write keys"} => KeyWork(reg[p], cmd[p])

\* One process at a time has the temporary file, and knows what is in it.
Saving ==
    ~overlapped =>
        /\ registry # Torn
        /\ \A p, q \in Procs : pc[p] \in {"write", "replace"} /\ pc[q] \in {"write", "replace"} => p = q
        /\ \A p \in Procs :
              /\ fd[p] = IF pc[p] = "write" THEN "tmp" ELSE "none"
              /\ pc[p] = "write" => tmp = Torn
              /\ pc[p] = "replace" => tmp = reg[p].new

\* A key file has the keys last printed.
Good(k) == \A a \in Agents : issued[a] # None => a \in DOMAIN k /\ k[a] = issued[a]

Keying ==
    ~raced /\ ~overlapped =>
        /\ keys # Torn => Good(keys)
        /\ \A p, q \in Procs : pc[p] = "write keys" /\ pc[q] = "write keys" => p = q
        /\ \A p \in Procs : pc[p] = "write keys" => keys = Torn /\ Good(reg[p].old)

HomeInv == Work /\ Saving /\ Keying /\ RegistrationKept

-----------------------------------------------------------------------------

LEMMA MinOfThree ==
  ASSUME NEW S, S \subseteq 1..3, S # {} PROVE Min(S) \in S
  <1>1. \E x \in S : \A y \in S : x <= y
    <2>1. CASE 1 \in S BY <2>1
    <2>2. CASE 1 \notin S /\ 2 \in S BY <2>2
    <2>3. CASE 1 \notin S /\ 2 \notin S
      <3>1. PICK x : x \in S OBVIOUS
      <3>2. \A y \in S : y = 3 BY <2>3
      <3> QED BY <3>1, <3>2
    <2> QED BY <2>1, <2>2, <2>3
  <1> QED BY <1>1 DEF Min

\* The pointer files lead to each other and to the registry.
LEMMA NextFileFacts ==
  ASSUME NEW n \in 1..4 PROVE NextFile(n) \in Files \cup {"sync"}
  <1> DEFINE left == {k \in n..3 : Order[k] \in Files}
  <1>1. left \subseteq 1..3 OBVIOUS
  <1>2. left # {} => Min(left) \in left
    <2> HIDE DEF left
    <2> QED BY <1>1, MinOfThree
  <1> QED BY <1>2 DEF NextFile

LEMMA FileFacts ==
  /\ Files \cap ({"idle"} \cup FilePlaces \cup RegistryPlaces \cup KeyPlaces) = {}
  /\ NextFile(1) \in Files \cup {"sync"}
  /\ \A f \in Files : After(f) \in Files \cup {"sync"}
  <1>1. \A f \in Files : \E k \in 1..3 : f = Order[k]
    BY HomeConstants DEF HomeConstants, Range, Order
  <1>2. ASSUME NEW f \in Files PROVE After(f) \in Files \cup {"sync"}
    <2> DEFINE n == CHOOSE n \in 1..3 : Order[n] = f
    <2>1. n \in 1..3 BY <1>1
    <2> HIDE DEF n
    <2>2. NextFile(1 + n) \in Files \cup {"sync"} BY <2>1, NextFileFacts
    <2> QED BY <2>2 DEF After, n
  <1>3. NextFile(1) \in Files \cup {"sync"} BY NextFileFacts
  <1>4. Files \cap ({"idle"} \cup FilePlaces \cup RegistryPlaces \cup KeyPlaces) = {}
    <2>1. \A f \in Files : f \in {"AGENTS.md", "CLAUDE.md", "cz-home.mdc"}
      BY <1>1 DEF Order
    <2> QED BY <2>1 DEF FilePlaces, RegistryPlaces, KeyPlaces
  <1> QED BY <1>2, <1>3, <1>4

\* Nobody begins to write keys, and nothing else of the keys changes.
LEMMA KeyingFrame ==
  ASSUME Keying, UNCHANGED <<keys, issued>>, raced => raced', overlapped => overlapped',
         \A q \in Procs : pc'[q] = "write keys" => pc[q] = "write keys" /\ reg'[q] = reg[q]
  PROVE  Keying'
  <1> SUFFICES ASSUME ~raced', ~overlapped' PROVE Keying' BY DEF Keying
  <1>1. keys' # Torn => Good(keys)' BY DEF Keying, Good
  <1>2. ASSUME NEW q \in Procs, pc'[q] = "write keys" PROVE keys' = Torn /\ Good(reg[q].old)'
    <2>1. reg'[q] = reg[q] /\ pc[q] = "write keys" BY <1>2
    <2>2. keys = Torn /\ Good(reg[q].old) BY <2>1 DEF Keying
    <2> QED BY <2>1, <2>2 DEF Good
  <1>3. \A q, s \in Procs : pc'[q] = "write keys" /\ pc'[s] = "write keys" => q = s
    BY DEF Keying
  <1> QED BY <1>1, <1>2, <1>3 DEF Keying

Outside == Files \cup {"idle", "sync", "register", "keys"} \cup FilePlaces

\* A process that goes to a place where it has nothing in hand.
LEMMA GoesOutside ==
  ASSUME HomeInv, NEW p \in Procs, NEW to \in Outside, pc' = [pc EXCEPT ![p] = to],
         UNCHANGED <<registry, tmp, keys, issued, registered, raced, overlapped>>,
         DOMAIN reg' = Procs, DOMAIN cmd' = Procs, DOMAIN fd' = Procs,
         \A q \in Procs : q # p => reg'[q] = reg[q] /\ cmd'[q] = cmd[q] /\ fd'[q] = fd[q],
         to = "keys" => cmd'[p].agent \in Agents,
         fd'[p] = "none" \/ (fd'[p] = fd[p] /\ pc[p] # "write"),
         touched' \in [Procs -> SUBSET Files]
  PROVE  HomeInv'
  <1> USE DEF HomeInv
  <1>1. to \notin {"open", "write", "replace", "open keys", "write keys"}
    BY FileFacts DEF Outside, FilePlaces, RegistryPlaces, KeyPlaces
  <1>2. pc'[p] = to /\ \A q \in Procs : q # p => pc'[q] = pc[q] BY DEF Work
  <1>3. pc' \in [Procs -> Files \cup {"idle"} \cup FilePlaces \cup RegistryPlaces \cup KeyPlaces]
    BY DEF Work, Outside, RegistryPlaces, KeyPlaces
  <1>4. \A q \in Procs :
          /\ pc'[q] \in {"open", "write", "replace", "open keys", "write keys"} =>
                q # p /\ pc'[q] = pc[q] /\ reg'[q] = reg[q] /\ cmd'[q] = cmd[q] /\ fd'[q] = fd[q]
          /\ pc'[q] \in KeyPlaces => cmd'[q].agent \in Agents
    BY <1>1, <1>2 DEF Work, KeyPlaces
  <1>5. Work'
    <2>1. ASSUME NEW q \in Procs
          PROVE  /\ pc'[q] \in {"open", "write", "replace"} => RegistryWork(reg'[q])
                 /\ pc'[q] \in {"open keys", "write keys"} => KeyWork(reg'[q], cmd'[q])
      BY <1>4 DEF Work
    <2> QED BY <1>3, <1>4, <2>1 DEF Work
  <1>6. Saving'
    <2> SUFFICES ASSUME ~overlapped PROVE Saving' BY DEF Saving
    <2>1. \A q \in Procs : fd'[q] = IF pc'[q] = "write" THEN "tmp" ELSE "none"
      BY <1>1, <1>2 DEF Saving
    <2>2. \A q, s \in Procs :
            pc'[q] \in {"write", "replace"} /\ pc'[s] \in {"write", "replace"} => q = s
      BY <1>4 DEF Saving
    <2>3. ASSUME NEW q \in Procs
          PROVE  (pc'[q] = "write" => tmp' = Torn) /\ (pc'[q] = "replace" => tmp' = reg'[q].new)
      BY <1>4 DEF Saving
    <2> QED BY <2>1, <2>2, <2>3 DEF Saving
  <1>7. Keying' BY <1>4, KeyingFrame
  <1>8. RegistrationKept' BY DEF RegistrationKept
  <1> QED BY <1>5, <1>6, <1>7, <1>8

\* The steps of a process at a pointer file.
PointerStep(p, f) ==
    Refuse(p, f) \/ KeepPointer(p, f) \/ ReadPointer(p, f) \/ OpenPointer(p, f) \/ WritePointer(p, f)

\* What becomes of a process that is done with a file, or refuses it.
Passed(p, to) ==
    /\ to \in Files \cup {"sync", "idle"} /\ pc' = [pc EXCEPT ![p] = to]
    /\ reg' = [reg EXCEPT ![p] = None] /\ touched' \in [Procs -> SUBSET Files]
    /\ \/ to = "idle" /\ cmd' = [cmd EXCEPT ![p] = None] /\ fd' = [fd EXCEPT ![p] = "none"]
       \/ UNCHANGED <<cmd, fd>>

LEMMA Passes ==
  ASSUME HomeInv, NEW p \in Procs, NEW f \in Files,
         Refuse(p, f) \/ KeepPointer(p, f) \/ WritePointer(p, f)
  PROVE  \E to : Passed(p, to)
  <1>1. touched \in [Procs -> SUBSET Files] BY DEF HomeInv, Work
  <1>2. ASSUME Stop(p) PROVE Passed(p, "idle") BY <1>1, <1>2 DEF Stop, Goto, Passed
  <1>3. ASSUME NEW found \in SUBSET Files, PassFile(p, f, found) PROVE \E to : Passed(p, to)
    <2>1. CASE Stop(p) BY <1>2, <2>1
    <2>2. CASE /\ Goto(p, After(f)) /\ reg' = [reg EXCEPT ![p] = None]
               /\ touched' = [touched EXCEPT ![p] = found] /\ UNCHANGED <<cmd, fd>>
      <3>1. After(f) \in Files \cup {"sync", "idle"} BY FileFacts
      <3>2. touched' \in [Procs -> SUBSET Files] BY <1>1, <2>2
      <3>3. Passed(p, After(f)) BY <2>2, <3>1, <3>2 DEF Goto, Passed
      <3> QED BY <3>3
    <2> QED BY <1>3, <2>1, <2>2 DEF PassFile
  <1>4. touched[p] \in SUBSET Files /\ touched[p] \cup {f} \in SUBSET Files BY <1>1
  <1>5. CASE Refuse(p, f) BY <1>2, <1>5 DEF Refuse
  <1>6. CASE KeepPointer(p, f) BY <1>3, <1>4, <1>6 DEF KeepPointer
  <1>7. CASE WritePointer(p, f) BY <1>3, <1>4, <1>7 DEF WritePointer
  <1> QED BY <1>5, <1>6, <1>7

\* Commands begin, end, die, and go through the pointer files.
LEMMA QuietSteps ==
  ASSUME HomeInv, NEW p \in Procs,
         \/ HomeInit(p) \/ HomeUninstall(p) \/ HomeSync(p) \/ IssueKey(p) \/ Crash(p)
         \/ \E f \in Files : PointerStep(p, f)
         \/ Load(p) /\ registry = Torn
         \/ LoadKeys(p) /\ keys = Torn
  PROVE  HomeInv'
  <1> USE DEF store_vars, files_vars
  <1>1. /\ pc \in [Procs -> Files \cup {"idle"} \cup FilePlaces \cup RegistryPlaces \cup KeyPlaces]
        /\ DOMAIN reg = Procs /\ DOMAIN cmd = Procs /\ DOMAIN fd = Procs
        /\ touched \in [Procs -> SUBSET Files]
    BY DEF HomeInv, Work
  <1>2. ASSUME NEW kind, NEW yes, NEW agent, NEW at \in Outside, Start(p, kind, yes, agent, at),
               at = "keys" => agent \in Agents
        PROVE  HomeInv'
    <2>1. /\ pc' = [pc EXCEPT ![p] = at] /\ pc[p] = "idle" /\ fd' = fd
          /\ cmd' = [cmd EXCEPT ![p] = [kind |-> kind, yes |-> yes, agent |-> agent,
                                        serial |-> IF kind = "key" THEN ops ELSE 0]]
          /\ UNCHANGED <<registry, tmp, keys, issued, registered, raced, overlapped, reg, touched>>
      BY <1>2 DEF Start, Goto
    <2>2. cmd'[p].agent = agent /\ DOMAIN cmd' = Procs
          /\ \A q \in Procs : q # p => cmd'[q] = cmd[q]
      BY <1>1, <2>1
    <2> QED BY <1>1, <1>2, <2>1, <2>2, GoesOutside
  <1>3. ASSUME Stop(p),
               UNCHANGED <<registry, tmp, keys, issued, registered, raced, overlapped>>
        PROVE  HomeInv'
    <2>1. /\ pc' = [pc EXCEPT ![p] = "idle"] /\ cmd' = [cmd EXCEPT ![p] = None]
          /\ reg' = [reg EXCEPT ![p] = None] /\ fd' = [fd EXCEPT ![p] = "none"]
          /\ touched' = [touched EXCEPT ![p] = {}]
      BY <1>3 DEF Stop, Goto
    <2>2. /\ DOMAIN reg' = Procs /\ DOMAIN cmd' = Procs /\ DOMAIN fd' = Procs /\ fd'[p] = "none"
          /\ touched' \in [Procs -> SUBSET Files]
          /\ \A q \in Procs : q # p => reg'[q] = reg[q] /\ cmd'[q] = cmd[q] /\ fd'[q] = fd[q]
      BY <1>1, <2>1
    <2>3. "idle" \in Outside BY DEF Outside
    <2> QED BY <1>3, <2>1, <2>2, <2>3, GoesOutside
  <1>4. ASSUME NEW f \in Files, PointerStep(p, f) PROVE HomeInv'
    <2>1. UNCHANGED <<registry, tmp, keys, issued, registered, raced, overlapped>>
      BY <1>4 DEF PointerStep, Refuse, KeepPointer, ReadPointer, OpenPointer, WritePointer
    <2>2. pc[p] # "write"
      <3>1. f # "write" BY FileFacts DEF RegistryPlaces
      <3> QED BY <1>4, <3>1
            DEF PointerStep, Refuse, KeepPointer, ReadPointer, Handles, OpenPointer, WritePointer, Writing
    <2>3. CASE Refuse(p, f) \/ KeepPointer(p, f) \/ WritePointer(p, f)
      <3>1. PICK to : Passed(p, to) BY <2>3, Passes
      <3>2. to \in Outside /\ to # "keys" BY <3>1, FileFacts DEF Passed, Outside, KeyPlaces
      <3>3. /\ pc' = [pc EXCEPT ![p] = to] /\ touched' \in [Procs -> SUBSET Files]
            /\ DOMAIN reg' = Procs /\ DOMAIN cmd' = Procs /\ DOMAIN fd' = Procs
            /\ \A q \in Procs : q # p => reg'[q] = reg[q] /\ cmd'[q] = cmd[q] /\ fd'[q] = fd[q]
            /\ fd'[p] = "none" \/ fd'[p] = fd[p]
        BY <1>1, <3>1 DEF Passed
      <3> QED BY <2>1, <2>2, <3>2, <3>3, GoesOutside
    <2>4. CASE ReadPointer(p, f) \/ OpenPointer(p, f)
      <3>1. PICK to \in FilePlaces : Goto(p, to) BY <2>4 DEF ReadPointer, OpenPointer, FilePlaces
      <3>2. to \in Outside /\ to # "keys" BY <3>1 DEF Outside, FilePlaces
      <3>3. /\ UNCHANGED <<cmd, fd, touched>> /\ DOMAIN reg' = Procs
            /\ \A q \in Procs : q # p => reg'[q] = reg[q]
        BY <1>1, <2>4 DEF ReadPointer, OpenPointer
      <3>4. pc' = [pc EXCEPT ![p] = to] BY <3>1 DEF Goto
      <3> QED BY <1>1, <2>1, <2>2, <3>2, <3>3, <3>4, GoesOutside
    <2> QED BY <1>4, <2>3, <2>4 DEF PointerStep
  <1>5. CASE HomeInit(p) \/ HomeUninstall(p) \/ HomeSync(p) \/ IssueKey(p)
    <2>1. PICK kind, yes, agent, at :
            /\ Start(p, kind, yes, agent, at)
            /\ at \in {NextFile(1), "sync"} \/ (at = "keys" /\ agent \in Agents)
      BY <1>5 DEF HomeInit, HomeUninstall, HomeSync, IssueKey
    <2>2. NextFile(1) \in Outside /\ NextFile(1) # "keys" BY FileFacts DEF Outside, KeyPlaces
    <2>3. at \in Outside /\ (at = "keys" => agent \in Agents) BY <2>1, <2>2 DEF Outside
    <2> QED BY <1>2, <2>1, <2>3
  <1>6. CASE Crash(p) BY <1>3, <1>6 DEF Crash
  <1>7. CASE \E f \in Files : PointerStep(p, f) BY <1>4, <1>7
  <1>8. CASE Load(p) /\ registry = Torn BY <1>3, <1>8 DEF Load
  <1>9. CASE LoadKeys(p) /\ keys = Torn BY <1>3, <1>9 DEF LoadKeys
  <1> QED BY <1>5, <1>6, <1>7, <1>8, <1>9

\* Loading the registry, or the keys.
LEMMA LoadSteps ==
  ASSUME HomeInv, NEW p \in Procs,
         (Load(p) /\ registry # Torn) \/ (LoadKeys(p) /\ keys # Torn)
  PROVE  HomeInv'
  <1> USE DEF HomeInv
  <1>1. /\ UNCHANGED <<registry, tmp, keys, issued, registered, raced, overlapped, cmd, fd, touched>>
        /\ \A q \in Procs : q # p => pc'[q] = pc[q] /\ reg'[q] = reg[q]
        /\ DOMAIN reg' = Procs
        /\ pc' \in [Procs -> Files \cup {"idle"} \cup FilePlaces \cup RegistryPlaces \cup KeyPlaces]
    BY DEF Load, LoadKeys, Goto, files_vars, Work, RegistryPlaces, KeyPlaces
  <1>2. \/ pc'[p] = "open" /\ RegistryWork(reg'[p]) /\ pc[p] \in {"sync", "register"}
        \/ pc'[p] = "open keys" /\ KeyWork(reg'[p], cmd[p]) /\ pc[p] = "keys"
    <2>1. CASE Load(p) /\ registry # Torn
      <3>1. /\ pc[p] \in {"sync", "register"} /\ pc'[p] = "open"
            /\ reg'[p] = [for |-> pc[p], old |-> registry,
                          new |-> IF pc[p] = "sync" THEN Loaded ELSE [listed |-> TRUE, pointers |-> touched[p]]]
        BY <2>1 DEF Load, Goto, Work
      <3>2. Loaded \in Records /\ (registry # None => Loaded = registry)
        BY <2>1 DEF Loaded, Records, Work
      <3>3. [listed |-> TRUE, pointers |-> touched[p]] \in Records
        BY DEF Records, Work
      <3> QED BY <3>1, <3>2, <3>3 DEF RegistryWork
    <2>2. CASE LoadKeys(p) /\ keys # Torn
      <3>1. /\ pc[p] = "keys" /\ pc'[p] = "open keys"
            /\ reg'[p] = [for |-> "key", old |-> keys,
                          new |-> WithKey(keys, cmd[p].agent, cmd[p].serial)]
        BY <2>2 DEF LoadKeys, Goto, Work
      <3>2. reg'[p].old = keys /\ reg'[p].new = WithKey(keys, cmd[p].agent, cmd[p].serial)
        <4> DEFINE w == WithKey(keys, cmd[p].agent, cmd[p].serial)
        <4>1. reg'[p] = [for |-> "key", old |-> keys, new |-> w] BY <3>1
        <4> HIDE DEF w
        <4>2. reg'[p].old = keys /\ reg'[p].new = w BY <4>1
        <4> QED BY <4>2 DEF w
      <3>3. KeyWork(reg'[p], cmd[p]) BY <2>2, <3>2 DEF KeyWork
      <3> QED BY <3>1, <3>3
    <2> QED BY <2>1, <2>2
  <1>3. Work'
    <2>1. ASSUME NEW q \in Procs
          PROVE  /\ pc'[q] \in {"open", "write", "replace"} => RegistryWork(reg'[q])
                 /\ pc'[q] \in KeyPlaces => cmd'[q].agent \in Agents
                 /\ pc'[q] \in {"open keys", "write keys"} => KeyWork(reg'[q], cmd'[q])
      <3>1. CASE q = p BY <1>1, <1>2, <3>1 DEF Work, KeyPlaces
      <3>2. CASE q # p BY <1>1, <3>2 DEF Work
      <3> QED BY <3>1, <3>2
    <2> QED BY <1>1, <2>1 DEF Work
  <1>4. Saving'
    <2>1. pc[p] # "write" /\ pc'[p] \notin {"write", "replace"} BY <1>2
    <2> QED BY <1>1, <2>1 DEF Saving
  <1>5. Keying'
    <2>1. pc'[p] # "write keys" BY <1>2
    <2> QED BY <1>1, <2>1, KeyingFrame
  <1>6. RegistrationKept' BY <1>1 DEF RegistrationKept
  <1> QED BY <1>3, <1>4, <1>5, <1>6

\* The temporary file is opened and written.
LEMMA TmpSteps ==
  ASSUME HomeInv, NEW p \in Procs, OpenTmp(p) \/ WriteTmp(p)
  PROVE  HomeInv'
  <1> USE DEF HomeInv
  <1>1. /\ UNCHANGED <<keys, issued, registered, raced, reg, cmd, touched>>
        /\ \A q \in Procs : q # p => pc'[q] = pc[q] /\ fd'[q] = fd[q]
        /\ pc[p] \in {"open", "write"} /\ pc'[p] \in {"write", "replace"} /\ DOMAIN fd' = Procs
        /\ pc' \in [Procs -> Files \cup {"idle"} \cup FilePlaces \cup RegistryPlaces \cup KeyPlaces]
    BY DEF OpenTmp, WriteTmp, Goto, files_vars, Work, RegistryPlaces
  <1>2. RegistryWork(reg[p]) BY <1>1 DEF Work
  <1>3. {registry', tmp'} \subseteq Records \cup {None, Torn}
    BY <1>2 DEF OpenTmp, OpenedTmp, WriteTmp, Over, Work, RegistryWork
  <1>4. Work'
    <2>1. ASSUME NEW q \in Procs
          PROVE  /\ pc'[q] \in {"open", "write", "replace"} => RegistryWork(reg'[q])
                 /\ pc'[q] \in KeyPlaces => cmd'[q].agent \in Agents
                 /\ pc'[q] \in {"open keys", "write keys"} => KeyWork(reg'[q], cmd'[q])
      <3>1. CASE q = p BY <1>1, <1>2, <3>1 DEF KeyPlaces
      <3>2. CASE q # p BY <1>1, <3>2 DEF Work
      <3> QED BY <3>1, <3>2
    <2> QED BY <1>1, <1>3, <2>1 DEF Work
  <1>5. ~overlapped' => ~overlapped /\ UNCHANGED registry /\ Saving'
    <2> SUFFICES ASSUME ~overlapped' PROVE ~overlapped /\ UNCHANGED registry /\ Saving'
      OBVIOUS
    <2>1. ~overlapped BY DEF OpenTmp, WriteTmp
    <2>2. \A q \in Procs \ {p} : pc'[q] \notin {"write", "replace"}
      <3>1. CASE OpenTmp(p) BY <1>1, <3>1 DEF OpenTmp, Others
      <3>2. CASE WriteTmp(p) BY <1>1, <2>1, <3>2 DEF WriteTmp, Saving
      <3> QED BY <3>1, <3>2
    <2>3. /\ UNCHANGED registry
          /\ fd'[p] = IF pc'[p] = "write" THEN "tmp" ELSE "none"
          /\ tmp' = IF pc'[p] = "write" THEN Torn ELSE reg[p].new
      <3>1. CASE OpenTmp(p) BY <3>1 DEF OpenTmp, OpenedTmp, Goto, Work
      <3>2. CASE WriteTmp(p)
        <4>1. fd[p] = "tmp" /\ tmp = Torn BY <2>1, <3>2 DEF WriteTmp, Saving
        <4> QED BY <3>2, <4>1 DEF WriteTmp, Over, Goto, Work
      <3> QED BY <3>1, <3>2
    <2> QED BY <1>1, <2>1, <2>2, <2>3 DEF Saving
  <1>6. Saving' BY <1>5 DEF Saving
  <1>7. Keying' BY <1>1, <1>5, KeyingFrame
  <1>8. RegistrationKept' BY <1>1, <1>5 DEF RegistrationKept
  <1> QED BY <1>4, <1>6, <1>7, <1>8

\* The temporary file becomes the registry.
LEMMA ReplaceStep ==
  ASSUME HomeInv, NEW p \in Procs, ReplaceTmp(p)
  PROVE  HomeInv'
  <1> USE DEF HomeInv
  <1>1. CASE tmp = None
    <2>1. /\ UNCHANGED <<registry, tmp, keys, issued, registered, raced, overlapped>>
          /\ pc' = [pc EXCEPT ![p] = "idle"] /\ cmd' = [cmd EXCEPT ![p] = None]
          /\ reg' = [reg EXCEPT ![p] = None] /\ fd' = [fd EXCEPT ![p] = "none"]
          /\ touched' = [touched EXCEPT ![p] = {}]
      BY <1>1 DEF ReplaceTmp, Stop, Goto
    <2>2. /\ DOMAIN reg' = Procs /\ DOMAIN cmd' = Procs /\ DOMAIN fd' = Procs /\ fd'[p] = "none"
          /\ touched' \in [Procs -> SUBSET Files]
          /\ \A q \in Procs : q # p => reg'[q] = reg[q] /\ cmd'[q] = cmd[q] /\ fd'[q] = fd[q]
      BY <2>1 DEF Work
    <2>3. "idle" \in Outside BY DEF Outside
    <2> QED BY <2>1, <2>2, <2>3, GoesOutside
  <1>2. CASE tmp # None
    <2>1. /\ pc[p] = "replace" /\ registry' = tmp /\ tmp' = None
          /\ raced' = (raced \/ registry # reg[p].old)
          /\ registered' = (registered \/ reg[p].for = "register")
          /\ fd' = [q \in Procs |-> Renamed(fd[q])]
          /\ UNCHANGED <<keys, issued, overlapped>>
      BY <1>2 DEF ReplaceTmp
    <2>2. /\ pc'[p] \in {"register", "idle"} /\ DOMAIN cmd' = Procs /\ DOMAIN reg' = Procs
          /\ pc' \in [Procs -> Files \cup {"idle"} \cup FilePlaces \cup RegistryPlaces \cup KeyPlaces]
          /\ touched' \in [Procs -> SUBSET Files]
          /\ \A q \in Procs : q # p => pc'[q] = pc[q] /\ reg'[q] = reg[q] /\ cmd'[q] = cmd[q]
      <3>1. CASE StillRegisters(p)
        BY <1>2, <3>1 DEF ReplaceTmp, Goto, Work, RegistryPlaces
      <3>2. CASE ~StillRegisters(p)
        BY <1>2, <3>2 DEF ReplaceTmp, Goto, Work
      <3> QED BY <3>1, <3>2
    <2>3. RegistryWork(reg[p]) BY <2>1 DEF Work
    <2>4. Work'
      <3>1. ASSUME NEW q \in Procs
            PROVE  /\ pc'[q] \in {"open", "write", "replace"} => RegistryWork(reg'[q])
                   /\ pc'[q] \in KeyPlaces => cmd'[q].agent \in Agents
                   /\ pc'[q] \in {"open keys", "write keys"} => KeyWork(reg'[q], cmd'[q])
        <4>1. CASE q = p BY <2>2, <4>1 DEF KeyPlaces
        <4>2. CASE q # p BY <2>2, <4>2 DEF Work
        <4> QED BY <4>1, <4>2
      <3> QED BY <2>1, <2>2, <3>1 DEF Work
    <2>5. ASSUME ~overlapped PROVE tmp = reg[p].new /\ \A q \in Procs : fd'[q] = "none"
      <3>1. \A q \in Procs : fd[q] = "none" BY <2>1, <2>5 DEF Saving
      <3> QED BY <2>1, <2>5, <3>1 DEF Saving, Renamed
    <2>6. Torn \notin Records /\ None \notin Records BY HomeConstants DEF HomeConstants
    <2>7. Saving'
      <3> SUFFICES ASSUME ~overlapped PROVE Saving' BY <2>1 DEF Saving
      <3>1. \A q \in Procs : pc'[q] \notin {"write", "replace"} BY <2>1, <2>2 DEF Saving
      <3>2. registry' # Torn BY <2>1, <2>3, <2>5, <2>6 DEF RegistryWork
      <3> QED BY <2>5, <3>1, <3>2 DEF Saving
    <2>8. Keying' BY <2>1, <2>2, KeyingFrame
    <2>9. RegistrationKept'
      <3> SUFFICES ASSUME registered', ~raced', ~overlapped PROVE registry' \notin {None, Torn} /\ registry'.listed
        BY <2>1 DEF RegistrationKept
      <3>1. registry' = reg[p].new /\ registry = reg[p].old /\ ~raced BY <2>1, <2>5
      <3>2. registry' \in Records BY <2>3, <3>1 DEF RegistryWork
      <3>3. CASE reg[p].for = "register" BY <2>3, <2>6, <3>1, <3>2, <3>3 DEF RegistryWork
      <3>4. CASE reg[p].for = "sync"
        <4>1. registry \notin {None, Torn} /\ registry.listed
          BY <2>1, <3>1, <3>4 DEF RegistrationKept
        <4> QED BY <2>3, <2>6, <3>1, <3>2, <3>4, <4>1 DEF RegistryWork
      <3> QED BY <2>3, <3>3, <3>4 DEF RegistryWork
    <2> QED BY <2>4, <2>7, <2>8, <2>9
  <1> QED BY <1>1, <1>2

\* The keys are opened, and written.
LEMMA OpenKeysStep ==
  ASSUME HomeInv, NEW p \in Procs, OpenKeys(p)
  PROVE  HomeInv'
  <1> USE DEF HomeInv
  <1>1. /\ pc[p] = "open keys" /\ keys' = Torn
        /\ raced' = (raced \/ keys # reg[p].old)
        /\ overlapped' = (overlapped \/ Others(p, {"write keys"}))
        /\ pc' = [pc EXCEPT ![p] = "write keys"]
        /\ UNCHANGED <<registry, tmp, reg, fd, issued, registered, cmd, touched>>
    BY DEF OpenKeys, Goto
  <1>2. pc'[p] = "write keys" /\ \A q \in Procs : q # p => pc'[q] = pc[q]
    BY <1>1 DEF Work
  <1>3. KeyWork(reg[p], cmd[p]) /\ cmd[p].agent \in Agents BY <1>1 DEF Work, KeyPlaces
  <1>4. pc' \in [Procs -> Files \cup {"idle"} \cup FilePlaces \cup RegistryPlaces \cup KeyPlaces]
    BY <1>1 DEF Work, KeyPlaces
  <1>5. Work'
    <2>1. ASSUME NEW q \in Procs
          PROVE  /\ pc'[q] \in {"open", "write", "replace"} => RegistryWork(reg[q])
                 /\ pc'[q] \in KeyPlaces => cmd[q].agent \in Agents
                 /\ pc'[q] \in {"open keys", "write keys"} => KeyWork(reg[q], cmd[q])
      <3>1. CASE q = p BY <1>2, <1>3, <3>1
      <3>2. CASE q # p BY <1>2, <3>2 DEF Work
      <3> QED BY <3>1, <3>2
    <2> QED BY <1>1, <1>4, <2>1 DEF Work
  <1>6. Saving' BY <1>1, <1>2 DEF Saving
  <1>7. RegistrationKept' BY <1>1 DEF RegistrationKept
  <1>8. Keying'
    <2> SUFFICES ASSUME ~raced', ~overlapped' PROVE Keying' BY DEF Keying
    <2>1. ~raced /\ ~overlapped /\ keys = reg[p].old BY <1>1
    <2>2. Good(reg[p].old) BY <1>3, <2>1 DEF Keying, KeyWork
    <2>3. \A q \in Procs : pc'[q] = "write keys" => q = p BY <1>1, <1>2 DEF Others
    <2>4. Good(reg[p].old)' BY <1>1, <2>2 DEF Good
    <2> QED BY <1>1, <2>3, <2>4 DEF Keying
  <1> QED BY <1>5, <1>6, <1>7, <1>8

LEMMA WriteKeysStep ==
  ASSUME HomeInv, NEW p \in Procs, WriteKeys(p)
  PROVE  HomeInv'
  <1> USE DEF HomeInv
  <1>1. /\ pc[p] = "write keys" /\ keys' \in Over(reg[p].new, keys)
        /\ issued' = [issued EXCEPT ![cmd[p].agent] = cmd[p].serial]
        /\ pc' = [pc EXCEPT ![p] = "idle"] /\ cmd' = [cmd EXCEPT ![p] = None]
        /\ reg' = [reg EXCEPT ![p] = None] /\ fd' = [fd EXCEPT ![p] = "none"]
        /\ touched' = [touched EXCEPT ![p] = {}]
        /\ UNCHANGED <<registry, tmp, registered, raced, overlapped>>
    BY DEF WriteKeys, Stop, Goto
  <1>2. KeyWork(reg[p], cmd[p]) /\ cmd[p].agent \in Agents BY <1>1 DEF Work, KeyPlaces
  <1>3. /\ pc'[p] = "idle" /\ fd'[p] = "none"
        /\ \A q \in Procs : q # p => pc'[q] = pc[q] /\ reg'[q] = reg[q] /\ cmd'[q] = cmd[q] /\ fd'[q] = fd[q]
        /\ DOMAIN reg' = Procs /\ DOMAIN cmd' = Procs /\ DOMAIN fd' = Procs /\ DOMAIN issued' = Agents
        /\ touched' \in [Procs -> SUBSET Files]
        /\ pc' \in [Procs -> Files \cup {"idle"} \cup FilePlaces \cup RegistryPlaces \cup KeyPlaces]
    BY <1>1 DEF Work
  <1>4. Work'
    <2>1. ASSUME NEW q \in Procs
          PROVE  /\ pc'[q] \in {"open", "write", "replace"} => RegistryWork(reg'[q])
                 /\ pc'[q] \in KeyPlaces => cmd'[q].agent \in Agents
                 /\ pc'[q] \in {"open keys", "write keys"} => KeyWork(reg'[q], cmd'[q])
      <3>1. CASE q = p BY <1>3, <3>1 DEF KeyPlaces
      <3>2. CASE q # p BY <1>3, <3>2 DEF Work
      <3> QED BY <3>1, <3>2
    <2> QED BY <1>1, <1>3, <2>1 DEF Work
  <1>5. Saving' BY <1>1, <1>3 DEF Saving
  <1>6. RegistrationKept' BY <1>1 DEF RegistrationKept
  <1>7. Keying'
    <2> SUFFICES ASSUME ~raced, ~overlapped PROVE Keying' BY <1>1 DEF Keying
    <2>1. keys' = reg[p].new /\ Good(reg[p].old) BY <1>1 DEF Keying, Over
    <2>2. \A q \in Procs : pc'[q] # "write keys" BY <1>1, <1>3 DEF Keying
    <2>3. Good(keys)'
      <3> DEFINE a == cmd[p].agent
                 k == reg[p].old
      <3>1. keys' = [x \in {a} \cup DOMAIN k |->
                       IF x = a THEN cmd[p].serial ELSE k[x]]
        BY <1>2, <2>1 DEF KeyWork, WithKey
      <3>2. \A b \in Agents : issued'[b] = IF b = a THEN cmd[p].serial ELSE issued[b]
        BY <1>1 DEF Work
      <3> QED BY <1>2, <2>1, <3>1, <3>2 DEF Good
    <2> QED BY <2>2, <2>3 DEF Keying
  <1> QED BY <1>4, <1>5, <1>6, <1>7

LEMMA HomeBegins == Init => HomeInv
  <1> SUFFICES ASSUME Init PROVE HomeInv OBVIOUS
  <1>1. Work BY DEF Init, Work, RegistryPlaces, KeyPlaces
  <1>2. Saving BY HomeConstants DEF Init, Saving, HomeConstants
  <1>3. Keying BY DEF Init, Keying, Good
  <1>4. RegistrationKept BY DEF Init, RegistrationKept
  <1> QED BY <1>1, <1>2, <1>3, <1>4 DEF HomeInv

\* Nothing that is proved here depends on what the user does to the pointer files.
LEMMA UserSteps ==
  ASSUME HomeInv, UNCHANGED <<store_vars, pc, cmd, touched>>
  PROVE  HomeInv'
  <1>1. UNCHANGED <<registry, tmp, keys, reg, fd, issued, registered, raced, overlapped, pc, cmd, touched>>
    BY DEF store_vars
  <1>2. Work' BY <1>1 DEF HomeInv, Work
  <1>3. Saving' BY <1>1 DEF HomeInv, Saving
  <1>4. Keying' BY <1>1, KeyingFrame DEF HomeInv
  <1>5. RegistrationKept' BY <1>1 DEF HomeInv, RegistrationKept
  <1> QED BY <1>2, <1>3, <1>4, <1>5 DEF HomeInv

LEMMA HomeGoesOn == HomeInv /\ [Next]_vars => HomeInv'
  <1> SUFFICES ASSUME HomeInv, [Next]_vars PROVE HomeInv' OBVIOUS
  <1>1. CASE UNCHANGED vars BY <1>1, UserSteps DEF vars
  <1>2. ASSUME NEW f \in Files, AddLine(f) \/ Outdate(f) \/ DropEnd(f) \/ Track(f)
        PROVE  HomeInv'
    BY <1>2, UserSteps DEF AddLine, Outdate, DropEnd, Edit, Track
  <1>3. ASSUME NEW p \in Procs,
               HomeInit(p) \/ HomeUninstall(p) \/ HomeSync(p) \/ IssueKey(p) \/ Step(p) \/ Crash(p)
        PROVE  HomeInv'
    <2>1. CASE HomeInit(p) \/ HomeUninstall(p) \/ HomeSync(p) \/ IssueKey(p) \/ Crash(p)
      BY <2>1, QuietSteps
    <2>2. CASE \E f \in Files : PointerStep(p, f) BY <2>2, QuietSteps
    <2>3. CASE Load(p) BY <2>3, QuietSteps, LoadSteps
    <2>4. CASE LoadKeys(p) BY <2>4, QuietSteps, LoadSteps
    <2>5. CASE OpenTmp(p) \/ WriteTmp(p) BY <2>5, TmpSteps
    <2>6. CASE ReplaceTmp(p) BY <2>6, ReplaceStep
    <2>7. CASE OpenKeys(p) BY <2>7, OpenKeysStep
    <2>8. CASE WriteKeys(p) BY <2>8, WriteKeysStep
    <2> QED BY <1>3, <2>1, <2>2, <2>3, <2>4, <2>5, <2>6, <2>7, <2>8 DEF Step, PointerStep
  <1> QED BY <1>1, <1>2, <1>3 DEF Next

\* The strengthening of the three theorems below.
THEOREM HomeInvariant == Spec => []HomeInv
  BY HomeBegins, HomeGoesOn, PTL DEF Spec

\* A process that is killed between any two steps of a save leaves a registry that
\* can be read, as long as no two save at once: whoever writes the temporary file
\* has it alone, and os.replace only moves one that is completely written.
THEOREM RegistryIsReadable == Spec => []RegistryReadable
  <1>1. HomeInv => RegistryReadable BY DEF HomeInv, Saving, RegistryReadable
  <1> QED BY <1>1, HomeInvariant, PTL

\* A project that init has registered stays registered, as long as nobody saves a
\* registry that has changed since it was loaded.
THEOREM RegistrationIsKept == Spec => []RegistrationKept
  <1>1. HomeInv => RegistrationKept BY DEF HomeInv
  <1> QED BY <1>1, HomeInvariant, PTL

\* The key that issue printed last for an agent is the one in the file, as long as
\* issues do not overlap and the file is whole.
THEOREM PrintedKeysVerify == Spec => []KeyVerifies
  <1>1. HomeInv => KeyVerifies BY DEF HomeInv, Keying, Good, KeyVerifies
  <1> QED BY <1>1, HomeInvariant, PTL

-----------------------------------------------------------------------------
(* The pointer files.  Replaced is a recursive function; where the part to   *)
(* replace is there once, any function that satisfies its equation has one   *)
(* value, by a least place where two of them would differ.                   *)

\* The lines of the user and of the front matter.
Own == {"mine", "front"}

LEMMA LeastNumber ==
  ASSUME NEW T, T \subseteq Nat, T # {}
  PROVE  \E k \in T : \A l \in T : k <= l
  <1> DEFINE R == OpToRel(<, Nat)
  <1>1. IsWellFoundedOn(R, Nat) BY NatLessThanWellFounded
  <1>2. \A k, l \in Nat : k < l => <<k, l>> \in R BY DEF OpToRel
  <1> HIDE DEF R
  <1>3. PICK k \in T : \A l \in T : ~(<<l, k>> \in R) BY <1>1, WFMin
  <1>4. \A l \in T : ~(l < k) BY <1>2, <1>3
  <1>5. \A l \in T : l \in Nat OBVIOUS
  <1>6. \A l \in T : k <= l BY <1>4, <1>5
  <1> QED BY <1>6

\* The first line of a kind.
LEMMA PlaceFacts ==
  ASSUME NEW c, NEW from \in Nat, NEW line, Len(c) \in Nat
  PROVE  /\ (\A i \in from..Len(c) : c[i] # line) => Place(c, from, line) = 0
         /\ \A k \in from..Len(c) :
               c[k] = line /\ (\A i \in from..k - 1 : c[i] # line) => Place(c, from, line) = k
  <1> DEFINE S == {i \in from..Len(c) : c[i] = line}
  <1>1. Place(c, from, line) = IF S # {} THEN Min(S) ELSE 0 BY DEF Place, SelectInSubSeq
  <1>2. (\A i \in from..Len(c) : c[i] # line) => Place(c, from, line) = 0 BY <1>1
  <1>3. ASSUME NEW k \in from..Len(c), c[k] = line, \A i \in from..k - 1 : c[i] # line
        PROVE  Place(c, from, line) = k
    <2>1. k \in S /\ S \subseteq Nat BY <1>3
    <2>2. \A i \in S : k <= i
      <3> SUFFICES ASSUME NEW i \in S, ~(k <= i) PROVE FALSE OBVIOUS
      <3>1. i \in from..k - 1 OBVIOUS
      <3> QED BY <1>3, <3>1
    <2> HIDE DEF S
    <2>3. Min(S) = k
      <3>1. Min(S) \in S /\ \A i \in S : Min(S) <= i BY <2>1, <2>2 DEF Min
      <3>2. Min(S) <= k /\ k <= Min(S) /\ Min(S) \in Nat /\ k \in Nat BY <2>1, <2>2, <3>1
      <3> QED BY <3>2
    <2> QED BY <1>1, <2>1, <2>3
  <1> QED BY <1>2, <1>3

\* Of a sequence that is put together, the parts may be grouped either way.
Grouped(a, b, d) == (a \o b) \o d = a \o (b \o d)

LEMMA Associative ==
  ASSUME NEW S, NEW a \in Seq(S), NEW b \in Seq(S), NEW d \in Seq(S)
  PROVE  Grouped(a, b, d)
  BY DEF Grouped

\* part occurs once in c, at s.
OnlyAt(c, part, s) ==
    /\ s \in 1..Len(c) /\ Len(part) >= 1 /\ s + Len(part) - 1 <= Len(c)
    /\ \A i \in 1..Len(c) : IsPrefix(part, SubSeq(c, i, Len(c))) <=> i = s
ReplacedAt(c, part, by, s) ==
    Replaced(c, part, by) = SubSeq(c, 1, s - 1) \o (by \o SubSeq(c, s + Len(part), Len(c)))

\* str.replace, of a part that occurs once.
LEMMA ReplacedFacts ==
  ASSUME NEW S, NEW c \in Seq(S), NEW part \in Seq(S), NEW by \in Seq(S), NEW s, OnlyAt(c, part, s)
  PROVE  ReplacedAt(c, part, by, s)
  <1> DEFINE n == Len(part)
  <1>a. /\ n >= 1 /\ s \in 1..Len(c) /\ s + n - 1 <= Len(c) /\ n \in Nat
        /\ \A i \in 1..Len(c) : IsPrefix(part, SubSeq(c, i, Len(c))) <=> i = s
    BY DEF OnlyAt
  <1> DEFINE L == Len(c)
             Body(h, i) == IF i > L THEN <<>>
                           ELSE IF IsPrefix(part, SubSeq(c, i, L)) THEN by \o h[i + n] ELSE <<c[i]>> \o h[i + 1]
             tail == by \o SubSeq(c, s + n, L)
             G(i) == IF i <= s THEN SubSeq(c, i, s - 1) \o tail ELSE SubSeq(c, i, L)
             g == [i \in 1..L + 1 |-> G(i)]
  <1>0. L \in Nat /\ n \in Nat /\ n >= 1 /\ s \in Nat /\ 1 <= s /\ s <= L /\ s + n <= L + 1 /\ s + n \in Nat
    BY <1>a, LenProperties
  <1>1. Replaced(c, part, by) = (CHOOSE h : h = [i \in 1..L + 1 |-> Body(h, i)])[1] BY DEF Replaced
  <1>2. \A i \in 1..L : IsPrefix(part, SubSeq(c, i, L)) <=> i = s BY <1>a
  <1>c. \A i \in 1..L : c[i] \in S OBVIOUS
  <1>d. \A i \in 1..L : \A j \in i..L : SubSeq(c, i, j) = <<c[i]>> \o SubSeq(c, i + 1, j)
    BY SubSeqRecursiveFirst
  <1>e. \A i \in 1..L + 1, j \in 0..L : SubSeq(c, i, j) \in Seq(S)
    <2> SUFFICES ASSUME NEW i \in 1..L + 1, NEW j \in 0..L PROVE SubSeq(c, i, j) \in Seq(S) OBVIOUS
    <2>1. \A k \in i..j : c[k] \in S BY <1>0, <1>c
    <2> QED BY <1>0, <2>1, SubSeqProperties
  <1>f. \A i, j \in Nat : j < i => SubSeq(c, i, j) = <<>> BY SubSeqEmpty
  <1> HIDE DEF L, n
  <1>3. tail \in Seq(S)
    <2>0. s + n \in 1..L + 1 /\ L \in 0..L BY <1>0
    <2>1. SubSeq(c, s + n, L) \in Seq(S) BY <1>e, <2>0
    <2> QED BY <2>1, ConcatProperties
  <1>b. ASSUME NEW h PROVE /\ Body(h, L + 1) = <<>>
                           /\ Body(h, s) = by \o h[s + n]
                           /\ \A i \in 1..L : i # s => Body(h, i) = <<c[i]>> \o h[i + 1]
    <2>1. s \in 1..L /\ ~(s > L) /\ L + 1 > L BY <1>0
    <2>2. \A i \in 1..L : ~(i > L) BY <1>0
    <2>3. Body(h, L + 1) = <<>> BY <2>1
    <2>4. Body(h, s) = by \o h[s + n] BY <1>2, <2>1
    <2>5. ASSUME NEW i \in 1..L, i # s PROVE Body(h, i) = <<c[i]>> \o h[i + 1] BY <1>2, <2>2, <2>5
    <2> QED BY <2>3, <2>4, <2>5
  <1> HIDE DEF Body
  <1>4. G(L + 1) = <<>>
    <2>0. ~(L + 1 <= s) BY <1>0
    <2>1. G(L + 1) = SubSeq(c, L + 1, L) BY <2>0
    <2>2. SubSeq(c, L + 1, L) = <<>> BY <1>0, <1>f
    <2> QED BY <2>1, <2>2
  <1>5. G(s) = by \o G(s + n)
    <2>1. G(s) = SubSeq(c, s, s - 1) \o tail BY <1>0
    <2>2. G(s + n) = SubSeq(c, s + n, L)
      <3>1. ~(s + n <= s) BY <1>0
      <3> QED BY <3>1
    <2>3. SubSeq(c, s, s - 1) = <<>> BY <1>0, <1>f
    <2>4. <<>> \o tail = tail BY <1>3, ConcatEmptySeq
    <2>5. G(s) = tail BY <2>1, <2>3, <2>4
    <2>6. tail = by \o G(s + n) BY <2>2
    <2> HIDE DEF G
    <2> QED BY <2>5, <2>6
  <1>6. ASSUME NEW i \in 1..L, i # s PROVE G(i) = <<c[i]>> \o G(i + 1)
    <2>0. i \in Nat BY <1>0
    <2>1. CASE i < s
      <3>1. i <= s /\ i + 1 <= s /\ s - 1 \in i..L BY <1>0, <2>0, <2>1
      <3>2. G(i) = SubSeq(c, i, s - 1) \o tail BY <3>1
      <3>3. G(i + 1) = SubSeq(c, i + 1, s - 1) \o tail BY <3>1
      <3>4. SubSeq(c, i, s - 1) = <<c[i]>> \o SubSeq(c, i + 1, s - 1) BY <1>d, <3>1
      <3> DEFINE one == <<c[i]>>
                 between == SubSeq(c, i + 1, s - 1)
      <3>5. one \in Seq(S)
        <4>1. c[i] \in S BY <1>c
        <4> QED BY <4>1
      <3>6. between \in Seq(S)
        <4>1. i + 1 \in 1..L + 1 /\ s - 1 \in 0..L BY <1>0, <2>0, <2>1
        <4> QED BY <1>e, <4>1
      <3>7. SubSeq(c, i, s - 1) = one \o between /\ G(i + 1) = between \o tail BY <3>3, <3>4
      <3> HIDE DEF one, between, G, tail
      <3>8. (one \o between) \o tail = one \o (between \o tail)
        <4>1. Grouped(one, between, tail) BY <1>3, <3>5, <3>6, Associative
        <4> QED BY <4>1 DEF Grouped
      <3>9. G(i) = one \o G(i + 1) BY <3>2, <3>7, <3>8
      <3> QED BY <3>9 DEF one
    <2>2. CASE i > s
      <3>1. ~(i <= s) /\ ~(i + 1 <= s) /\ L \in i..L BY <1>0, <2>0, <2>2
      <3>2. G(i) = SubSeq(c, i, L) BY <3>1
      <3>3. G(i + 1) = SubSeq(c, i + 1, L) BY <3>1
      <3> QED BY <1>d, <3>1, <3>2, <3>3
    <2>3. i < s \/ i > s
      <3> HIDE DEF G, tail
      <3> QED BY <1>0, <1>6, <2>0
    <2> QED BY <2>1, <2>2, <2>3
  <1>7. G(1) = SubSeq(c, 1, s - 1) \o tail BY <1>0
  <1> HIDE DEF G, tail
  <1>8. 1 \in 1..L + 1 /\ L + 1 \in 1..L + 1 /\ s \in 1..L + 1 /\ s + n \in 1..L + 1 /\ \A i \in 1..L : i + 1 \in 1..L + 1
    BY <1>0
  <1>9. \A i \in 1..L + 1 : g[i] = G(i) OBVIOUS
  <1>x. g = [i \in 1..L + 1 |-> g[i]] OBVIOUS
  <1>y. \A i \in 1..L + 1 : i = L + 1 \/ i = s \/ (i \in 1..L /\ i # s) BY <1>0
  <1> HIDE DEF g
  <1>10. ASSUME NEW i \in 1..L + 1 PROVE g[i] = Body(g, i)
    <2>1. CASE i = L + 1 BY <1>4, <1>8, <1>9, <1>b, <2>1
    <2>2. CASE i = s
      <3>1. g[s] = G(s) /\ g[s + n] = G(s + n) BY <1>8, <1>9
      <3>2. Body(g, s) = by \o g[s + n] BY <1>b
      <3> QED BY <1>5, <2>2, <3>1, <3>2
    <2>3. CASE i \in 1..L /\ i # s
      <3>1. g[i] = G(i) /\ g[i + 1] = G(i + 1) BY <1>8, <1>9, <2>3
      <3>2. Body(g, i) = <<c[i]>> \o g[i + 1] BY <1>b, <2>3
      <3>3. G(i) = <<c[i]>> \o G(i + 1) BY <1>6, <2>3
      <3> QED BY <3>1, <3>2, <3>3
    <2> QED BY <1>y, <2>1, <2>2, <2>3
  <1>11. g = [i \in 1..L + 1 |-> Body(g, i)] BY <1>x, <1>10
  <1>12. ASSUME NEW h, h = [i \in 1..L + 1 |-> Body(h, i)] PROVE \A i \in 1..L + 1 : h[i] = g[i]
    <2> DEFINE T == {k \in 0..L : h[L + 1 - k] # g[L + 1 - k]}
    <2>1. \A i \in 1..L + 1 : h[i] = Body(h, i) BY <1>12
    <2>0. ASSUME NEW i \in 1..L + 1 PROVE /\ i \in Nat /\ L + 1 - i \in 0..L
                                          /\ L + 1 - (L + 1 - i) = i
      BY <1>0
    <2>2. T = {}
      <3> SUFFICES ASSUME T # {} PROVE FALSE OBVIOUS
      <3>1. T \subseteq Nat BY <1>0
      <3>2. PICK k \in T : \A l \in T : k <= l
        <4> HIDE DEF T
        <4> QED BY <3>1, LeastNumber
      <3> DEFINE i == L + 1 - k
      <3>3. k \in 0..L /\ h[i] # g[i] BY <3>2
      <3>a. i \in 1..L + 1 /\ k = L + 1 - i BY <1>0, <3>3
      <3> HIDE DEF i
      <3>4. ASSUME NEW j \in 1..L + 1, j > i PROVE h[j] = g[j]
        <4>1. L + 1 - j \in 0..L /\ L + 1 - (L + 1 - j) = j /\ j \in Nat BY <2>0
        <4>2. ~(k <= L + 1 - j)
          <5>1. i \in Nat /\ L \in Nat BY <1>0, <3>a
          <5> QED BY <3>4, <3>a, <4>1, <5>1
        <4>3. L + 1 - j \notin T BY <3>2, <4>2
        <4> QED BY <4>1, <4>3
      <3> HIDE DEF T
      <3>5. CASE i = L + 1 BY <1>4, <1>8, <1>9, <1>b, <2>1, <3>3, <3>5
      <3>6. CASE i = s
        <4>1. h[s] = by \o h[s + n] BY <1>8, <1>b, <2>1
        <4>2. s + n > s BY <1>0
        <4>3. h[s + n] = g[s + n] BY <1>8, <3>4, <3>6, <4>2
        <4>4. g[s] = by \o g[s + n] BY <1>8, <1>10, <1>b
        <4>5. h[s] # g[s] BY <3>3, <3>6
        <4> QED BY <4>1, <4>3, <4>4, <4>5
      <3>7. CASE i \in 1..L /\ i # s
        <4>0. i \in 1..L + 1 /\ i + 1 \in 1..L + 1 BY <3>a, <1>8, <3>7
        <4>1. h[i] = <<c[i]>> \o h[i + 1] BY <1>b, <2>1, <3>7, <4>0
        <4>2. i + 1 > i BY <1>0, <4>0
        <4>3. h[i + 1] = g[i + 1] BY <3>4, <4>0, <4>2
        <4>4. g[i] = <<c[i]>> \o g[i + 1] BY <1>b, <1>10, <3>7, <4>0
        <4> QED BY <3>3, <4>1, <4>3, <4>4
      <3> QED BY <1>y, <3>a, <3>5, <3>6, <3>7
    <2>3. ASSUME NEW i \in 1..L + 1 PROVE h[i] = g[i]
      <3>1. L + 1 - i \in 0..L /\ L + 1 - (L + 1 - i) = i BY <2>0
      <3>2. L + 1 - i \notin T BY <2>2
      <3> QED BY <3>1, <3>2
    <2> QED BY <2>3
  <1> DEFINE from == CHOOSE h : h = [i \in 1..L + 1 |-> Body(h, i)]
  <1>13. from = [i \in 1..L + 1 |-> Body(from, i)] BY <1>11
  <1>15. from[1] = g[1]
    <2> HIDE DEF from
    <2> QED BY <1>12, <1>13, <1>8
  <1>16. g[1] = G(1) BY <1>8, <1>9
  <1> QED BY <1>1, <1>7, <1>15, <1>16 DEF tail, L, n, ReplacedAt

-----------------------------------------------------------------------------
(* The managed block among the lines of the user.                          *)

Block(x) == <<"start", x, "end">>
Blocked(c, u, x, v) == u \in Seq(Own) /\ v \in Seq(Own) /\ x \in {"text", "old"} /\ c = u \o (Block(x) \o v)

\* Where the lines of a file with a block are.
LEMMA Layout ==
  ASSUME NEW c, NEW u, NEW x, NEW v, Blocked(c, u, x, v)
  PROVE  /\ c \in Seq(Lines) /\ Len(u) \in Nat /\ Len(v) \in Nat /\ Len(c) = Len(u) + 3 + Len(v)
         /\ \A i \in 1..Len(u) : c[i] = u[i] /\ c[i] \in Own
         /\ c[Len(u) + 1] = "start" /\ c[Len(u) + 2] = x /\ c[Len(u) + 3] = "end"
         /\ \A i \in 1..Len(v) : c[Len(u) + 3 + i] = v[i]
         /\ \A i \in Len(u) + 4..Len(c) : c[i] \in Own
  <1> DEFINE w == Block(x) \o v
  <1>1. u \in Seq(Own) /\ v \in Seq(Own) /\ x \in {"text", "old"} /\ c = u \o w BY DEF Blocked
  <1>2. u \in Seq(Lines) /\ v \in Seq(Lines) /\ Block(x) \in Seq(Lines)
    <2>1. Own \subseteq Lines BY DEF Own, Lines
    <2>2. u \in Seq(Lines) /\ v \in Seq(Lines) BY <1>1, <2>1
    <2>3. Block(x) \in Seq(Lines) BY <1>1 DEF Block, Lines
    <2> QED BY <2>2, <2>3
  <1>3. /\ w \in Seq(Lines) /\ Len(w) = 3 + Len(v)
        /\ w[1] = "start" /\ w[2] = x /\ w[3] = "end" /\ \A i \in 1..Len(v) : w[3 + i] = v[i]
    <2> DEFINE b == Block(x)
    <2>1. b \in Seq(Lines) /\ v \in Seq(Lines) BY <1>2
    <2>2. b[1] = "start" /\ b[2] = x /\ b[3] = "end" BY DEF Block
    <2>3. w = b \o v OBVIOUS
    <2>4. Len(b) = 3 BY DEF Block
    <2>5. Len(v) \in Nat BY <1>1
    <2> HIDE DEF b, w
    <2>6. w \in Seq(Lines) /\ Len(w) = Len(b) + Len(v) BY <2>1, <2>3
    <2>7. \A i \in 1..Len(b) : w[i] = b[i] BY <2>1, <2>3
    <2>8. \A i \in 1..Len(v) : w[Len(b) + i] = v[i] BY <2>1, <2>3
    <2>9. w[1] = "start" /\ w[2] = x /\ w[3] = "end" BY <2>2, <2>4, <2>7
    <2> QED BY <2>4, <2>6, <2>8, <2>9
  <1> HIDE DEF w
  <1>4. Len(u) \in Nat /\ Len(v) \in Nat BY <1>1
  <1>5. c \in Seq(Lines) /\ Len(c) = Len(u) + 3 + Len(v)
    <2>1. u \o w \in Seq(Lines) /\ Len(u \o w) = Len(u) + Len(w) BY <1>2, <1>3, ConcatProperties
    <2> QED BY <1>1, <1>3, <1>4, <2>1
  <1>6. ASSUME NEW i \in 1..Len(u) + Len(w)
        PROVE  c[i] = IF i <= Len(u) THEN u[i] ELSE w[i - Len(u)]
    BY <1>1, <1>2, <1>3, ConcatProperties
  <1>7. \A i \in 1..Len(u) : c[i] = u[i] /\ c[i] \in Own BY <1>1, <1>3, <1>4, <1>6
  <1>8. ASSUME NEW k \in 1..3 + Len(v) PROVE c[Len(u) + k] = w[k]
    <2>1. Len(u) + k \in 1..Len(u) + Len(w) /\ ~(Len(u) + k <= Len(u)) /\ Len(u) + k - Len(u) = k
      BY <1>3, <1>4
    <2> QED BY <1>6, <2>1
  <1>9. c[Len(u) + 1] = "start" /\ c[Len(u) + 2] = x /\ c[Len(u) + 3] = "end" BY <1>3, <1>4, <1>8
  <1>10. ASSUME NEW i \in 1..Len(v) PROVE c[Len(u) + 3 + i] = v[i]
    <2>1. 3 + i \in 1..3 + Len(v) /\ Len(u) + (3 + i) = Len(u) + 3 + i BY <1>4
    <2> QED BY <1>3, <1>8, <2>1
  <1>11. ASSUME NEW i \in Len(u) + 4..Len(c) PROVE c[i] \in Own
    <2>1. i - Len(u) - 3 \in 1..Len(v) /\ Len(u) + 3 + (i - Len(u) - 3) = i BY <1>4, <1>5
    <2>2. c[i] = v[i - Len(u) - 3] BY <1>10, <2>1
    <2> QED BY <1>1, <2>1, <2>2
  <1> QED BY <1>4, <1>5, <1>7, <1>9, <1>10, <1>11

\* The lines before, in and after the block.
LEMMA LayoutParts ==
  ASSUME NEW c, NEW u, NEW x, NEW v, Blocked(c, u, x, v)
  PROVE  /\ SubSeq(c, 1, Len(u)) = u
         /\ SubSeq(c, Len(u) + 1, Len(u) + 3) = Block(x)
         /\ SubSeq(c, Len(u) + 4, Len(c)) = v
         /\ SubSeq(c, 1, Len(u) + 1) = u \o <<"start">>
         /\ SubSeq(c, Len(u) + 3, Len(c)) = <<"end">> \o v
  <1> DEFINE n == Len(u)
             m == Len(v)
  <1>1. /\ c \in Seq(Lines) /\ n \in Nat /\ m \in Nat /\ Len(c) = n + 3 + m
        /\ \A i \in 1..n : c[i] = u[i]
        /\ c[n + 1] = "start" /\ c[n + 2] = x /\ c[n + 3] = "end"
        /\ \A i \in 1..m : c[n + 3 + i] = v[i]
    BY Layout
  <1>2. u \in Seq(Own) /\ v \in Seq(Own) BY DEF Blocked
  <1>3. \A i, j \in Nat : i >= 1 /\ i <= j + 1 /\ j <= Len(c) =>
           /\ SubSeq(c, i, j) \in Seq(Lines) /\ Len(SubSeq(c, i, j)) = j + 1 - i
           /\ \A k \in 1..j + 1 - i : SubSeq(c, i, j)[k] = c[i + k - 1]
    <2> SUFFICES ASSUME NEW i \in Nat, NEW j \in Nat, i >= 1, i <= j + 1, j <= Len(c)
                 PROVE  /\ SubSeq(c, i, j) \in Seq(Lines) /\ Len(SubSeq(c, i, j)) = j + 1 - i
                        /\ \A k \in 1..j + 1 - i : SubSeq(c, i, j)[k] = c[i + k - 1]
      OBVIOUS
    <2>1. \A k \in i..j : c[k] \in Lines BY <1>1
    <2>2. SubSeq(c, i, j) \in Seq(Lines) /\ Len(SubSeq(c, i, j)) = IF i <= j THEN j - i + 1 ELSE 0
      BY <2>1, SubSeqProperties
    <2> QED BY <2>2
  <1> HIDE DEF n, m
  <1>4. SubSeq(c, 1, n) = u
    <2>1. SubSeq(c, 1, n) \in Seq(Lines) /\ Len(SubSeq(c, 1, n)) = n /\ \A k \in 1..n : SubSeq(c, 1, n)[k] = c[k]
      BY <1>1, <1>3
    <2> QED BY <1>1, <1>2, <2>1 DEF n
  <1>5. SubSeq(c, n + 1, n + 3) = Block(x)
    <2>1. /\ SubSeq(c, n + 1, n + 3) \in Seq(Lines) /\ Len(SubSeq(c, n + 1, n + 3)) = 3
          /\ \A k \in 1..3 : SubSeq(c, n + 1, n + 3)[k] = c[n + k]
      BY <1>1, <1>3
    <2>2. Block(x) \in Seq({"start", x, "end"}) /\ Len(Block(x)) = 3
          /\ Block(x)[1] = "start" /\ Block(x)[2] = x /\ Block(x)[3] = "end"
      BY DEF Block
    <2>3. \A k \in 1..3 : SubSeq(c, n + 1, n + 3)[k] = Block(x)[k] BY <1>1, <2>1, <2>2
    <2> QED BY <2>1, <2>2, <2>3
  <1>6. SubSeq(c, n + 4, Len(c)) = v
    <2>1. /\ SubSeq(c, n + 4, Len(c)) \in Seq(Lines) /\ Len(SubSeq(c, n + 4, Len(c))) = m
          /\ \A k \in 1..m : SubSeq(c, n + 4, Len(c))[k] = c[n + 3 + k]
      BY <1>1, <1>3
    <2> QED BY <1>1, <1>2, <2>1 DEF m
  <1>7. SubSeq(c, 1, n + 1) = u \o <<"start">>
    <2>1. /\ SubSeq(c, 1, n + 1) \in Seq(Lines) /\ Len(SubSeq(c, 1, n + 1)) = n + 1
          /\ \A k \in 1..n + 1 : SubSeq(c, 1, n + 1)[k] = c[k]
      BY <1>1, <1>3
    <2> DEFINE t == u \o <<"start">>
    <2>2. t \in Seq(Own \cup {"start"}) /\ Len(t) = n + 1 /\ t[n + 1] = "start" /\ \A k \in 1..n : t[k] = u[k]
      BY <1>1, <1>2 DEF n
    <2> HIDE DEF t
    <2>3. \A k \in 1..n + 1 : SubSeq(c, 1, n + 1)[k] = t[k] BY <1>1, <2>1, <2>2
    <2>4. SubSeq(c, 1, n + 1) = t BY <2>1, <2>2, <2>3
    <2> QED BY <2>4 DEF t
  <1>8. SubSeq(c, n + 3, Len(c)) = <<"end">> \o v
    <2>1. /\ SubSeq(c, n + 3, Len(c)) \in Seq(Lines) /\ Len(SubSeq(c, n + 3, Len(c))) = m + 1
          /\ \A k \in 1..m + 1 : SubSeq(c, n + 3, Len(c))[k] = c[n + 2 + k]
      BY <1>1, <1>3
    <2> DEFINE t == <<"end">> \o v
    <2>2. t \in Seq(Own \cup {"end"}) /\ Len(t) = m + 1 /\ t[1] = "end" /\ \A k \in 2..m + 1 : t[k] = v[k - 1]
      BY <1>1, <1>2 DEF m
    <2> HIDE DEF t
    <2>3. ASSUME NEW k \in 1..m + 1 PROVE SubSeq(c, n + 3, Len(c))[k] = t[k]
      <3>1. CASE k = 1
        <4>1. n + 2 + 1 = n + 3 BY <1>1
        <4> QED BY <1>1, <2>1, <2>2, <3>1, <4>1
      <3>2. CASE k # 1
        <4>1. k \in 2..m + 1 /\ k - 1 \in 1..m /\ n + 2 + k = n + 3 + (k - 1) BY <1>1, <3>2
        <4> QED BY <1>1, <2>1, <2>2, <4>1
      <3> QED BY <3>1, <3>2
    <2>4. SubSeq(c, n + 3, Len(c)) = t BY <2>1, <2>2, <2>3
    <2> QED BY <2>4 DEF t
  <1> QED BY <1>4, <1>5, <1>6, <1>7, <1>8 DEF n

\* A file with a block has it found; one without markers has none.
LEMMA BlockIsFound ==
  ASSUME NEW c, NEW u, NEW x, NEW v, Blocked(c, u, x, v) PROVE Managed(c) = Block(x)
  <1> DEFINE n == Len(u)
  <1>1. /\ n \in Nat /\ Len(c) \in Nat /\ n + 3 <= Len(c)
        /\ \A i \in 1..n : c[i] \in Own
        /\ c[n + 1] = "start" /\ c[n + 2] = x /\ c[n + 3] = "end"
    BY Layout
  <1>2. x \in {"text", "old"} BY DEF Blocked
  <1>3. SubSeq(c, n + 1, n + 3) = Block(x) BY LayoutParts
  <1> HIDE DEF n
  <1>4. Place(c, 1, "start") = n + 1
    <2>1. n + 1 \in 1..Len(c) /\ \A i \in 1..(n + 1) - 1 : c[i] # "start" BY <1>1 DEF Own
    <2> QED BY <1>1, <2>1, PlaceFacts
  <1>5. Place(c, n + 1, "end") = n + 3
    <2>1. n + 1 \in Nat /\ n + 3 \in n + 1..Len(c) BY <1>1
    <2>2. \A i \in n + 1..n + 3 - 1 : i = n + 1 \/ i = n + 2 BY <1>1
    <2>3. \A i \in n + 1..n + 3 - 1 : c[i] # "end" BY <1>1, <1>2, <2>2
    <2> QED BY <1>1, <2>1, <2>3, PlaceFacts
  <1>6. n + 1 # 0 /\ n + 3 # 0 BY <1>1
  <1> QED BY <1>3, <1>4, <1>5, <1>6 DEF Managed

LEMMA NoBlockIsFound ==
  ASSUME NEW c \in Seq(Own) PROVE Managed(c) = <<>>
  <1>1. Len(c) \in Nat /\ \A i \in 1..Len(c) : c[i] # "start" BY DEF Own
  <1>2. Place(c, 1, "start") = 0 BY <1>1, PlaceFacts
  <1> QED BY <1>2 DEF Managed

\* What is put for the block stands where the block was.
LEMMA BlockIsReplaced ==
  ASSUME NEW c, NEW u, NEW x, NEW v, Blocked(c, u, x, v), NEW by \in Seq(Lines)
  PROVE  Replaced(c, Block(x), by) = u \o (by \o v)
  <1> DEFINE n == Len(u)
             part == Block(x)
  <1>1. /\ c \in Seq(Lines) /\ n \in Nat /\ Len(c) \in Nat /\ n + 3 <= Len(c)
        /\ \A i \in 1..n : c[i] \in Own
        /\ c[n + 1] = "start" /\ c[n + 2] = x /\ c[n + 3] = "end"
        /\ \A i \in n + 4..Len(c) : c[i] \in Own
    BY Layout
  <1>2. x \in {"text", "old"} BY DEF Blocked
  <1>3. SubSeq(c, 1, n) = u /\ SubSeq(c, n + 4, Len(c)) = v BY LayoutParts
  <1>4. part[1] = "start" /\ part[2] = x /\ part[3] = "end" BY DEF Block
  <1>5. part \in Seq(Lines) BY <1>2 DEF Block, Lines
  <1>6. Len(part) = 3 BY DEF Block
  <1> HIDE DEF n, part
  <1>7. ASSUME NEW i \in 1..Len(c), IsPrefix(part, SubSeq(c, i, Len(c))) PROVE i = n + 1
    <2>1. part[1] = c[i] BY <1>1, <1>5, <1>6, <1>7 DEF IsPrefix
    <2>2. i \in 1..n \/ i = n + 1 \/ i = n + 2 \/ i = n + 3 \/ i \in n + 4..Len(c) BY <1>1
    <2> QED BY <1>1, <1>2, <1>4, <2>1, <2>2 DEF Own
  <1>8. IsPrefix(part, SubSeq(c, n + 1, Len(c)))
    <2>1. /\ Len(SubSeq(c, n + 1, Len(c))) = Len(c) - n
          /\ \A k \in 1..Len(c) - n : SubSeq(c, n + 1, Len(c))[k] = c[n + k]
      BY <1>1
    <2>2. SubSeq(c, n + 1, Len(c)) \in Seq(Lines)
      <3>1. \A k \in n + 1..Len(c) : c[k] \in Lines BY <1>1
      <3> QED BY <1>1, <3>1, SubSeqProperties
    <2> DEFINE t == SubSeq(c, n + 1, Len(c))
    <2>3. t \in Seq(Lines) /\ Len(t) >= 3 /\ t[1] = part[1] /\ t[2] = part[2] /\ t[3] = part[3]
      BY <1>1, <1>4, <2>1, <2>2
    <2> HIDE DEF t
    <2>4. IsPrefix(part, t)
      <3>1. SubSeq(t, 1, 3) \in Seq(Lines) /\ Len(SubSeq(t, 1, 3)) = 3 /\ \A k \in 1..3 : SubSeq(t, 1, 3)[k] = t[k]
        <4>1. \A k \in 1..3 : t[k] \in Lines BY <2>3
        <4> QED BY <4>1, SubSeqProperties
      <3>2. \A k \in 1..3 : t[k] = part[k] BY <2>3
      <3>3. SubSeq(t, 1, 3) = part BY <1>5, <1>6, <3>1, <3>2
      <3> QED BY <1>6, <2>3, <3>3 DEF IsPrefix
    <2> QED BY <2>4 DEF t
  <1>9. \A i \in 1..Len(c) : IsPrefix(part, SubSeq(c, i, Len(c))) <=> i = n + 1 BY <1>7, <1>8
  <1>10. n + 1 \in 1..Len(c) /\ n + 1 + 3 - 1 <= Len(c) /\ (n + 1) - 1 = n /\ n + 1 + 3 = n + 4 BY <1>1
  <1>11. OnlyAt(c, part, n + 1) BY <1>6, <1>9, <1>10 DEF OnlyAt
  <1>12. ReplacedAt(c, part, by, n + 1) BY <1>1, <1>5, <1>11, ReplacedFacts
  <1>13. Replaced(c, part, by) = SubSeq(c, 1, (n + 1) - 1) \o (by \o SubSeq(c, n + 1 + Len(part), Len(c)))
    BY <1>12 DEF ReplacedAt
  <1> QED BY <1>3, <1>6, <1>10, <1>13 DEF part

\* The managed text is replaced by another.
LEMMA TextIsReplaced ==
  ASSUME NEW c, NEW u, NEW v, Blocked(c, u, "text", v)
  PROVE  Blocked(Replaced(c, <<"text">>, <<"old">>), u, "old", v)
  <1> DEFINE n == Len(u)
             part == <<"text">>
             by == <<"old">>
  <1>1. /\ c \in Seq(Lines) /\ n \in Nat /\ Len(c) \in Nat /\ n + 3 <= Len(c)
        /\ \A i \in 1..n : c[i] \in Own
        /\ c[n + 1] = "start" /\ c[n + 2] = "text" /\ c[n + 3] = "end"
        /\ \A i \in n + 4..Len(c) : c[i] \in Own
    BY Layout
  <1>2. u \in Seq(Own) /\ v \in Seq(Own) BY DEF Blocked
  <1>3. SubSeq(c, 1, n + 1) = u \o <<"start">> /\ SubSeq(c, n + 3, Len(c)) = <<"end">> \o v BY LayoutParts
  <1>4. part[1] = "text" /\ Len(part) = 1 OBVIOUS
  <1>5. part \in Seq(Lines) /\ by \in Seq(Lines) BY DEF Lines
  <1> HIDE DEF n, part, by
  <1>6. ASSUME NEW i \in 1..Len(c) PROVE IsPrefix(part, SubSeq(c, i, Len(c))) <=> i = n + 2
    <2> DEFINE t == SubSeq(c, i, Len(c))
    <2>1. t \in Seq(Lines) /\ Len(t) >= 1 /\ t[1] = c[i]
      <3>1. \A k \in i..Len(c) : c[k] \in Lines BY <1>1
      <3>2. t \in Seq(Lines) BY <1>1, <3>1, SubSeqProperties
      <3> QED BY <1>1, <3>2
    <2>2. i \in 1..n \/ i = n + 1 \/ i = n + 2 \/ i = n + 3 \/ i \in n + 4..Len(c) BY <1>1
    <2>3. c[i] = "text" <=> i = n + 2 BY <1>1, <2>2 DEF Own
    <2> HIDE DEF t
    <2>4. IsPrefix(part, t) <=> t[1] = part[1]
      <3>1. SubSeq(t, 1, 1) \in Seq(Lines) /\ Len(SubSeq(t, 1, 1)) = 1 /\ SubSeq(t, 1, 1)[1] = t[1]
        <4>1. \A k \in 1..1 : t[k] \in Lines BY <2>1
        <4> QED BY <4>1, SubSeqProperties
      <3>2. SubSeq(t, 1, 1) = part <=> t[1] = part[1] BY <1>4, <1>5, <3>1
      <3>3. SubSeq(part, 1, 1) = part BY <1>4, <1>5
      <3> QED BY <1>4, <2>1, <3>2, <3>3 DEF IsPrefix
    <2> QED BY <1>4, <2>1, <2>3, <2>4 DEF t
  <1>7. n + 2 \in 1..Len(c) /\ n + 2 + 1 - 1 <= Len(c) /\ (n + 2) - 1 = n + 1 /\ n + 2 + 1 = n + 3 BY <1>1
  <1>8. OnlyAt(c, part, n + 2) BY <1>4, <1>6, <1>7 DEF OnlyAt
  <1>9. ReplacedAt(c, part, by, n + 2) BY <1>1, <1>5, <1>8, ReplacedFacts
  <1>10. Replaced(c, part, by) = SubSeq(c, 1, (n + 2) - 1) \o (by \o SubSeq(c, n + 2 + Len(part), Len(c)))
    BY <1>9 DEF ReplacedAt
  <1>11. Replaced(c, part, by) = (u \o <<"start">>) \o (by \o (<<"end">> \o v)) BY <1>3, <1>4, <1>7, <1>10
  <1>12. (u \o <<"start">>) \o (by \o (<<"end">> \o v)) = u \o (Block("old") \o v)
    <2> DEFINE d == u \o (Block("old") \o v)
    <2>1. Blocked(d, u, "old", v) BY <1>2 DEF Blocked
    <2> HIDE DEF d
    <2>2. d \in Seq(Lines) /\ Len(d) \in Nat /\ n + 3 <= Len(d) /\ d[n + 2] = "old" BY <2>1, Layout DEF n
    <2>3. SubSeq(d, 1, n + 1) = u \o <<"start">> /\ SubSeq(d, n + 3, Len(d)) = <<"end">> \o v
      BY <2>1, LayoutParts DEF n
    <2>4. SubSeq(d, n + 2, Len(d)) = <<d[n + 2]>> \o SubSeq(d, n + 3, Len(d))
      <3>1. n + 2 \in 1..Len(d) /\ Len(d) \in n + 2..Len(d) /\ n + 2 + 1 = n + 3 BY <1>1, <2>2
      <3> QED BY <2>2, <3>1, SubSeqRecursiveFirst
    <2>5. d = SubSeq(d, 1, n + 1) \o SubSeq(d, n + 2, Len(d))
      <3> DEFINE k == n + 1
      <3>1. 1 \in 1..Len(d) + 1 /\ k \in 1 - 1..Len(d) /\ Len(d) \in k..Len(d) /\ k + 1 = n + 2
        BY <1>1, <2>2
      <3> HIDE DEF k
      <3>2. SubSeq(d, 1, k) \o SubSeq(d, k + 1, Len(d)) = SubSeq(d, 1, Len(d))
        BY <2>2, <3>1, ConcatAdjacentSubSeq
      <3>3. SubSeq(d, 1, Len(d)) = d BY <2>2, SubSeqFull
      <3> QED BY <3>1, <3>2, <3>3 DEF k
    <2> QED BY <2>2, <2>3, <2>4, <2>5 DEF d, by
  <1> QED BY <1>2, <1>11, <1>12 DEF Blocked, part, by

-----------------------------------------------------------------------------
(* How often a line is there.                                              *)

Places(c, line) == {i \in DOMAIN c : c[i] = line}

LEMMA CountOfNone == ASSUME NEW c, NEW line, \A i \in DOMAIN c : c[i] # line PROVE Count(c, line) = 0
  <1>1. {i \in DOMAIN c : c[i] = line} = {} OBVIOUS
  <1> QED BY <1>1, FS_EmptySet DEF Count

LEMMA CountOfOne ==
  ASSUME NEW c, NEW line, NEW k \in DOMAIN c, \A i \in DOMAIN c : c[i] = line <=> i = k PROVE Count(c, line) = 1
  <1>1. {i \in DOMAIN c : c[i] = line} = {k} OBVIOUS
  <1> QED BY <1>1, FS_Singleton DEF Count

Adds(a, b, line) == Count(a \o b, line) = Count(a, line) + Count(b, line)

LEMMA CountAdds ==
  ASSUME NEW S, NEW a \in Seq(S), NEW b \in Seq(S), NEW line
  PROVE  Adds(a, b, line) /\ Count(a, line) \in Nat
  <1> DEFINE w == a \o b
             n == Len(a)
             m == Len(b)
             A == Places(a, line)
             B == Places(b, line)
             C == {i \in n + 1..n + m : w[i] = line}
  <1>1. n \in Nat /\ m \in Nat /\ DOMAIN a = 1..n /\ DOMAIN b = 1..m OBVIOUS
  <1>2. DOMAIN w = 1..n + m /\ (\A i \in 1..n : w[i] = a[i]) /\ (\A i \in 1..m : w[n + i] = b[i]) OBVIOUS
  <1> HIDE DEF n, m, w
  <1>3. IsFiniteSet(A) /\ IsFiniteSet(B)
    <2>1. IsFiniteSet(1..n) /\ IsFiniteSet(1..m) BY <1>1, FS_Interval
    <2>2. A \in SUBSET (1..n) /\ B \in SUBSET (1..m) BY <1>1 DEF Places
    <2> HIDE DEF A, B
    <2> QED BY <2>1, <2>2, FS_Subset
  <1>4. Places(w, line) = A \cup C
    <2>1. \A i \in 1..n + m : i \in 1..n \/ i \in n + 1..n + m BY <1>1
    <2>2. \A i \in 1..n : i \in 1..n + m BY <1>1
    <2>3. \A i \in n + 1..n + m : i \in 1..n + m BY <1>1
    <2> QED BY <1>1, <1>2, <2>1, <2>2, <2>3 DEF Places
  <1>5. A \cap C = {} BY <1>1 DEF Places
  <1>6. IsFiniteSet(C) /\ Cardinality(C) = Cardinality(B)
    <2> DEFINE f == [i \in B |-> n + i]
    <2>1. B \subseteq 1..m BY <1>1 DEF Places
    <2>2. \A i \in B : n + i \in C BY <1>1, <1>2, <2>1 DEF Places
    <2>3. \A i \in C : i - n \in B /\ n + (i - n) = i
      <3> SUFFICES ASSUME NEW i \in C PROVE i - n \in B /\ n + (i - n) = i OBVIOUS
      <3>1. i - n \in 1..m /\ n + (i - n) = i BY <1>1
      <3>2. b[i - n] = line BY <1>2, <3>1
      <3> QED BY <1>1, <3>1, <3>2 DEF Places
    <2>4. \A i, j \in B : n + i = n + j => i = j BY <1>1, <2>1
    <2> HIDE DEF B, C
    <2>5. f \in Bijection(B, C)
      <3>1. f \in [B -> C] BY <2>2
      <3>2. f \in Injection(B, C) BY <2>4, <3>1 DEF Injection, IsInjective
      <3>3. f \in Surjection(B, C) BY <2>3, <3>1 DEF Surjection
      <3> QED BY <3>2, <3>3 DEF Bijection
    <2>6. ExistsBijection(B, C) BY <2>5 DEF ExistsBijection
    <2> QED BY <1>3, <2>6, FS_Bijection
  <1> HIDE DEF A, B, C
  <1>7. Cardinality(A \cup C) = Cardinality(A) + Cardinality(C)
    <2>1. Cardinality(A \cup C) = Cardinality(A) + Cardinality(C) - Cardinality(A \cap C)
      BY <1>3, <1>6, FS_Union
    <2>2. Cardinality(A \cap C) = 0 BY <1>5, FS_EmptySet
    <2>3. Cardinality(A) \in Nat /\ Cardinality(C) \in Nat BY <1>3, <1>6, FS_CardinalityType
    <2> QED BY <2>1, <2>2, <2>3
  <1>8. \A s : Count(s, line) = Cardinality(Places(s, line)) BY DEF Count, Places
  <1> QED BY <1>3, <1>4, <1>6, <1>7, <1>8, FS_CardinalityType DEF Adds, A, B, w

-----------------------------------------------------------------------------
(* What a pointer file holds.                                              *)

\* Lines of the user and of the front matter, with at most one block among them.
Sound(c) == c \in Seq(Own) \/ \E u, v \in Seq(Own), x \in {"text", "old"} : Blocked(c, u, x, v)

\* A file nobody has damaged, with k lines of the user.
Kept(c, k) == IF c = None THEN k = 0 ELSE Sound(c) /\ Count(c, "mine") = k

\* What a process has read of a pointer file, and makes of it.
Handed(at, r, c) ==
    at \in FilePlaces =>
        /\ r.for \in Files /\ c.kind \in {"init", "uninstall"}
        /\ r.new = Changed(c.kind, r.for, r.old) /\ r.new # r.old

\* A file is whole, or one process is about to write it, and has the lines it held.
FileOk(f) ==
    /\ \A p, q \in Procs : Writing(p, f) /\ Writing(q, f) => p = q
    /\ (\A p \in Procs : ~Writing(p, f)) => Kept(files[f], mine[f])
    /\ \A p \in Procs : Writing(p, f) => files[f] = <<>> /\ Kept(reg[p].old, mine[f])

PointerInv ==
    /\ DOMAIN files = Files /\ mine \in [Files -> Nat] /\ damaged \subseteq Files /\ upset \subseteq Files
    /\ \A p \in Procs : Handed(pc[p], reg[p], cmd[p])
    /\ \A f \in Files \ (damaged \cup upset) : FileOk(f)

LEMMA OwnLines == Seq(Own) \subseteq Seq(Lines)
  <1>1. Own \subseteq Lines BY DEF Own, Lines
  <1> QED BY <1>1

LEMMA SoundIsThere == ASSUME NEW c, Sound(c) PROVE c \in Seq(Lines) /\ c # None
  <1>1. None \notin Seq(Lines) BY HomeConstants
  <1>2. CASE c \in Seq(Own) BY <1>1, <1>2, OwnLines
  <1>3. CASE \E u, v \in Seq(Own), x \in {"text", "old"} : Blocked(c, u, x, v) BY <1>1, <1>3, Layout
  <1> QED BY <1>2, <1>3 DEF Sound

\* Before or after lines of one's own, or around a block, there is room for more.
LEMMA OwnGrows ==
  ASSUME NEW a \in Seq(Own), NEW b \in Seq(Own) PROVE a \o b \in Seq(Own)
  BY ConcatProperties

LEMMA MarksInBlock ==
  ASSUME NEW c, NEW u, NEW x, NEW v, Blocked(c, u, x, v)
  PROVE  Count(c, "start") = 1 /\ Count(c, "end") = 1 /\ Count(c, "mine") = Count(u, "mine") + Count(v, "mine")
  <1>1. /\ c \in Seq(Lines) /\ Len(u) \in Nat /\ Len(v) \in Nat /\ Len(c) = Len(u) + 3 + Len(v)
        /\ \A i \in 1..Len(u) : c[i] \in Own
        /\ c[Len(u) + 1] = "start" /\ c[Len(u) + 2] = x /\ c[Len(u) + 3] = "end"
        /\ \A i \in Len(u) + 4..Len(c) : c[i] \in Own
    BY Layout
  <1>2. x \in {"text", "old"} /\ u \in Seq(Own) /\ v \in Seq(Own) /\ c = u \o (Block(x) \o v) BY DEF Blocked
  <1>3. DOMAIN c = 1..Len(c) BY <1>1
  <1>4. ASSUME NEW i \in 1..Len(c)
        PROVE  i \in 1..Len(u) \/ i = Len(u) + 1 \/ i = Len(u) + 2 \/ i = Len(u) + 3 \/ i \in Len(u) + 4..Len(c)
    BY <1>1
  <1>5. Count(c, "start") = 1
    <2>1. Len(u) + 1 \in DOMAIN c BY <1>1, <1>3
    <2>2. ASSUME NEW i \in DOMAIN c PROVE c[i] = "start" <=> i = Len(u) + 1
      BY <1>1, <1>2, <1>3, <1>4 DEF Own
    <2> QED BY <2>1, <2>2, CountOfOne
  <1>6. Count(c, "end") = 1
    <2>1. Len(u) + 3 \in DOMAIN c BY <1>1, <1>3
    <2>2. ASSUME NEW i \in DOMAIN c PROVE c[i] = "end" <=> i = Len(u) + 3
      BY <1>1, <1>2, <1>3, <1>4 DEF Own
    <2> QED BY <2>1, <2>2, CountOfOne
  <1>7. Count(c, "mine") = Count(u, "mine") + Count(v, "mine")
    <2> DEFINE b == Block(x)
    <2>1. b \in Seq(Lines) BY <1>2 DEF Block, Lines
    <2>2. Count(b, "mine") = 0
      <3>1. DOMAIN b = 1..3 /\ b[1] = "start" /\ b[2] = x /\ b[3] = "end" BY DEF Block
      <3>2. \A i \in DOMAIN b : b[i] # "mine" BY <1>2, <3>1
      <3> HIDE DEF b
      <3> QED BY <3>2, CountOfNone
    <2>3. u \in Seq(Lines) /\ v \in Seq(Lines) BY <1>2, OwnLines
    <2> HIDE DEF b
    <2>4. b \o v \in Seq(Lines) BY <2>1, <2>3, ConcatProperties
    <2>5. Adds(b, v, "mine") /\ Adds(u, b \o v, "mine") /\ Count(v, "mine") \in Nat
      BY <2>1, <2>3, <2>4, CountAdds
    <2>6. c = u \o (b \o v) BY <1>2 DEF b
    <2> QED BY <2>2, <2>5, <2>6 DEF Adds
  <1> QED BY <1>5, <1>6, <1>7

LEMMA NoMarks ==
  ASSUME NEW c \in Seq(Own)
  PROVE  Count(c, "start") = 0 /\ Count(c, "end") = 0
         /\ \A i \in 1..Len(c) : c[i] \notin {"start", "text", "old", "end"}
  <1>1. \A i \in 1..Len(c) : c[i] \notin {"start", "text", "old", "end"} BY DEF Own
  <1>2. DOMAIN c = 1..Len(c) OBVIOUS
  <1>3. \A i \in DOMAIN c : c[i] # "start" /\ c[i] # "end" BY <1>1, <1>2
  <1> QED BY <1>1, <1>3, CountOfNone

LEMMA MineOfLiterals ==
  /\ <<"front">> \in Seq(Own) /\ <<"mine">> \in Seq(Own) /\ <<>> \in Seq(Own)
  /\ Count(<<>>, "mine") = 0 /\ Count(<<"front">>, "mine") = 0 /\ Count(<<"mine">>, "mine") = 1
  <1>1. <<"front">> \in Seq(Own) /\ <<"mine">> \in Seq(Own) /\ <<>> \in Seq(Own) BY DEF Own
  <1>2. Count(<<>>, "mine") = 0
    <2>1. \A i \in DOMAIN <<>> : <<>>[i] # "mine" OBVIOUS
    <2> QED BY <2>1, CountOfNone
  <1>3. Count(<<"front">>, "mine") = 0
    <2> DEFINE s == <<"front">>
    <2>1. \A i \in DOMAIN s : s[i] # "mine" OBVIOUS
    <2> HIDE DEF s
    <2>2. Count(s, "mine") = 0 BY <2>1, CountOfNone
    <2> QED BY <2>2 DEF s
  <1>4. Count(<<"mine">>, "mine") = 1
    <2> DEFINE s == <<"mine">>
    <2>1. 1 \in DOMAIN s /\ \A i \in DOMAIN s : s[i] = "mine" <=> i = 1 OBVIOUS
    <2> HIDE DEF s
    <2>2. Count(s, "mine") = 1 BY <2>1, CountOfOne
    <2> QED BY <2>2 DEF s
  <1> QED BY <1>1, <1>2, <1>3, <1>4

LEMMA MineAdds ==
  ASSUME NEW a \in Seq(Own), NEW b \in Seq(Own)
  PROVE  Adds(a, b, "mine") /\ a \o b \in Seq(Own) /\ Count(a, "mine") \in Nat /\ Count(b, "mine") \in Nat
  BY CountAdds, OwnGrows

-----------------------------------------------------------------------------
(* What the commands and the user do to a file.                            *)

FrontOf(f) == IF f = "cz-home.mdc" THEN <<"front">> ELSE <<>>

LEMMA BlockIsCore ==
  ASSUME NEW f
  PROVE  /\ Core = Block("text") /\ Core \in Seq(Lines) /\ Len(Core) = 3 /\ Core # <<>>
         /\ FrontOf(f) \in Seq(Own) /\ Count(FrontOf(f), "mine") = 0
         /\ BlockOf(f) \in Seq(Lines) /\ BlockOf(f) = FrontOf(f) \o Core /\ BlockOf(f) # <<>>
         /\ Len(BlockOf(f)) = 3 => BlockOf(f) = Core
  <1>1. Core = Block("text") /\ Core \in Seq(Lines) /\ Len(Core) = 3 /\ Core # <<>>
    BY DEF Core, Block, Lines
  <1>2. FrontOf(f) \in Seq(Own) /\ Count(FrontOf(f), "mine") = 0 BY MineOfLiterals DEF FrontOf
  <1>3. FrontOf(f) \in Seq(Lines) BY <1>2, OwnLines
  <1>4. BlockOf(f) = FrontOf(f) \o Core
    <2>1. <<>> \o Core = Core BY <1>1, ConcatEmptySeq
    <2> QED BY <2>1 DEF BlockOf, FrontOf
  <1>5. BlockOf(f) \in Seq(Lines) /\ Len(BlockOf(f)) = Len(FrontOf(f)) + Len(Core)
    <2> DEFINE a == FrontOf(f)
               b == Core
    <2>1. a \in Seq(Lines) /\ b \in Seq(Lines) BY <1>1, <1>3
    <2> HIDE DEF a, b
    <2>2. a \o b \in Seq(Lines) /\ Len(a \o b) = Len(a) + Len(b) BY <2>1
    <2> QED BY <1>4, <2>2 DEF a, b
  <1>6. Len(FrontOf(f)) = IF f = "cz-home.mdc" THEN 1 ELSE 0 BY DEF FrontOf
  <1>7. Len(BlockOf(f)) = 3 => BlockOf(f) = Core
    <2>1. CASE f = "cz-home.mdc" BY <1>1, <1>5, <1>6, <2>1
    <2>2. CASE f # "cz-home.mdc" BY <2>2 DEF BlockOf
    <2> QED BY <2>1, <2>2
  <1>8. BlockOf(f) # <<>>
    <2>1. Len(BlockOf(f)) # 0 BY <1>1, <1>5, <1>6
    <2> QED BY <2>1
  <1> QED BY <1>1, <1>2, <1>4, <1>5, <1>7, <1>8

\* A file that holds the block of init, before and after it lines of a and v.
Around(d, f, a, v) == d = a \o (BlockOf(f) \o v)

LEMMA BlockAround ==
  ASSUME NEW d, NEW f, NEW a \in Seq(Own), NEW v \in Seq(Own), Around(d, f, a, v)
  PROVE  Kept(d, Count(a, "mine") + Count(v, "mine")) /\ Managed(d) = Core
  <1> DEFINE u == a \o FrontOf(f)
  <1>1. FrontOf(f) \in Seq(Own) /\ Count(FrontOf(f), "mine") = 0 /\ Core \in Seq(Lines)
        /\ BlockOf(f) = FrontOf(f) \o Core /\ Core = Block("text")
    BY BlockIsCore
  <1>2. u \in Seq(Own) /\ Count(u, "mine") = Count(a, "mine")
    <2>1. /\ Adds(a, FrontOf(f), "mine") /\ a \o FrontOf(f) \in Seq(Own)
          /\ Count(a, "mine") \in Nat
      BY <1>1, MineAdds
    <2> QED BY <1>1, <2>1 DEF Adds
  <1>3. a \o (BlockOf(f) \o v) = u \o (Core \o v)
    <2> DEFINE w == FrontOf(f)
               b == Core
    <2>1. w \in Seq(Lines) /\ b \in Seq(Lines) /\ a \in Seq(Lines) /\ v \in Seq(Lines) BY <1>1, OwnLines
    <2> HIDE DEF w, b
    <2>2. Grouped(w, b, v) /\ b \o v \in Seq(Lines) BY <2>1, Associative, ConcatProperties
    <2>3. Grouped(a, w, b \o v) BY <2>1, <2>2, Associative
    <2>4. a \o ((w \o b) \o v) = (a \o w) \o (b \o v) BY <2>2, <2>3 DEF Grouped
    <2> QED BY <1>1, <2>4 DEF w, b
  <1> HIDE DEF u
  <1>4. Blocked(d, u, "text", v) BY <1>1, <1>2, <1>3 DEF Around, Blocked
  <1>5. Managed(d) = Core BY <1>1, <1>4, BlockIsFound
  <1>6. Count(d, "mine") = Count(u, "mine") + Count(v, "mine") BY <1>4, MarksInBlock
  <1>7. Sound(d) BY <1>2, <1>4 DEF Sound
  <1>8. d # None BY <1>7, SoundIsThere
  <1> QED BY <1>2, <1>5, <1>6, <1>7, <1>8 DEF Kept

\* init leaves the user's lines, and the current text between the markers.
LEMMA InsertedFacts ==
  ASSUME NEW f, NEW c, NEW k, Kept(c, k)
  PROVE  Kept(Inserted(f, c), k) /\ Managed(Inserted(f, c)) = Core
  <1>1. /\ BlockOf(f) \in Seq(Lines) /\ BlockOf(f) # <<>>
        /\ Len(BlockOf(f)) = 3 => BlockOf(f) = Core
    BY BlockIsCore
  <1>2. <<>> \in Seq(Own) /\ Count(<<>>, "mine") = 0 BY MineOfLiterals
  <1>3. BlockOf(f) \o <<>> = BlockOf(f) /\ <<>> \o BlockOf(f) = BlockOf(f) BY <1>1, ConcatEmptySeq
  <1>4. CASE c = None
    <2>1. Inserted(f, c) = BlockOf(f) BY <1>4 DEF Inserted
    <2>2. Around(BlockOf(f), f, <<>>, <<>>) BY <1>3 DEF Around
    <2>3. Kept(BlockOf(f), Count(<<>>, "mine") + Count(<<>>, "mine")) /\ Managed(BlockOf(f)) = Core
      BY <1>2, <2>2, BlockAround
    <2>4. k = Count(<<>>, "mine") + Count(<<>>, "mine") BY <1>2, <1>4 DEF Kept
    <2> QED BY <2>1, <2>3, <2>4
  <1>5. CASE c # None /\ c \in Seq(Own)
    <2>1. Managed(c) = <<>> BY <1>5, NoBlockIsFound
    <2>2. Inserted(f, c) = c \o BlockOf(f) BY <1>1, <1>5, <2>1 DEF Inserted
    <2>3. Around(c \o BlockOf(f), f, c, <<>>) BY <1>3 DEF Around
    <2>4. /\ Kept(c \o BlockOf(f), Count(c, "mine") + Count(<<>>, "mine"))
          /\ Managed(c \o BlockOf(f)) = Core
      BY <1>2, <1>5, <2>3, BlockAround
    <2>5. Count(c, "mine") = k /\ Count(c, "mine") \in Nat BY <1>5, CountAdds DEF Kept
    <2> QED BY <1>2, <2>2, <2>4, <2>5
  <1>6. CASE c # None /\ c \notin Seq(Own)
    <2>1. PICK u \in Seq(Own), v \in Seq(Own), x \in {"text", "old"} : Blocked(c, u, x, v)
      BY <1>6 DEF Kept, Sound
    <2>2. Managed(c) = Block(x) BY <2>1, BlockIsFound
    <2>3. Len(Block(x)) = 3 /\ Block(x) # <<>> BY DEF Block
    <2>4. CASE Managed(c) = BlockOf(f)
      <3>1. Inserted(f, c) = c BY <1>6, <2>4 DEF Inserted
      <3>2. Managed(c) = Core BY <1>1, <2>2, <2>3, <2>4
      <3> QED BY <3>1, <3>2
    <2>5. CASE Managed(c) # BlockOf(f)
      <3>1. Inserted(f, c) = Replaced(c, Block(x), BlockOf(f)) BY <1>6, <2>2, <2>3, <2>5 DEF Inserted
      <3>2. Replaced(c, Block(x), BlockOf(f)) = u \o (BlockOf(f) \o v) BY <1>1, <2>1, BlockIsReplaced
      <3>3. Around(Inserted(f, c), f, u, v) BY <3>1, <3>2 DEF Around
      <3>4. /\ Kept(Inserted(f, c), Count(u, "mine") + Count(v, "mine"))
            /\ Managed(Inserted(f, c)) = Core
        BY <3>3, BlockAround
      <3>5. Count(u, "mine") + Count(v, "mine") = k BY <1>6, <2>1, MarksInBlock DEF Kept
      <3> QED BY <3>4, <3>5
    <2> QED BY <2>4, <2>5
  <1> QED BY <1>4, <1>5, <1>6

\* uninstall leaves the user's lines, and neither markers nor text.
LEMMA RemovedFacts ==
  ASSUME NEW c, NEW k, Kept(c, k)
  PROVE  /\ Kept(Removed(c), k)
         /\ c # None => Removed(c) \in Seq(Own)
  <1>1. CASE c = None BY <1>1 DEF Removed
  <1>2. CASE c # None /\ c \in Seq(Own)
    <2>1. Managed(c) = <<>> BY <1>2, NoBlockIsFound
    <2> QED BY <1>2, <2>1 DEF Removed
  <1>3. CASE c # None /\ c \notin Seq(Own)
    <2>1. PICK u \in Seq(Own), v \in Seq(Own), x \in {"text", "old"} : Blocked(c, u, x, v)
      BY <1>3 DEF Kept, Sound
    <2>2. Managed(c) = Block(x) BY <2>1, BlockIsFound
    <2>3. Block(x) # <<>> BY DEF Block
    <2>4. Removed(c) = Replaced(c, Block(x), <<>>) BY <1>3, <2>2, <2>3 DEF Removed
    <2>5. Replaced(c, Block(x), <<>>) = u \o (<<>> \o v)
      <3> DEFINE none == <<>>
      <3>1. none \in Seq(Lines) OBVIOUS
      <3> HIDE DEF none
      <3>2. Replaced(c, Block(x), none) = u \o (none \o v) BY <2>1, <3>1, BlockIsReplaced
      <3> QED BY <3>2 DEF none
    <2>6. <<>> \o v = v BY ConcatEmptySeq
    <2>7. Removed(c) = u \o v BY <2>4, <2>5, <2>6
    <2>8. Adds(u, v, "mine") /\ u \o v \in Seq(Own) BY MineAdds
    <2>9. Count(u, "mine") + Count(v, "mine") = k BY <1>3, <2>1, MarksInBlock DEF Kept
    <2>10. Removed(c) \in Seq(Own) /\ Count(Removed(c), "mine") = k BY <2>7, <2>8, <2>9 DEF Adds
    <2>11. Sound(Removed(c)) BY <2>10 DEF Sound
    <2>12. Removed(c) # None BY <2>11, SoundIsThere
    <2> QED BY <2>10, <2>11, <2>12 DEF Kept
  <1> QED BY <1>1, <1>2, <1>3

\* A line of the user's own before or after what is there.
LEMMA AddedFacts ==
  ASSUME NEW c, NEW k, Kept(c, k), NEW d,
         LET there == IF c = None THEN <<>> ELSE c IN d \in {<<"mine">> \o there, Append(there, "mine")}
  PROVE  Kept(d, k + 1)
  <1> DEFINE there == IF c = None THEN <<>> ELSE c
             one == <<"mine">>
  <1>1. one \in Seq(Own) /\ Count(one, "mine") = 1 /\ <<>> \in Seq(Own) /\ Count(<<>>, "mine") = 0
    BY MineOfLiterals
  <1>2. there \in Seq(Lines) BY OwnLines, SoundIsThere, <1>1 DEF Kept
  <1>3. d = one \o there \/ d = there \o one
    <2>1. "mine" \in Lines BY DEF Lines
    <2>2. Append(there, "mine") = there \o one BY <1>2, <2>1, AppendIsConcat
    <2> QED BY <2>2
  <1>4. one \in Seq(Lines) BY <1>1, OwnLines
  <1>5. CASE there \in Seq(Own)
    <2>1. Count(there, "mine") = k BY <1>1 DEF Kept
    <2> HIDE DEF one, there
    <2>2. /\ Adds(one, there, "mine") /\ one \o there \in Seq(Own)
          /\ Adds(there, one, "mine") /\ there \o one \in Seq(Own)
          /\ Count(there, "mine") \in Nat
      BY <1>1, <1>5, MineAdds
    <2>a. Count(one \o there, "mine") = k + 1 /\ Count(there \o one, "mine") = k + 1
      BY <1>1, <2>1, <2>2 DEF Adds
    <2>3. d \in Seq(Own) /\ Count(d, "mine") = k + 1 BY <1>3, <2>2, <2>a
    <2>4. Sound(d) BY <2>3 DEF Sound
    <2>5. d # None BY <2>4, SoundIsThere
    <2> QED BY <2>3, <2>4, <2>5 DEF Kept
  <1>6. CASE there \notin Seq(Own)
    <2>0. there = c /\ c # None /\ c \notin Seq(Own) BY <1>1, <1>6
    <2>1. PICK u \in Seq(Own), v \in Seq(Own), x \in {"text", "old"} : Blocked(c, u, x, v)
      BY <2>0 DEF Kept, Sound
    <2>2. Count(u, "mine") + Count(v, "mine") = k BY <2>0, <2>1, MarksInBlock DEF Kept
    <2> DEFINE b == Block(x)
    <2>3. c = u \o (b \o v) BY <2>1 DEF Blocked
    <2>4. b \in Seq(Lines) /\ u \in Seq(Lines) /\ v \in Seq(Lines) BY OwnLines DEF Block, Lines
    <2>5. \A y, z \in Seq(Own) : d = y \o (b \o z) => Blocked(d, y, x, z) BY DEF Blocked
    <2> HIDE DEF one, there, b
    <2>6. /\ Adds(one, u, "mine") /\ one \o u \in Seq(Own)
          /\ Adds(v, one, "mine") /\ v \o one \in Seq(Own)
          /\ Count(u, "mine") \in Nat /\ Count(v, "mine") \in Nat
      BY <1>1, MineAdds
    <2>7. PICK y \in Seq(Own), z \in Seq(Own) :
             Blocked(d, y, x, z) /\ Count(y, "mine") + Count(z, "mine") = k + 1
      <3>1. CASE d = one \o there
        <4>1. b \o v \in Seq(Lines) BY <2>4, ConcatProperties
        <4>2. Grouped(one, u, b \o v) BY <1>4, <2>4, <4>1, Associative
        <4>3. d = (one \o u) \o (b \o v) BY <2>0, <2>3, <3>1, <4>2 DEF Grouped
        <4>4. Blocked(d, one \o u, x, v) BY <2>5, <2>6, <4>3
        <4>5. Count(one \o u, "mine") + Count(v, "mine") = k + 1 BY <1>1, <2>2, <2>6 DEF Adds
        <4> QED BY <2>6, <4>4, <4>5
      <3>2. CASE d = there \o one
        <4>1. b \o v \in Seq(Lines) BY <2>4, ConcatProperties
        <4>2. Grouped(u, b \o v, one) /\ Grouped(b, v, one) BY <1>4, <2>4, <4>1, Associative
        <4>3. d = u \o (b \o (v \o one)) BY <2>0, <2>3, <3>2, <4>2 DEF Grouped
        <4>4. Blocked(d, u, x, v \o one) BY <2>5, <2>6, <4>3
        <4>5. Count(u, "mine") + Count(v \o one, "mine") = k + 1 BY <1>1, <2>2, <2>6 DEF Adds
        <4> QED BY <2>6, <4>4, <4>5
      <3> QED BY <1>3, <3>1, <3>2
    <2>8. Sound(d) BY <2>7 DEF Sound
    <2>9. d # None BY <2>8, SoundIsThere
    <2>10. Count(d, "mine") = k + 1 BY <2>7, MarksInBlock
    <2> QED BY <2>8, <2>9, <2>10 DEF Kept
  <1> QED BY <1>5, <1>6

\* The managed text becomes that of another release.
LEMMA OutdatedFacts ==
  ASSUME NEW c, NEW k, Kept(c, k), c # None, Contains(c, "text")
  PROVE  Kept(Replaced(c, <<"text">>, <<"old">>), k)
  <1> DEFINE d == Replaced(c, <<"text">>, <<"old">>)
  <1>1. c \notin Seq(Own)
    <2> SUFFICES ASSUME c \in Seq(Own) PROVE FALSE OBVIOUS
    <2>1. \A i \in 1..Len(c) : c[i] # "text" BY NoMarks
    <2> QED BY <2>1 DEF Contains
  <1>2. PICK u \in Seq(Own), v \in Seq(Own), x \in {"text", "old"} : Blocked(c, u, x, v)
    BY <1>1 DEF Kept, Sound
  <1>3. x = "text"
    <2> SUFFICES ASSUME x = "old" PROVE FALSE OBVIOUS
    <2>1. /\ Len(u) \in Nat /\ Len(c) = Len(u) + 3 + Len(v) /\ Len(v) \in Nat
          /\ \A i \in 1..Len(u) : c[i] \in Own
          /\ c[Len(u) + 1] = "start" /\ c[Len(u) + 2] = "old" /\ c[Len(u) + 3] = "end"
          /\ \A i \in Len(u) + 4..Len(c) : c[i] \in Own
      BY <1>2, Layout
    <2>2. PICK i \in 1..Len(c) : c[i] = "text" BY DEF Contains
    <2>3. i \in 1..Len(u) \/ i = Len(u) + 1 \/ i = Len(u) + 2 \/ i = Len(u) + 3 \/ i \in Len(u) + 4..Len(c)
      BY <2>1
    <2> QED BY <2>1, <2>2, <2>3 DEF Own
  <1>4. Blocked(d, u, "old", v) BY <1>2, <1>3, TextIsReplaced
  <1> HIDE DEF d
  <1>5. Count(d, "mine") = Count(u, "mine") + Count(v, "mine") BY <1>4, MarksInBlock
  <1>6. Count(c, "mine") = Count(u, "mine") + Count(v, "mine") BY <1>2, MarksInBlock
  <1>7. Sound(d) BY <1>4 DEF Sound
  <1>8. d # None BY <1>7, SoundIsThere
  <1>9. Kept(d, k) BY <1>5, <1>6, <1>7, <1>8 DEF Kept
  <1> QED BY <1>9 DEF d

-----------------------------------------------------------------------------
(* Every step.                                                             *)

LEMMA PointersBegin == Init => PointerInv
  <1> SUFFICES ASSUME Init PROVE PointerInv OBVIOUS
  <1>1. \A p \in Procs : Handed(pc[p], reg[p], cmd[p]) BY DEF Init, Handed, FilePlaces
  <1>2. \A f \in Files : FileOk(f) BY DEF Init, FileOk, Writing, Kept
  <1> QED BY <1>1, <1>2 DEF Init, PointerInv

\* A step after which the files of F are whole, and that leaves the others alone.
LEMMA OtherFiles ==
  ASSUME PointerInv, NEW F,
         DOMAIN files' = Files, mine' \in [Files -> Nat],
         damaged \subseteq damaged', damaged' \subseteq Files, upset \subseteq upset', upset' \subseteq Files,
         \A p \in Procs : Handed(pc'[p], reg'[p], cmd'[p]),
         \A g \in Files \ F : files'[g] = files[g] /\ mine'[g] = mine[g],
         \A g \in Files \ F, p \in Procs :
            /\ Writing(p, g) => pc'[p] = "write file" /\ reg'[p] = reg[p]
            /\ pc'[p] = "write file" /\ reg'[p].for = g => Writing(p, g),
         \A g \in Files \cap F : g \notin damaged' \cup upset' => FileOk(g)'
  PROVE  PointerInv'
  <1>1. ASSUME NEW g \in Files \ (damaged' \cup upset'), g \notin F PROVE FileOk(g)'
    <2>1. FileOk(g) BY DEF PointerInv
    <2>2. files'[g] = files[g] /\ mine'[g] = mine[g] BY <1>1
    <2>3. \A p \in Procs :
            /\ Writing(p, g)' <=> Writing(p, g)
            /\ Writing(p, g) => reg'[p] = reg[p]
      BY <1>1 DEF Writing
    <2>4. \A p, q \in Procs : Writing(p, g)' /\ Writing(q, g)' => p = q BY <2>1, <2>3 DEF FileOk
    <2>5. (\A p \in Procs : ~Writing(p, g)') => Kept(files'[g], mine'[g]) BY <2>1, <2>2, <2>3 DEF FileOk
    <2>6. \A p \in Procs : Writing(p, g)' => files'[g] = <<>> /\ Kept(reg'[p].old, mine'[g])
      BY <2>1, <2>2, <2>3 DEF FileOk
    <2> QED BY <2>4, <2>5, <2>6 DEF FileOk
  <1>2. \A g \in Files \ (damaged' \cup upset') : FileOk(g)' BY <1>1
  <1> QED BY <1>2 DEF PointerInv

\* A step of p that leaves the files alone, and p with none it has truncated.
LEMMA OtherSteps ==
  ASSUME PointerInv, HomeInv, NEW p \in Procs, UNCHANGED <<files, mine, damaged, upset>>,
         pc[p] # "write file", pc'[p] # "write file", Handed(pc'[p], reg'[p], cmd'[p]),
         \A q \in Procs : q # p => pc'[q] = pc[q] /\ reg'[q] = reg[q] /\ cmd'[q] = cmd[q]
  PROVE  PointerInv'
  <1>1. \A q \in Procs : Handed(pc'[q], reg'[q], cmd'[q])
    <2> SUFFICES ASSUME NEW q \in Procs, q # p PROVE Handed(pc'[q], reg'[q], cmd'[q]) OBVIOUS
    <2>1. Handed(pc[q], reg[q], cmd[q]) BY DEF PointerInv
    <2> QED BY <2>1
  <1>2. \A g \in Files \ {}, q \in Procs :
           /\ Writing(q, g) => pc'[q] = "write file" /\ reg'[q] = reg[q]
           /\ pc'[q] = "write file" /\ reg'[q].for = g => Writing(q, g)
    BY DEF Writing
  <1>3. /\ DOMAIN files' = Files /\ mine' \in [Files -> Nat]
        /\ damaged \subseteq damaged' /\ damaged' \subseteq Files
        /\ upset \subseteq upset' /\ upset' \subseteq Files
    BY DEF PointerInv
  <1> DEFINE F == {}
  <1>4. \A g \in Files \ F : files'[g] = files[g] /\ mine'[g] = mine[g] OBVIOUS
  <1>5. \A g \in Files \cap F : g \notin damaged' \cup upset' => FileOk(g)' OBVIOUS
  <1> QED BY <1>1, <1>2, <1>3, <1>4, <1>5, OtherFiles

\* What a file holds that nobody damaged and no two commands met at.
LEMMA FileIsSound ==
  ASSUME PointerInv, NEW f \in Files \ (damaged \cup upset) PROVE \E k \in Nat : Kept(files[f], k)
  <1>1. FileOk(f) /\ mine[f] \in Nat BY DEF PointerInv
  <1>2. CASE \A p \in Procs : ~Writing(p, f) BY <1>1, <1>2 DEF FileOk
  <1>3. CASE \E p \in Procs : Writing(p, f)
    <2>1. files[f] = <<>> BY <1>1, <1>3 DEF FileOk
    <2>2. <<>> \in Seq(Own) /\ Count(<<>>, "mine") = 0 BY MineOfLiterals
    <2>3. Sound(<<>>) BY <2>2 DEF Sound
    <2>4. <<>> # None BY <2>3, SoundIsThere
    <2>5. Kept(<<>>, 0) BY <2>2, <2>3, <2>4 DEF Kept
    <2> QED BY <2>1, <2>5
  <1> QED BY <1>2, <1>3

\* What a command makes of a file.
LEMMA ChangedFacts ==
  ASSUME NEW kind \in {"init", "uninstall"}, NEW f, NEW c, NEW k, Kept(c, k)
  PROVE  /\ Kept(Changed(kind, f, c), k)
         /\ kind = "init" => Managed(Changed(kind, f, c)) = Core
         /\ kind = "uninstall" /\ c # None => Changed(kind, f, c) \in Seq(Own)
  BY InsertedFacts, RemovedFacts DEF Changed

LEMMA ReadStep ==
  ASSUME PointerInv, HomeInv, NEW p \in Procs, NEW f \in Files, ReadPointer(p, f) PROVE PointerInv'
  <1>1. DOMAIN pc = Procs /\ DOMAIN reg = Procs BY DEF HomeInv, Work
  <1> DEFINE new == Changed(cmd[p].kind, f, files[f])
             r == [for |-> f, old |-> files[f], new |-> new]
  <1>2. /\ pc[p] = f /\ cmd[p].kind \in {"init", "uninstall"} /\ new # files[f]
        /\ reg' = [reg EXCEPT ![p] = r]
        /\ pc' = [pc EXCEPT ![p] = "open file"]
        /\ UNCHANGED <<files, mine, damaged, upset, cmd>>
    BY DEF ReadPointer, Handles, Goto, files_vars
  <1>3. r.for = f /\ r.old = files[f] /\ r.new = new
    <2> HIDE DEF new
    <2> QED OBVIOUS
  <1>4. r.new = Changed(cmd[p].kind, r.for, r.old) BY <1>3
  <1> HIDE DEF new, r
  <1>5. reg'[p] = r /\ pc'[p] = "open file" /\ cmd'[p] = cmd[p] BY <1>1, <1>2
  <1>6. Handed(pc'[p], reg'[p], cmd'[p]) BY <1>2, <1>3, <1>4, <1>5 DEF Handed
  <1>7. \A q \in Procs : q # p => pc'[q] = pc[q] /\ reg'[q] = reg[q] /\ cmd'[q] = cmd[q] BY <1>1, <1>2
  <1>8. pc[p] # "write file" BY <1>2, FileFacts DEF FilePlaces
  <1> QED BY <1>2, <1>5, <1>6, <1>7, <1>8, OtherSteps

LEMMA OpenStep ==
  ASSUME PointerInv, HomeInv, NEW p \in Procs, NEW f \in Files, OpenPointer(p, f) PROVE PointerInv'
  <1>1. DOMAIN pc = Procs BY DEF HomeInv, Work
  <1>2. /\ pc[p] = "open file" /\ reg[p].for = f /\ pc' = [pc EXCEPT ![p] = "write file"]
        /\ files' = [files EXCEPT ![f] = <<>>] /\ UNCHANGED <<mine, damaged, reg, cmd>>
    BY DEF OpenPointer, Goto, store_vars
  <1>3. upset' = IF files[f] # reg[p].old \/ \E q \in Procs : Writing(q, f) THEN upset \cup {f} ELSE upset
    BY DEF OpenPointer
  <1>4. pc'[p] = "write file" /\ \A q \in Procs : q # p => pc'[q] = pc[q] BY <1>1, <1>2
  <1>5. /\ DOMAIN files' = Files /\ mine' \in [Files -> Nat]
        /\ damaged \subseteq damaged' /\ damaged' \subseteq Files
        /\ upset \subseteq upset' /\ upset' \subseteq Files
    BY <1>2, <1>3 DEF PointerInv
  <1>6. \A q \in Procs : Handed(pc'[q], reg'[q], cmd'[q])
    <2> SUFFICES ASSUME NEW q \in Procs PROVE Handed(pc'[q], reg'[q], cmd'[q]) OBVIOUS
    <2>1. Handed(pc[q], reg[q], cmd[q]) /\ reg'[q] = reg[q] /\ cmd'[q] = cmd[q] BY <1>2 DEF PointerInv
    <2>2. CASE q = p BY <1>2, <1>4, <2>1, <2>2 DEF Handed, FilePlaces
    <2>3. CASE q # p BY <1>4, <2>1, <2>3
    <2> QED BY <2>2, <2>3
  <1>7. \A g \in Files \ {f} : files'[g] = files[g] /\ mine'[g] = mine[g] BY <1>2 DEF PointerInv
  <1>8. \A g \in Files \ {f}, q \in Procs :
           /\ Writing(q, g) => pc'[q] = "write file" /\ reg'[q] = reg[q]
           /\ pc'[q] = "write file" /\ reg'[q].for = g => Writing(q, g)
    BY <1>2, <1>4 DEF Writing
  <1>9. ASSUME f \notin damaged' \cup upset' PROVE FileOk(f)'
    <2>1. files[f] = reg[p].old /\ \A q \in Procs : ~Writing(q, f) BY <1>3, <1>9
    <2>2. f \notin damaged \cup upset BY <1>5, <1>9
    <2>3. FileOk(f) BY <2>2 DEF PointerInv
    <2>4. Kept(reg[p].old, mine[f]) BY <2>1, <2>3 DEF FileOk
    <2>5. \A q \in Procs : Writing(q, f)' <=> q = p BY <1>2, <1>4, <2>1 DEF Writing
    <2>6. files'[f] = <<>> /\ mine'[f] = mine[f] /\ reg'[p] = reg[p] BY <1>2 DEF PointerInv
    <2>7. \A q \in Procs : Writing(q, f)' => files'[f] = <<>> /\ Kept(reg'[q].old, mine'[f])
      BY <2>4, <2>5, <2>6
    <2> QED BY <2>5, <2>7 DEF FileOk
  <1>10. \A g \in Files \cap {f} : g \notin damaged' \cup upset' => FileOk(g)' BY <1>9
  <1> DEFINE F == {f}
  <1> HIDE DEF F
  <1> QED BY <1>5, <1>6, <1>7, <1>8, <1>10, OtherFiles DEF F

\* The whole text comes to stand in the file, and init's block in it, or none.
LEMMA WriteStep ==
  ASSUME PointerInv, HomeInv, NEW p \in Procs, NEW f \in Files, WritePointer(p, f)
  PROVE  /\ PointerInv'
         /\ f \notin damaged \cup upset =>
               /\ cmd[p].kind = "init" => Managed(files'[f]) = Core
               /\ cmd[p].kind = "uninstall" => files'[f] \in Seq(Own)
  <1>1. /\ DOMAIN pc = Procs /\ DOMAIN reg = Procs /\ DOMAIN cmd = Procs
        /\ Files \cap FilePlaces = {}
    BY FileFacts DEF HomeInv, Work
  <1>2. PICK content \in WrittenOver(reg[p].new, files[f]) : files' = [files EXCEPT ![f] = content]
    BY DEF WritePointer
  <1>3. Writing(p, f) /\ UNCHANGED <<mine, damaged, upset>> BY DEF WritePointer
  <1>4. pc[p] = "write file" /\ reg[p].for = f BY <1>3 DEF Writing
  <1>5. PICK to : Passed(p, to) BY Passes
  <1>6. /\ pc'[p] \notin FilePlaces
        /\ \A q \in Procs : q # p => pc'[q] = pc[q] /\ reg'[q] = reg[q] /\ cmd'[q] = cmd[q]
    <2>1. to \notin FilePlaces BY <1>1, <1>5 DEF Passed, FilePlaces
    <2> QED BY <1>1, <1>5, <2>1 DEF Passed
  <1>7. /\ DOMAIN files' = Files /\ mine' \in [Files -> Nat]
        /\ damaged \subseteq damaged' /\ damaged' \subseteq Files
        /\ upset \subseteq upset' /\ upset' \subseteq Files /\ files'[f] = content
    BY <1>2, <1>3 DEF PointerInv
  <1>8. \A q \in Procs : Handed(pc'[q], reg'[q], cmd'[q])
    <2> SUFFICES ASSUME NEW q \in Procs PROVE Handed(pc'[q], reg'[q], cmd'[q]) OBVIOUS
    <2>1. Handed(pc[q], reg[q], cmd[q]) BY DEF PointerInv
    <2>2. CASE q = p BY <1>6, <2>2 DEF Handed
    <2>3. CASE q # p BY <1>6, <2>1, <2>3
    <2> QED BY <2>2, <2>3
  <1>9. \A g \in Files \ {f} : files'[g] = files[g] /\ mine'[g] = mine[g] BY <1>2, <1>3 DEF PointerInv
  <1>10. \A g \in Files \ {f}, q \in Procs :
           /\ Writing(q, g) => pc'[q] = "write file" /\ reg'[q] = reg[q]
           /\ pc'[q] = "write file" /\ reg'[q].for = g => Writing(q, g)
    BY <1>4, <1>6 DEF Writing, FilePlaces
  <1>11. ASSUME f \notin damaged \cup upset
         PROVE  /\ Kept(content, mine[f]) /\ \A q \in Procs : ~Writing(q, f)'
                /\ cmd[p].kind = "init" => Managed(content) = Core
                /\ cmd[p].kind = "uninstall" => content \in Seq(Own)
    <2> DEFINE r == reg[p]
    <2>1. FileOk(f) BY <1>11 DEF PointerInv
    <2>2. files[f] = <<>> /\ Kept(r.old, mine[f]) /\ \A q \in Procs : Writing(q, f) => q = p
      BY <1>3, <2>1 DEF FileOk
    <2>3. /\ cmd[p].kind \in {"init", "uninstall"} /\ r.new # r.old
          /\ r.new = Changed(cmd[p].kind, f, r.old)
      BY <1>4 DEF PointerInv, Handed, FilePlaces
    <2>4. content = r.new BY <1>2, <2>2 DEF WrittenOver
    <2>5. \A q \in Procs : ~Writing(q, f)'
      BY <1>6, <2>2 DEF Writing, FilePlaces
    <2>6. cmd[p].kind = "uninstall" => r.old # None
      <3>1. Removed(None) = None BY DEF Removed
      <3> QED BY <2>3, <3>1 DEF Changed
    <2> HIDE DEF r
    <2>7. /\ Kept(r.new, mine[f])
          /\ cmd[p].kind = "init" => Managed(r.new) = Core
          /\ cmd[p].kind = "uninstall" => r.new \in Seq(Own)
      BY <2>2, <2>3, <2>6, ChangedFacts
    <2> QED BY <2>4, <2>5, <2>7
  <1>12. ASSUME f \notin damaged' \cup upset' PROVE FileOk(f)'
    <2>1. f \notin damaged \cup upset BY <1>3, <1>12
    <2>2. Kept(files'[f], mine'[f]) /\ \A q \in Procs : ~Writing(q, f)' BY <1>3, <1>7, <1>11, <2>1
    <2> QED BY <2>2 DEF FileOk
  <1>13. \A g \in Files \cap {f} : g \notin damaged' \cup upset' => FileOk(g)' BY <1>12
  <1> DEFINE F == {f}
  <1> HIDE DEF F
  <1>14. PointerInv' BY <1>7, <1>8, <1>9, <1>10, <1>13, OtherFiles DEF F
  <1> QED BY <1>7, <1>11, <1>14

LEMMA NothingChanges ==
  ASSUME PointerInv, UNCHANGED <<files, mine, damaged, upset, pc, reg, cmd>> PROVE PointerInv'
  <1>1. \A q \in Procs : Handed(pc'[q], reg'[q], cmd'[q]) BY DEF PointerInv
  <1>2. ASSUME NEW g \in Files, FileOk(g) PROVE FileOk(g)'
    <2>1. \A q \in Procs : Writing(q, g)' <=> Writing(q, g) BY DEF Writing
    <2>2. files'[g] = files[g] /\ mine'[g] = mine[g] /\ reg' = reg OBVIOUS
    <2> QED BY <1>2, <2>1, <2>2 DEF FileOk
  <1> QED BY <1>1, <1>2 DEF PointerInv

LEMMA EditSteps ==
  ASSUME PointerInv, HomeInv, NEW f \in Files, AddLine(f) \/ Outdate(f) \/ DropEnd(f) \/ Track(f)
  PROVE  PointerInv'
  <1>1. UNCHANGED <<pc, reg, cmd>> BY DEF AddLine, Outdate, DropEnd, Track, Edit, store_vars
  <1>2. \A q \in Procs : Handed(pc'[q], reg'[q], cmd'[q]) BY <1>1 DEF PointerInv
  <1>3. \A g \in Files, q \in Procs :
           /\ Writing(q, g) => pc'[q] = "write file" /\ reg'[q] = reg[q]
           /\ pc'[q] = "write file" /\ reg'[q].for = g => Writing(q, g)
           /\ Writing(q, g)' <=> Writing(q, g)
    BY <1>1 DEF Writing
  <1>4. mine[f] \in Nat /\ damaged \subseteq Files BY DEF PointerInv
  <1>5. ASSUME NEW content, NEW k \in Nat, Edit(f, content), mine' = [mine EXCEPT ![f] = k],
               damaged \subseteq damaged', damaged' \subseteq Files,
               f \notin damaged' /\ Kept(files[f], mine[f]) => Kept(content, k)
        PROVE  PointerInv'
    <2>1. /\ files' = [files EXCEPT ![f] = content]
          /\ upset' = IF \E p \in Procs : Writing(p, f) THEN upset \cup {f} ELSE upset
      BY <1>5 DEF Edit
    <2>2. /\ DOMAIN files' = Files /\ mine' \in [Files -> Nat] /\ files'[f] = content /\ mine'[f] = k
          /\ upset \subseteq upset' /\ upset' \subseteq Files
      BY <1>5, <2>1 DEF PointerInv
    <2>3. \A g \in Files \ {f} : files'[g] = files[g] /\ mine'[g] = mine[g] BY <1>5, <2>1 DEF PointerInv
    <2>4. ASSUME f \notin damaged' \cup upset' PROVE FileOk(f)'
      <3>1. \A p \in Procs : ~Writing(p, f) BY <2>1, <2>4
      <3>2. f \notin damaged \cup upset BY <1>5, <2>2, <2>4
      <3>3. FileOk(f) BY <3>2 DEF PointerInv
      <3>4. Kept(files'[f], mine'[f]) BY <1>5, <2>2, <2>4, <3>1, <3>3 DEF FileOk
      <3>5. \A p \in Procs : ~Writing(p, f)' BY <1>3, <3>1
      <3> QED BY <3>4, <3>5 DEF FileOk
    <2>5. \A g \in Files \cap {f} : g \notin damaged' \cup upset' => FileOk(g)' BY <2>4
    <2> DEFINE F == {f}
    <2> HIDE DEF F
    <2>6. \A g \in Files \ {f}, q \in Procs :
             /\ Writing(q, g) => pc'[q] = "write file" /\ reg'[q] = reg[q]
             /\ pc'[q] = "write file" /\ reg'[q].for = g => Writing(q, g)
      BY <1>3
    <2>7. damaged \subseteq damaged' /\ damaged' \subseteq Files BY <1>5
    <2> QED BY <1>2, <2>2, <2>3, <2>5, <2>6, <2>7, OtherFiles DEF F
  <1>6. CASE AddLine(f)
    <2> DEFINE there == IF files[f] = None THEN <<>> ELSE files[f]
               k == mine[f] + 1
    <2>1. PICK content \in {<<"mine">> \o there, Append(there, "mine")} : Edit(f, content) BY <1>6 DEF AddLine
    <2>2. Kept(files[f], mine[f]) => Kept(content, k) BY <2>1, AddedFacts
    <2>3. mine' = [mine EXCEPT ![f] = k] /\ damaged' = damaged BY <1>6 DEF AddLine
    <2>4. k \in Nat BY <1>4
    <2> HIDE DEF k
    <2> QED BY <1>4, <1>5, <2>1, <2>2, <2>3, <2>4
  <1>7. mine = [mine EXCEPT ![f] = mine[f]] BY DEF PointerInv
  <1>8. CASE Outdate(f)
    <2> DEFINE content == Replaced(files[f], <<"text">>, <<"old">>)
    <2>1. Kept(files[f], mine[f]) => Kept(content, mine[f]) BY <1>8, OutdatedFacts DEF Outdate
    <2>2. Edit(f, content) /\ mine' = mine /\ damaged' = damaged BY <1>8 DEF Outdate
    <2> HIDE DEF content
    <2> QED BY <1>4, <1>5, <1>7, <2>1, <2>2
  <1>9. CASE DropEnd(f)
    <2> DEFINE content == RemoveFirst(files[f], "end")
    <2>1. Edit(f, content) /\ mine' = mine /\ damaged' = damaged \cup {f} BY <1>9 DEF DropEnd
    <2> HIDE DEF content
    <2> QED BY <1>4, <1>5, <1>7, <2>1
  <1>10. CASE Track(f) BY <1>1, <1>10, NothingChanges DEF Track
  <1> QED BY <1>6, <1>8, <1>9, <1>10

\* A process that neither comes from a file it has opened nor goes to one.
LEMMA ElsewhereSteps ==
  ASSUME PointerInv, HomeInv, NEW p \in Procs, UNCHANGED <<files, mine, damaged, upset>>,
         pc[p] # "write file", NEW to, to \notin FilePlaces, pc' = [pc EXCEPT ![p] = to],
         \A q \in Procs : q # p => reg'[q] = reg[q] /\ cmd'[q] = cmd[q]
  PROVE  PointerInv'
  <1>1. pc'[p] = to /\ \A q \in Procs : q # p => pc'[q] = pc[q] BY DEF HomeInv, Work
  <1>2. Handed(pc'[p], reg'[p], cmd'[p]) BY <1>1 DEF Handed
  <1>3. pc'[p] # "write file" BY <1>1 DEF FilePlaces
  <1> QED BY <1>1, <1>2, <1>3, OtherSteps

LEMMA CrashStep ==
  ASSUME PointerInv, HomeInv, NEW p \in Procs, Crash(p) PROVE PointerInv'
  <1>1. DOMAIN pc = Procs /\ DOMAIN reg = Procs /\ DOMAIN cmd = Procs BY DEF HomeInv, Work
  <1>2. /\ pc' = [pc EXCEPT ![p] = "idle"] /\ UNCHANGED <<files, mine, damaged>>
        /\ upset' = upset \cup {f \in Files : Writing(p, f)}
        /\ \A q \in Procs : q # p => reg'[q] = reg[q] /\ cmd'[q] = cmd[q]
    BY <1>1 DEF Crash, Stop, Goto
  <1>3. pc'[p] = "idle" /\ \A q \in Procs : q # p => pc'[q] = pc[q] BY <1>1, <1>2
  <1> DEFINE F == {f \in Files : Writing(p, f)}
  <1>4. \A q \in Procs : Handed(pc'[q], reg'[q], cmd'[q])
    <2> SUFFICES ASSUME NEW q \in Procs PROVE Handed(pc'[q], reg'[q], cmd'[q]) OBVIOUS
    <2>1. Handed(pc[q], reg[q], cmd[q]) BY DEF PointerInv
    <2>2. CASE q = p BY <1>3, <2>2 DEF Handed, FilePlaces
    <2>3. CASE q # p BY <1>2, <1>3, <2>1, <2>3
    <2> QED BY <2>2, <2>3
  <1>5. /\ DOMAIN files' = Files /\ mine' \in [Files -> Nat]
        /\ damaged \subseteq damaged' /\ damaged' \subseteq Files
        /\ upset \subseteq upset' /\ upset' \subseteq Files
    BY <1>2 DEF PointerInv
  <1>6. \A g \in Files \ F, q \in Procs :
           /\ Writing(q, g) => pc'[q] = "write file" /\ reg'[q] = reg[q]
           /\ pc'[q] = "write file" /\ reg'[q].for = g => Writing(q, g)
    BY <1>2, <1>3 DEF Writing
  <1>7. \A g \in Files \cap F : g \notin damaged' \cup upset' => FileOk(g)' BY <1>2
  <1>8. \A g \in Files \ F : files'[g] = files[g] /\ mine'[g] = mine[g] BY <1>2
  <1> HIDE DEF F
  <1> QED BY <1>4, <1>5, <1>6, <1>7, <1>8, OtherFiles

LEMMA PointersGoOn == PointerInv /\ HomeInv /\ [Next]_vars => PointerInv'
  <1> SUFFICES ASSUME PointerInv, HomeInv, [Next]_vars PROVE PointerInv' OBVIOUS
  <1>0. /\ DOMAIN pc = Procs /\ DOMAIN reg = Procs /\ DOMAIN cmd = Procs
        /\ Files \cap FilePlaces = {} /\ "write file" \in FilePlaces
        /\ FilePlaces \cap ({"idle"} \cup RegistryPlaces \cup KeyPlaces) = {}
    BY FileFacts DEF HomeInv, Work, FilePlaces, RegistryPlaces, KeyPlaces
  <1>1. CASE UNCHANGED vars BY <1>1, NothingChanges DEF vars, files_vars, store_vars
  <1>2. CASE \E f \in Files : AddLine(f) \/ Outdate(f) \/ DropEnd(f) \/ Track(f) BY <1>2, EditSteps
  <1>3. ASSUME NEW p \in Procs, NEW f \in Files, PointerStep(p, f) PROVE PointerInv'
    <2>1. CASE Refuse(p, f) \/ KeepPointer(p, f)
      <3>1. pc[p] = f /\ UNCHANGED <<files, mine, damaged, upset>>
        BY <2>1 DEF Refuse, KeepPointer, Handles, files_vars
      <3>2. PICK to : Passed(p, to) BY <2>1, Passes
      <3>3. to \notin FilePlaces
        <4>1. "sync" \in RegistryPlaces BY DEF RegistryPlaces
        <4> QED BY <1>0, <3>2, <4>1 DEF Passed
      <3>4. /\ pc' = [pc EXCEPT ![p] = to]
            /\ \A q \in Procs : q # p => reg'[q] = reg[q] /\ cmd'[q] = cmd[q]
        BY <1>0, <3>2 DEF Passed
      <3>5. pc[p] # "write file" BY <1>0, <3>1
      <3> QED BY <3>1, <3>3, <3>4, <3>5, ElsewhereSteps
    <2> QED BY <1>3, <2>1, ReadStep, OpenStep, WriteStep DEF PointerStep
  <1>4. ASSUME NEW p \in Procs, HomeInit(p) \/ HomeUninstall(p) \/ HomeSync(p) \/ IssueKey(p)
        PROVE  PointerInv'
    <2>1. PICK kind, yes, agent, at :
            Start(p, kind, yes, agent, at) /\ at \in {NextFile(1), "sync", "keys"}
      BY <1>4 DEF HomeInit, HomeUninstall, HomeSync, IssueKey
    <2>2. at \notin FilePlaces
      <3>1. "sync" \in RegistryPlaces /\ "keys" \in KeyPlaces BY DEF RegistryPlaces, KeyPlaces
      <3> QED BY <1>0, <2>1, <3>1, FileFacts
    <2>3. /\ pc[p] = "idle" /\ UNCHANGED <<files, mine, damaged, upset, reg>>
          /\ pc' = [pc EXCEPT ![p] = at] /\ \A q \in Procs : q # p => cmd'[q] = cmd[q]
      BY <1>0, <2>1 DEF Start, Goto, files_vars, store_vars
    <2>4. pc[p] # "write file" BY <2>3
    <2> QED BY <2>2, <2>3, <2>4, ElsewhereSteps
  <1>5. ASSUME NEW p \in Procs,
               \/ Load(p) \/ OpenTmp(p) \/ WriteTmp(p) \/ ReplaceTmp(p)
               \/ LoadKeys(p) \/ OpenKeys(p) \/ WriteKeys(p)
        PROVE  PointerInv'
    <2>1. pc[p] # "write file" /\ UNCHANGED <<files, mine, damaged, upset>>
      BY <1>5 DEF Load, OpenTmp, WriteTmp, ReplaceTmp, LoadKeys, OpenKeys, WriteKeys, files_vars
    <2>2. \E to \in {"idle"} \cup RegistryPlaces \cup KeyPlaces : pc' = [pc EXCEPT ![p] = to]
      BY <1>5 DEF Load, OpenTmp, WriteTmp, ReplaceTmp, LoadKeys, OpenKeys, WriteKeys, Stop, Goto,
                  RegistryPlaces, KeyPlaces
    <2>3. \A q \in Procs : q # p => reg'[q] = reg[q] /\ cmd'[q] = cmd[q]
      BY <1>0, <1>5 DEF Load, OpenTmp, WriteTmp, ReplaceTmp, LoadKeys, OpenKeys, WriteKeys, Stop
    <2>4. PICK to : to \notin FilePlaces /\ pc' = [pc EXCEPT ![p] = to] BY <1>0, <2>2
    <2> QED BY <2>1, <2>3, <2>4, ElsewhereSteps
  <1> QED BY <1>1, <1>2, <1>3, <1>4, <1>5, CrashStep DEF Next, Step, PointerStep

THEOREM PointerInvariant == Spec => [](HomeInv /\ PointerInv)
  <1>1. HomeInv /\ PointerInv /\ [Next]_vars => (HomeInv /\ PointerInv)' BY HomeGoesOn, PointersGoOn
  <1> QED BY <1>1, HomeBegins, PointersBegin, PTL DEF Spec

\* UserLinesKept: whatever the commands and edits, a file whose markers are left alone
\* keeps all lines of the user, and has at most one block, but while it is written and
\* unless a command was killed in between or met a file that had changed since its read
\* (_insert_or_replace, _remove_block).
THEOREM UserLinesAreKept == Spec => []UserLinesKept
  <1>1. PointerInv => UserLinesKept
    <2> SUFFICES ASSUME PointerInv, NEW f \in Files \ (damaged \cup upset), \A p \in Procs : ~Writing(p, f)
                 PROVE  LET c == IF files[f] = None THEN <<>> ELSE files[f]
                        IN  Count(c, "mine") = mine[f] /\ Count(c, "start") = Count(c, "end") /\ Count(c, "start") <= 1
      BY DEF UserLinesKept
    <2>1. Kept(files[f], mine[f]) BY DEF PointerInv, FileOk
    <2>2. <<>> \in Seq(Own) /\ Count(<<>>, "mine") = 0 BY MineOfLiterals
    <2>3. CASE files[f] = None
      <3>1. Count(<<>>, "start") = 0 /\ Count(<<>>, "end") = 0 BY <2>2, NoMarks
      <3> QED BY <2>1, <2>2, <2>3, <3>1 DEF Kept
    <2>4. CASE files[f] # None /\ files[f] \in Seq(Own) BY <2>1, <2>4, NoMarks DEF Kept
    <2>5. CASE files[f] # None /\ files[f] \notin Seq(Own)
      <3>1. PICK u \in Seq(Own), v \in Seq(Own), x \in {"text", "old"} : Blocked(files[f], u, x, v)
        BY <2>1, <2>5 DEF Kept, Sound
      <3> QED BY <2>1, <2>5, <3>1, MarksInBlock DEF Kept
    <2> QED BY <2>3, <2>4, <2>5
  <1> QED BY <1>1, PointerInvariant, PTL

\* BlockFollowsCommand: when it is through with a file init leaves the current text between
\* the markers, and uninstall neither markers nor text.
THEOREM BlocksFollowCommands == Spec => BlockFollowsCommand
  <1>1. HomeInv /\ PointerInv /\ [Next]_vars =>
          [\A p \in Procs : \A f \in Files \ (damaged \cup upset) :
              KeepPointer(p, f) \/ WritePointer(p, f) =>
                 /\ cmd[p].kind = "init" => Managed(files'[f]) = Core
                 /\ cmd[p].kind = "uninstall" /\ files[f] # None =>
                       ~\E line \in {"start", "text", "old", "end"} : Contains(files'[f], line)]_vars
    <2> SUFFICES ASSUME HomeInv, PointerInv, NEW p \in Procs, NEW f \in Files \ (damaged \cup upset),
                        KeepPointer(p, f) \/ WritePointer(p, f)
                 PROVE  /\ cmd[p].kind = "init" => Managed(files'[f]) = Core
                        /\ cmd[p].kind = "uninstall" /\ files[f] # None =>
                              ~\E line \in {"start", "text", "old", "end"} : Contains(files'[f], line)
      OBVIOUS
    <2>1. /\ cmd[p].kind = "init" => Managed(files'[f]) = Core
          /\ cmd[p].kind = "uninstall" /\ files[f] # None => files'[f] \in Seq(Own)
      <3>1. CASE WritePointer(p, f) BY <3>1, WriteStep
      <3>2. CASE KeepPointer(p, f)
        <4>1. PICK k \in Nat : Kept(files[f], k) BY FileIsSound
        <4>2. /\ cmd[p].kind \in {"init", "uninstall"} /\ Changed(cmd[p].kind, f, files[f]) = files[f]
              /\ files' = files
          BY <3>2 DEF KeepPointer, Handles, files_vars
        <4> QED BY <4>1, <4>2, ChangedFacts
      <3> QED BY <3>1, <3>2
    <2>2. ASSUME cmd[p].kind = "uninstall", files[f] # None
          PROVE  ~\E line \in {"start", "text", "old", "end"} : Contains(files'[f], line)
      <3>1. files'[f] \in Seq(Own) BY <2>1, <2>2
      <3>2. \A i \in 1..Len(files'[f]) : files'[f][i] \notin {"start", "text", "old", "end"} BY <3>1, NoMarks
      <3> QED BY <3>2 DEF Contains
    <2> QED BY <2>1, <2>2
  <1> QED BY <1>1, PointerInvariant, PTL DEF Spec, BlockFollowsCommand

-----------------------------------------------------------------------------

\* str.replace of any part that is not empty, in a text of any lines.
LEMMA ReplacedType ==
  ASSUME NEW S, NEW c \in Seq(S), NEW part \in Seq(S), Len(part) >= 1, NEW by \in Seq(S)
  PROVE  Replaced(c, part, by) \in Seq(S)
  <1> DEFINE L == Len(c)
             n == Len(part)
             P(i) == IsPrefix(part, SubSeq(c, i, L))
             Body(h, i) == IF i > L THEN <<>>
                           ELSE IF P(i) THEN by \o h[i + n] ELSE <<c[i]>> \o h[i + 1]
             next(i) == IF P(i) THEN i + n ELSE i + 1
             piece(i) == IF P(i) THEN by ELSE <<c[i]>>
  <1>0. L \in Nat /\ n \in Nat /\ n >= 1 BY LenProperties
  <1>1. Replaced(c, part, by) = (CHOOSE h : h = [i \in 1..L + 1 |-> Body(h, i)])[1] BY DEF Replaced
  <1>2. ASSUME NEW i \in 1..L
        PROVE  /\ next(i) \in i + 1..L + 1 /\ piece(i) \in Seq(S)
               /\ \A h : Body(h, i) = piece(i) \o h[next(i)]
    <2>1. ~(i > L) /\ i \in Nat BY <1>0
    <2>2. P(i) => i + n \in i + 1..L + 1
      <3>1. Len(SubSeq(c, i, L)) = L - i + 1
        <4>1. \A k \in i..L : c[k] \in S OBVIOUS
        <4>2. Len(SubSeq(c, i, L)) = IF i <= L THEN L - i + 1 ELSE 0 BY <1>0, <2>1, <4>1, SubSeqProperties
        <4> QED BY <2>1, <4>2
      <3>2. P(i) => n <= L - i + 1 BY <3>1 DEF IsPrefix
      <3> HIDE DEF P, L, n
      <3> QED BY <1>0, <2>1, <3>2
    <2>3. <<c[i]>> \in Seq(S) OBVIOUS
    <2>4. i + 1 \in i + 1..L + 1 BY <1>0, <2>1
    <2> HIDE DEF P, L, n
    <2> QED BY <2>1, <2>2, <2>3, <2>4
  <1>3. \A h : Body(h, L + 1) = <<>>
    <2>1. L + 1 > L BY <1>0
    <2> QED BY <2>1
  <1> DEFINE Solves(h, j) == h \in [j..L + 1 -> Seq(S)] /\ \A i \in j..L + 1 : h[i] = Body(h, i)
             T == {k \in 0..L : ~\E h : Solves(h, L + 1 - k)}
             U(h) == {k \in 0..L : h[L + 1 - k] \notin Seq(S)}
  <1> HIDE DEF L, n, P, Body, next, piece
  <1>4. T = {}
    <2> SUFFICES ASSUME T # {} PROVE FALSE OBVIOUS
    <2>1. T \subseteq Nat BY <1>0
    <2>2. PICK k \in T : \A l \in T : k <= l
      <3> HIDE DEF T
      <3> QED BY <2>1, LeastNumber
    <2> DEFINE j == L + 1 - k
    <2>3. k \in 0..L /\ ~\E h : Solves(h, j) BY <2>2
    <2>4. j \in 1..L + 1 /\ j \in Nat BY <1>0, <2>3
    <2>5. CASE k = 0
      <3> DEFINE h == [i \in j..L + 1 |-> <<>>]
      <3>1. j = L + 1 BY <1>0, <2>5
      <3>2. \A i \in j..L + 1 : i = L + 1 BY <1>0, <3>1
      <3>3. h \in [j..L + 1 -> Seq(S)] OBVIOUS
      <3>4. \A i \in j..L + 1 : h[i] = Body(h, i) BY <1>3, <3>2
      <3> HIDE DEF h
      <3> QED BY <2>3, <3>3, <3>4
    <2>6. CASE k # 0
      <3>1. k - 1 \in 0..L /\ ~(k <= k - 1) /\ L + 1 - (k - 1) = j + 1 /\ j \in 1..L BY <1>0, <2>3, <2>6
      <3>2. k - 1 \notin T BY <2>2, <3>1
      <3>3. PICK h : Solves(h, j + 1) BY <3>1, <3>2
      <3> DEFINE g == [i \in j..L + 1 |-> IF i = j THEN Body(h, j) ELSE h[i]]
      <3> HIDE DEF j
      <3>4. \A i \in j..L + 1 : i = j \/ i \in j + 1..L + 1 BY <1>0, <2>4
      <3>5. h \in [j + 1..L + 1 -> Seq(S)] /\ \A i \in j + 1..L + 1 : h[i] = Body(h, i) BY <3>3
      <3>6. \A i \in j + 1..L + 1 : i \in j..L + 1 /\ i # j BY <1>0, <2>4
      <3>7. \A i \in j + 1..L + 1 : g[i] = h[i] BY <3>6
      <3>8. Body(h, j) \in Seq(S)
        <4>1. next(j) \in j + 1..L + 1 /\ piece(j) \in Seq(S) /\ Body(h, j) = piece(j) \o h[next(j)]
          BY <1>2, <3>1
        <4>2. h[next(j)] \in Seq(S) BY <3>5, <4>1
        <4> QED BY <4>1, <4>2, ConcatProperties
      <3>9. g \in [j..L + 1 -> Seq(S)] BY <3>4, <3>5, <3>8
      <3>10. ASSUME NEW i \in j..L + 1 PROVE Body(g, i) = Body(h, i)
        <4>1. CASE i = L + 1 BY <1>3, <4>1
        <4>2. CASE i # L + 1
          <5>1. i \in 1..L BY <1>0, <2>4, <4>2
          <5>2. next(i) \in i + 1..L + 1 /\ Body(g, i) = piece(i) \o g[next(i)] /\ Body(h, i) = piece(i) \o h[next(i)]
            BY <1>2, <5>1
          <5>3. next(i) \in j + 1..L + 1 BY <1>0, <2>4, <5>2
          <5>4. g[next(i)] = h[next(i)] BY <3>7, <5>3
          <5> QED BY <5>2, <5>4
        <4> QED BY <4>1, <4>2
      <3>11. ASSUME NEW i \in j..L + 1 PROVE g[i] = Body(h, i)
        <4>1. CASE i = j
          <5>1. j \in j..L + 1 BY <1>0, <2>4
          <5>2. g[j] = Body(h, j) BY <5>1
          <5> QED BY <4>1, <5>2
        <4>2. CASE i \in j + 1..L + 1 BY <3>5, <3>7, <4>2
        <4> QED BY <3>4, <4>1, <4>2
      <3> HIDE DEF g
      <3>12. Solves(g, j) BY <3>9, <3>10, <3>11
      <3> QED BY <2>3, <3>12 DEF j
    <2> QED BY <2>5, <2>6
  <1>5. \E h : h = [i \in 1..L + 1 |-> Body(h, i)]
    <2>1. L \in 0..L /\ L + 1 - L = 1 BY <1>0
    <2>2. L \notin T BY <1>4
    <2>3. PICK h : Solves(h, 1) BY <2>1, <2>2
    <2>4. h = [i \in 1..L + 1 |-> h[i]] BY <2>3
    <2>5. h = [i \in 1..L + 1 |-> Body(h, i)] BY <2>3, <2>4
    <2> QED BY <2>5
  <1> DEFINE from == CHOOSE h : h = [i \in 1..L + 1 |-> Body(h, i)]
  <1>6. from = [i \in 1..L + 1 |-> Body(from, i)] BY <1>5
  <1>7. \A i \in 1..L + 1 : from[i] = Body(from, i)
    <2> HIDE DEF from
    <2> QED BY <1>6
  <1> HIDE DEF from, T, Solves
  <1>8. U(from) = {}
    <2> SUFFICES ASSUME U(from) # {} PROVE FALSE OBVIOUS
    <2>1. U(from) \subseteq Nat BY <1>0
    <2>2. PICK k \in U(from) : \A l \in U(from) : k <= l
      <3> HIDE DEF U
      <3> QED BY <2>1, LeastNumber
    <2> DEFINE j == L + 1 - k
    <2>3. k \in 0..L /\ from[j] \notin Seq(S) BY <2>2
    <2>4. j \in 1..L + 1 /\ j \in Nat /\ k = L + 1 - j BY <1>0, <2>3
    <2> HIDE DEF j
    <2>5. j # L + 1
      <3>1. from[L + 1] = <<>> BY <1>0, <1>3, <1>7
      <3>2. <<>> \in Seq(S) OBVIOUS
      <3> QED BY <2>3, <3>1, <3>2
    <2>6. j \in 1..L BY <1>0, <2>4, <2>5
    <2>7. next(j) \in j + 1..L + 1 /\ piece(j) \in Seq(S) /\ Body(from, j) = piece(j) \o from[next(j)]
      BY <1>2, <2>6
    <2>8. from[next(j)] \in Seq(S)
      <3> DEFINE l == L + 1 - next(j)
      <3>1. l \in 0..L /\ L + 1 - l = next(j) /\ ~(k <= l) BY <1>0, <2>4, <2>7
      <3>2. l \notin U(from) BY <2>2, <3>1
      <3> QED BY <3>1, <3>2
    <2>9. from[j] \in Seq(S) BY <1>7, <2>4, <2>7, <2>8, ConcatProperties
    <2> QED BY <2>3, <2>9
  <1>9. from[1] \in Seq(S)
    <2>1. L \in 0..L /\ L + 1 - L = 1 BY <1>0
    <2> QED BY <1>8, <2>1
  <1> QED BY <1>1, <1>9 DEF from

LEMMA LeastIsMember == ASSUME NEW T, T \subseteq Nat, T # {} PROVE Min(T) \in T
  <1>1. \E k \in T : \A l \in T : k <= l BY LeastNumber
  <1> QED BY <1>1 DEF Min

LEMMA PartType ==
  ASSUME NEW S, NEW c \in Seq(S), NEW i \in Nat, NEW j \in Nat, i >= 1, j <= Len(c)
  PROVE  SubSeq(c, i, j) \in Seq(S)
  <1>1. \A k \in i..j : c[k] \in S OBVIOUS
  <1> QED BY <1>1, SubSeqProperties

LEMMA ManagedType ==
  ASSUME NEW c \in Seq(Lines) PROVE Managed(c) \in Seq(Lines) /\ (Managed(c) # <<>> => Len(Managed(c)) >= 1)
  <1>1. ASSUME NEW from \in Nat, from >= 1, NEW line
        PROVE  Place(c, from, line) \in Nat /\ Place(c, from, line) <= Len(c)
               /\ (Place(c, from, line) # 0 => Place(c, from, line) >= 1)
    <2> DEFINE T == {i \in from..Len(c) : c[i] = line}
    <2>1. Place(c, from, line) = IF T # {} THEN Min(T) ELSE 0 BY DEF Place, SelectInSubSeq
    <2>2. T \subseteq Nat /\ T \subseteq from..Len(c) /\ Len(c) \in Nat BY <1>1
    <2> HIDE DEF T
    <2>3. T # {} => Min(T) \in from..Len(c) BY <2>2, LeastIsMember
    <2> QED BY <1>1, <2>1, <2>2, <2>3
  <1> DEFINE i == Place(c, 1, "start")
             j == IF i = 0 THEN 0 ELSE Place(c, i, "end")
  <1>2. i \in Nat /\ (i # 0 => i >= 1) BY <1>1
  <1>3. Managed(c) = IF j = 0 THEN <<>> ELSE SubSeq(c, i, j) BY DEF Managed
  <1> HIDE DEF i
  <1>4. j \in Nat /\ j <= Len(c) /\ (j # 0 => i # 0) BY <1>1, <1>2
  <1> HIDE DEF j
  <1>5. j # 0 => SubSeq(c, i, j) \in Seq(Lines) BY <1>2, <1>4, PartType
  <1>6. Managed(c) \in Seq(Lines) BY <1>3, <1>5
  <1> QED BY <1>6

LEMMA FileTypes ==
  ASSUME NEW f, NEW c \in Seq(Lines)
  PROVE  /\ Inserted(f, c) \in Seq(Lines) /\ Removed(c) \in Seq(Lines)
         /\ Replaced(c, <<"text">>, <<"old">>) \in Seq(Lines)
         /\ <<"mine">> \o c \in Seq(Lines) /\ Append(c, "mine") \in Seq(Lines)
         /\ RemoveFirst(c, "end") \in Seq(Lines)
  <1>1. BlockOf(f) \in Seq(Lines) /\ <<>> \in Seq(Lines) /\ <<"mine">> \in Seq(Lines)
    BY BlockIsCore, MineOfLiterals, OwnLines
  <1>2. Managed(c) \in Seq(Lines) /\ (Managed(c) # <<>> => Len(Managed(c)) >= 1) BY ManagedType
  <1>3. Inserted(f, c) \in Seq(Lines)
    <2>1. Managed(c) # <<>> => Replaced(c, Managed(c), BlockOf(f)) \in Seq(Lines) BY <1>1, <1>2, ReplacedType
    <2>2. c \o BlockOf(f) \in Seq(Lines) BY <1>1, ConcatProperties
    <2> QED BY <1>1, <2>1, <2>2 DEF Inserted
  <1>4. Removed(c) \in Seq(Lines)
    <2> DEFINE none == <<>>
    <2>1. none \in Seq(Lines) BY <1>1
    <2> HIDE DEF none
    <2>2. Managed(c) # <<>> => Replaced(c, Managed(c), none) \in Seq(Lines) BY <1>2, <2>1, ReplacedType
    <2> QED BY <2>2 DEF Removed, none
  <1>5. Replaced(c, <<"text">>, <<"old">>) \in Seq(Lines)
    <2> DEFINE part == <<"text">>
               by == <<"old">>
    <2>1. part \in Seq(Lines) /\ Len(part) >= 1 /\ by \in Seq(Lines) BY DEF Lines
    <2> HIDE DEF part, by
    <2>2. Replaced(c, part, by) \in Seq(Lines) BY <2>1, ReplacedType
    <2> QED BY <2>2 DEF part, by
  <1>6. <<"mine">> \o c \in Seq(Lines) BY <1>1, ConcatProperties
  <1>7. Append(c, "mine") \in Seq(Lines)
    <2>1. "mine" \in Lines BY DEF Lines
    <2> QED BY <2>1, AppendProperties
  <1>8. RemoveFirst(c, "end") \in Seq(Lines)
    <2> DEFINE T == {i \in 1..Len(c) : c[i] = "end"}
               n == Min(T)
    <2>1. RemoveFirst(c, "end") = IF T # {} THEN SubSeq(c, 1, n - 1) \o SubSeq(c, n + 1, Len(c)) ELSE c
      BY DEF RemoveFirst, RemoveAt, SelectInSeq
    <2>2. T \subseteq Nat /\ T \subseteq 1..Len(c) /\ Len(c) \in Nat OBVIOUS
    <2> HIDE DEF T
    <2>3. T # {} => n \in 1..Len(c) BY <2>2, LeastIsMember
    <2> HIDE DEF n
    <2>4. ASSUME T # {} PROVE SubSeq(c, 1, n - 1) \o SubSeq(c, n + 1, Len(c)) \in Seq(Lines)
      <3>1. n - 1 \in Nat /\ n - 1 <= Len(c) /\ n + 1 \in Nat /\ n + 1 >= 1 BY <2>2, <2>3, <2>4
      <3>2. SubSeq(c, 1, n - 1) \in Seq(Lines) BY <3>1, PartType
      <3>3. SubSeq(c, n + 1, Len(c)) \in Seq(Lines) BY <2>2, <3>1, PartType
      <3> QED BY <3>2, <3>3, ConcatProperties
    <2> QED BY <2>1, <2>4
  <1> QED BY <1>3, <1>4, <1>5, <1>6, <1>7, <1>8

\* Types of the files, of the commands and of the keys.
FilesTyped ==
    /\ files \in [Files -> Seq(Lines) \cup {None}] /\ tracked \subseteq Files /\ {ops, edits} \subseteq Nat
    /\ \A p \in Procs : pc[p] \in FilePlaces => reg[p].new \in Seq(Lines)
    /\ \A p \in Procs : pc[p] = "write file" => files[reg[p].for] # None
CommandsTyped ==
    /\ cmd \in [Procs -> Commands \cup {None}] /\ fd \in [Procs -> {"none", "tmp", "registry", "lost"}]
    /\ \A p \in Procs : pc[p] # "idle" => cmd[p] # None
    /\ {registered, raced, overlapped} \subseteq BOOLEAN
KeysTyped ==
    /\ keys = Torn \/ KeyFile(keys)
    /\ \A p \in Procs : pc[p] \in {"open keys", "write keys"} => KeyFile(reg[p].new)
    /\ issued \in [Agents -> Nat \cup {None}]

HomeTypes == HomeInv /\ PointerInv /\ FilesTyped /\ CommandsTyped /\ KeysTyped

LEMMA TypesBegin == Init => FilesTyped /\ CommandsTyped /\ KeysTyped
  <1> SUFFICES ASSUME Init PROVE FilesTyped /\ CommandsTyped /\ KeysTyped OBVIOUS
  <1>1. FilesTyped BY DEF Init, FilesTyped, FilePlaces
  <1>2. CommandsTyped BY DEF Init, CommandsTyped
  <1>3. KeyFile(NoKeys) BY DEF KeyFile, NoKeys
  <1>4. KeysTyped BY <1>3 DEF Init, KeysTyped
  <1> QED BY <1>1, <1>2, <1>4

LEMMA FilesStay ==
  ASSUME FilesTyped, files' = files, tracked' = tracked, edits' \in Nat, ops' \in Nat,
         \A p \in Procs : pc'[p] \in FilePlaces => pc'[p] = pc[p] /\ reg'[p] = reg[p]
  PROVE  FilesTyped'
  <1>1. \A p \in Procs : pc'[p] \in FilePlaces => reg'[p].new \in Seq(Lines) BY DEF FilesTyped
  <1>2. "write file" \in FilePlaces BY DEF FilePlaces
  <1>3. \A p \in Procs : pc'[p] = "write file" => files'[reg'[p].for] # None BY <1>2 DEF FilesTyped
  <1> QED BY <1>1, <1>3 DEF FilesTyped

LEMMA FileIsWritten ==
  ASSUME FilesTyped, PointerInv, NEW f \in Files, NEW content \in Seq(Lines),
         files' = [files EXCEPT ![f] = content], tracked' = tracked, edits' \in Nat, ops' \in Nat,
         \A p \in Procs : pc'[p] \in FilePlaces => pc[p] \in FilePlaces /\ reg'[p] = reg[p],
         \A p \in Procs : pc'[p] = "write file" => pc[p] = "write file" \/ reg[p].for = f
  PROVE  FilesTyped'
  <1>1. \A p \in Procs : pc'[p] \in FilePlaces => reg'[p].new \in Seq(Lines) BY DEF FilesTyped
  <1>2. ASSUME NEW p \in Procs, pc'[p] = "write file" PROVE files'[reg'[p].for] # None
    <2>1. reg'[p] = reg[p] /\ pc[p] \in FilePlaces BY <1>2 DEF FilePlaces
    <2>2. content # None BY HomeConstants
    <2>3. reg[p].for \in Files BY <2>1 DEF PointerInv, Handed
    <2>4. CASE reg[p].for = f BY <2>1, <2>2, <2>4 DEF FilesTyped
    <2>5. CASE reg[p].for # f
      <3>1. files[reg[p].for] # None BY <1>2, <2>5 DEF FilesTyped
      <3>2. files'[reg[p].for] = files[reg[p].for] BY <2>3, <2>5 DEF FilesTyped
      <3> QED BY <2>1, <3>1, <3>2
    <2> QED BY <2>4, <2>5
  <1>3. files' \in [Files -> Seq(Lines) \cup {None}] BY DEF FilesTyped
  <1> QED BY <1>1, <1>2, <1>3 DEF FilesTyped

LEMMA ReadType ==
  ASSUME HomeTypes, NEW p \in Procs, NEW f \in Files, ReadPointer(p, f) PROVE FilesTyped'
  <1> USE DEF HomeTypes
  <1>1. DOMAIN pc = Procs /\ DOMAIN reg = Procs /\ ops \in Nat /\ edits \in Nat BY DEF HomeInv, Work, FilesTyped
  <1> DEFINE new == Changed(cmd[p].kind, f, files[f])
             r == [for |-> f, old |-> files[f], new |-> new]
  <1>2. /\ cmd[p].kind \in {"init", "uninstall"} /\ new # files[f] /\ reg' = [reg EXCEPT ![p] = r]
        /\ pc' = [pc EXCEPT ![p] = "open file"] /\ UNCHANGED <<files, tracked, edits, ops>>
    BY DEF ReadPointer, Handles, Goto, files_vars
  <1>3. new \in Seq(Lines)
    <2>1. files[f] \in Seq(Lines) \cup {None} BY DEF FilesTyped
    <2>2. CASE files[f] = None
      <3>1. BlockOf(f) \in Seq(Lines) BY BlockIsCore
      <3>2. Inserted(f, None) = BlockOf(f) /\ Removed(None) = None BY DEF Inserted, Removed
      <3> QED BY <1>2, <2>2, <3>1, <3>2 DEF Changed
    <2>3. CASE files[f] \in Seq(Lines) BY <1>2, <2>3, FileTypes DEF Changed
    <2> QED BY <2>1, <2>2, <2>3
  <1>4. r.new = new
    <2> HIDE DEF new
    <2> QED OBVIOUS
  <1> HIDE DEF r, new
  <1>5. ASSUME NEW q \in Procs, pc'[q] \in FilePlaces
        PROVE  reg'[q].new \in Seq(Lines) /\ (pc'[q] = "write file" => files'[reg'[q].for] # None)
    <2>1. CASE q = p
      <3>1. reg'[p] = r /\ pc'[p] = "open file" BY <1>1, <1>2
      <3> QED BY <1>3, <1>4, <2>1, <3>1
    <2>2. CASE q # p
      <3>1. pc'[q] = pc[q] /\ reg'[q] = reg[q] BY <1>1, <1>2, <2>2
      <3> QED BY <1>2, <1>5, <3>1 DEF FilesTyped
    <2> QED BY <2>1, <2>2
  <1>6. "write file" \in FilePlaces BY DEF FilePlaces
  <1> QED BY <1>2, <1>5, <1>6 DEF FilesTyped

LEMMA OpenType ==
  ASSUME HomeTypes, NEW p \in Procs, NEW f \in Files, OpenPointer(p, f) PROVE FilesTyped'
  <1>1. DOMAIN pc = Procs /\ ops \in Nat /\ edits \in Nat BY DEF HomeTypes, HomeInv, Work, FilesTyped
  <1>2. /\ pc[p] = "open file" /\ reg[p].for = f /\ pc' = [pc EXCEPT ![p] = "write file"]
        /\ files' = [files EXCEPT ![f] = <<>>] /\ UNCHANGED <<tracked, edits, ops, reg>>
    BY DEF OpenPointer, Goto, store_vars
  <1>3. \A q \in Procs : pc'[q] = IF q = p THEN "write file" ELSE pc[q] BY <1>1, <1>2
  <1>4. \A q \in Procs : pc'[q] \in FilePlaces => pc[q] \in FilePlaces /\ reg'[q] = reg[q]
    BY <1>2, <1>3 DEF FilePlaces
  <1>5. \A q \in Procs : pc'[q] = "write file" => pc[q] = "write file" \/ reg[q].for = f BY <1>2, <1>3
  <1>6. PointerInv /\ FilesTyped BY DEF HomeTypes
  <1> DEFINE none == <<>>
  <1>7. none \in Seq(Lines) OBVIOUS
  <1>8. files' = [files EXCEPT ![f] = none] BY <1>2
  <1> HIDE DEF none
  <1> QED BY <1>1, <1>2, <1>4, <1>5, <1>6, <1>7, <1>8, FileIsWritten

LEMMA WriteType ==
  ASSUME HomeTypes, NEW p \in Procs, NEW f \in Files, WritePointer(p, f) PROVE FilesTyped'
  <1>1. /\ DOMAIN pc = Procs /\ DOMAIN reg = Procs /\ ops \in Nat /\ edits \in Nat /\ Files \cap FilePlaces = {}
    BY FileFacts DEF HomeTypes, HomeInv, Work, FilesTyped
  <1>2. PICK content \in WrittenOver(reg[p].new, files[f]) : files' = [files EXCEPT ![f] = content]
    BY DEF WritePointer
  <1>3. /\ pc[p] = "write file" /\ reg[p].for = f /\ UNCHANGED <<tracked, edits, ops>>
    BY DEF WritePointer, Writing
  <1>4. content \in Seq(Lines)
    <2> DEFINE text == reg[p].new
               c == files[f]
    <2>1. text \in Seq(Lines) BY <1>3 DEF HomeTypes, FilesTyped, FilePlaces
    <2>2. c \in Seq(Lines) BY <1>3 DEF HomeTypes, FilesTyped
    <2> HIDE DEF text, c
    <2>3. \A k \in 1..Len(c) + 1 : text \o SubSeq(c, k, Len(c)) \in Seq(Lines)
      <3> SUFFICES ASSUME NEW k \in 1..Len(c) + 1 PROVE text \o SubSeq(c, k, Len(c)) \in Seq(Lines) OBVIOUS
      <3>1. Len(c) \in Nat /\ k \in Nat /\ k >= 1 /\ Len(c) <= Len(c) BY <2>2
      <3>2. SubSeq(c, k, Len(c)) \in Seq(Lines) BY <2>2, <3>1, PartType
      <3> QED BY <2>1, <3>2, ConcatProperties
    <2>4. content \in WrittenOver(text, c) BY <1>2 DEF text, c
    <2> QED BY <2>1, <2>3, <2>4 DEF WrittenOver
  <1>5. PICK to : Passed(p, to) BY Passes DEF HomeTypes
  <1>6. to \notin FilePlaces BY <1>1, <1>5 DEF Passed, FilePlaces
  <1>7. \A q \in Procs : pc'[q] \in FilePlaces => pc'[q] = pc[q] /\ reg'[q] = reg[q]
    BY <1>1, <1>5, <1>6 DEF Passed
  <1>8. \A q \in Procs : pc'[q] \in FilePlaces => pc[q] \in FilePlaces /\ reg'[q] = reg[q] BY <1>7
  <1>9. \A q \in Procs : pc'[q] = "write file" => pc[q] = "write file" \/ reg[q].for = f BY <1>7 DEF FilePlaces
  <1>10. PointerInv /\ FilesTyped BY DEF HomeTypes
  <1> QED BY <1>1, <1>2, <1>3, <1>4, <1>8, <1>9, <1>10, FileIsWritten

LEMMA FilesKeepTypes == HomeTypes /\ [Next]_vars => FilesTyped'
  <1> SUFFICES ASSUME HomeTypes, [Next]_vars PROVE FilesTyped' OBVIOUS
  <1>0. PointerInv /\ FilesTyped /\ files \in [Files -> Seq(Lines) \cup {None}] BY DEF HomeTypes, FilesTyped
  <1>1. /\ ops \in Nat /\ edits \in Nat /\ edits + 1 \in Nat /\ ops + 1 \in Nat /\ tracked \subseteq Files
        /\ DOMAIN pc = Procs /\ DOMAIN reg = Procs /\ Files \cap FilePlaces = {}
        /\ FilePlaces \cap ({"idle"} \cup RegistryPlaces \cup KeyPlaces) = {}
    <2>1. ops \in Nat /\ edits \in Nat /\ tracked \subseteq Files BY <1>0 DEF FilesTyped
    <2>2. DOMAIN pc = Procs /\ DOMAIN reg = Procs BY DEF HomeTypes, HomeInv, Work
    <2>3. FilePlaces \cap ({"idle"} \cup RegistryPlaces \cup KeyPlaces) = {}
      BY DEF FilePlaces, RegistryPlaces, KeyPlaces
    <2> QED BY <2>1, <2>2, <2>3, FileFacts
  <1>2. ASSUME NEW p \in Procs, NEW to, to \notin FilePlaces, pc' = [pc EXCEPT ![p] = to],
               \A q \in Procs : q # p => reg'[q] = reg[q],
               files' = files, tracked' = tracked, edits' = edits, ops' \in Nat
        PROVE  FilesTyped'
    <2>1. \A q \in Procs : pc'[q] = IF q = p THEN to ELSE pc[q] BY <1>1, <1>2
    <2>2. \A q \in Procs : pc'[q] \in FilePlaces => pc'[q] = pc[q] /\ reg'[q] = reg[q] BY <1>2, <2>1
    <2> QED BY <1>0, <1>1, <1>2, <2>2, FilesStay
  <1>3. ASSUME NEW f \in Files, AddLine(f) \/ Outdate(f) \/ DropEnd(f) PROVE FilesTyped'
    <2> DEFINE there == IF files[f] = None THEN <<>> ELSE files[f]
    <2>1. there \in Seq(Lines) /\ (files[f] # None => files[f] = there) BY <1>0
    <2>2. PICK content \in {<<"mine">> \o there, Append(there, "mine"), Replaced(there, <<"text">>, <<"old">>),
                            RemoveFirst(there, "end")} : Edit(f, content)
      BY <1>3 DEF AddLine, Outdate, DropEnd
    <2> HIDE DEF there
    <2>3. content \in Seq(Lines) BY <2>1, <2>2, FileTypes
    <2>4. /\ files' = [files EXCEPT ![f] = content] /\ tracked' = tracked /\ edits' = edits + 1 /\ ops' = ops
          /\ UNCHANGED <<pc, reg>>
      BY <2>2 DEF Edit, store_vars
    <2> QED BY <1>0, <1>1, <2>3, <2>4, FileIsWritten
  <1>4. ASSUME NEW f \in Files, Track(f) PROVE FilesTyped'
    <2>1. tracked' = tracked \cup {f} /\ edits' = edits + 1 /\ ops' = ops /\ files' = files /\ UNCHANGED <<pc, reg>>
      BY <1>4 DEF Track, store_vars
    <2> QED BY <1>0, <1>1, <2>1 DEF FilesTyped
  <1>5. ASSUME NEW p \in Procs, HomeInit(p) \/ HomeUninstall(p) \/ HomeSync(p) \/ IssueKey(p) PROVE FilesTyped'
    <2>1. PICK kind, yes, agent, at :
            Start(p, kind, yes, agent, at) /\ at \in {NextFile(1), "sync", "keys"}
      BY <1>5 DEF HomeInit, HomeUninstall, HomeSync, IssueKey
    <2>2. at \notin FilePlaces
      <3>1. "sync" \in RegistryPlaces /\ "keys" \in KeyPlaces BY DEF RegistryPlaces, KeyPlaces
      <3> QED BY <1>1, <2>1, <3>1, FileFacts
    <2>3. /\ ops' = ops + 1 /\ files' = files /\ tracked' = tracked /\ edits' = edits
          /\ pc' = [pc EXCEPT ![p] = at] /\ reg' = reg
      BY <2>1 DEF Start, Goto, files_vars, store_vars
    <2> QED BY <1>1, <1>2, <2>2, <2>3
  <1>6. ASSUME NEW p \in Procs,
               Load(p) \/ OpenTmp(p) \/ WriteTmp(p) \/ ReplaceTmp(p) \/ LoadKeys(p) \/ OpenKeys(p) \/ WriteKeys(p) \/ Crash(p)
        PROVE  FilesTyped'
    <2>1. ops' = ops /\ files' = files /\ tracked' = tracked /\ edits' = edits
      BY <1>6 DEF Load, OpenTmp, WriteTmp, ReplaceTmp, LoadKeys, OpenKeys, WriteKeys, Crash, files_vars
    <2>2. \E to \in {"idle"} \cup RegistryPlaces \cup KeyPlaces : pc' = [pc EXCEPT ![p] = to]
      BY <1>6 DEF Load, OpenTmp, WriteTmp, ReplaceTmp, LoadKeys, OpenKeys, WriteKeys, Crash, Stop, Goto,
                  RegistryPlaces, KeyPlaces
    <2>3. \A q \in Procs : q # p => reg'[q] = reg[q]
      BY <1>1, <1>6 DEF Load, OpenTmp, WriteTmp, ReplaceTmp, LoadKeys, OpenKeys, WriteKeys, Crash, Stop
    <2>4. PICK to : to \notin FilePlaces /\ pc' = [pc EXCEPT ![p] = to] BY <1>1, <2>2
    <2> QED BY <1>1, <1>2, <2>1, <2>3, <2>4
  <1>7. ASSUME NEW p \in Procs, NEW f \in Files, Refuse(p, f) \/ KeepPointer(p, f) PROVE FilesTyped'
    <2>1. ops' = ops /\ files' = files /\ tracked' = tracked /\ edits' = edits
      BY <1>7 DEF Refuse, KeepPointer, files_vars
    <2>2. PICK to : Passed(p, to) BY <1>7, Passes DEF HomeTypes
    <2>3. to \notin FilePlaces BY <1>1, <2>2 DEF Passed, FilePlaces
    <2>4. pc' = [pc EXCEPT ![p] = to] /\ \A q \in Procs : q # p => reg'[q] = reg[q] BY <1>1, <2>2 DEF Passed
    <2> QED BY <1>1, <1>2, <2>1, <2>3, <2>4
  <1>8. CASE UNCHANGED vars
    <2>1. ops' = ops /\ files' = files /\ tracked' = tracked /\ edits' = edits /\ UNCHANGED <<pc, reg>>
      BY <1>8 DEF vars, files_vars, store_vars
    <2> QED BY <1>0, <1>1, <2>1, FilesStay
  <1> QED BY <1>3, <1>4, <1>5, <1>6, <1>7, <1>8, ReadType, OpenType, WriteType DEF Next, Step

\* A step of p ends its command, or leaves the commands alone; others keep theirs.
LEMMA CommandGoesOn ==
  ASSUME HomeTypes, NEW p \in Procs, NEW to, pc' = [pc EXCEPT ![p] = to],
         \/ to = "idle" /\ cmd' = [cmd EXCEPT ![p] = None]
         \/ pc[p] # "idle" /\ cmd' = cmd,
         fd' \in [Procs -> {"none", "tmp", "registry", "lost"}],
         {registered', raced', overlapped'} \subseteq BOOLEAN
  PROVE  CommandsTyped'
  <1>1. DOMAIN pc = Procs BY DEF HomeTypes, HomeInv, Work
  <1>2. cmd' \in [Procs -> Commands \cup {None}] BY DEF HomeTypes, CommandsTyped
  <1>3. ASSUME NEW q \in Procs, pc'[q] # "idle" PROVE cmd'[q] # None
    <2>1. CASE q = p BY <1>1, <1>3, <2>1 DEF HomeTypes, CommandsTyped
    <2>2. CASE q # p BY <1>1, <1>3, <2>2 DEF HomeTypes, CommandsTyped
    <2> QED BY <2>1, <2>2
  <1> QED BY <1>2, <1>3 DEF CommandsTyped

LEMMA CommandsKeepTypes == HomeTypes /\ [Next]_vars => CommandsTyped'
  <1> SUFFICES ASSUME HomeTypes, [Next]_vars PROVE CommandsTyped' OBVIOUS
  <1>0. /\ CommandsTyped /\ DOMAIN pc = Procs /\ ops \in Nat
        /\ Files \cap {"idle"} = {}
    BY FileFacts DEF HomeTypes, HomeInv, Work, FilesTyped
  <1>1. /\ cmd \in [Procs -> Commands \cup {None}] /\ fd \in [Procs -> {"none", "tmp", "registry", "lost"}]
        /\ {registered, raced, overlapped} \subseteq BOOLEAN
    BY <1>0 DEF CommandsTyped
  <1>2. ASSUME NEW p \in Procs, NEW to \in {"none", "tmp"} PROVE [fd EXCEPT ![p] = to] \in [Procs -> {"none", "tmp", "registry", "lost"}]
    BY <1>1
  <1>3. ASSUME NEW p \in Procs, pc[p] # "idle", Stop(p),
               {registered', raced', overlapped'} \subseteq BOOLEAN
        PROVE  CommandsTyped'
    <2>1. pc' = [pc EXCEPT ![p] = "idle"] /\ cmd' = [cmd EXCEPT ![p] = None] /\ fd' = [fd EXCEPT ![p] = "none"]
      BY <1>3 DEF Stop, Goto
    <2> QED BY <1>2, <1>3, <2>1, CommandGoesOn
  <1>4. ASSUME NEW p \in Procs, HomeInit(p) \/ HomeUninstall(p) \/ HomeSync(p) \/ IssueKey(p) PROVE CommandsTyped'
    <2>1. PICK kind \in {"init", "uninstall", "sync", "key"}, yes \in BOOLEAN, agent \in Agents \cup {None},
               at \in Files \cup {"sync", "keys"} : Start(p, kind, yes, agent, at)
      BY <1>4, FileFacts DEF HomeInit, HomeUninstall, HomeSync, IssueKey
    <2> DEFINE c == [kind |-> kind, yes |-> yes, agent |-> agent, serial |-> IF kind = "key" THEN ops ELSE 0]
    <2>2. c \in Commands BY <1>0 DEF Commands
    <2>3. cmd' = [cmd EXCEPT ![p] = c] /\ pc' = [pc EXCEPT ![p] = at] /\ UNCHANGED <<fd, registered, raced, overlapped>>
      BY <2>1 DEF Start, Goto, store_vars
    <2>4. c # None BY <2>2, HomeConstants DEF HomeConstants
    <2> HIDE DEF c
    <2>5. \A q \in Procs : pc'[q] # "idle" => cmd'[q] # None
      <3> SUFFICES ASSUME NEW q \in Procs, pc'[q] # "idle" PROVE cmd'[q] # None OBVIOUS
      <3>1. CASE q = p BY <1>1, <2>3, <2>4, <3>1
      <3>2. CASE q # p BY <1>0, <1>1, <2>3, <3>2 DEF CommandsTyped
      <3> QED BY <3>1, <3>2
    <2>6. cmd' \in [Procs -> Commands \cup {None}] BY <1>1, <2>2, <2>3
    <2> QED BY <1>1, <2>3, <2>5, <2>6 DEF CommandsTyped
  <1>5. ASSUME NEW p \in Procs, NEW f \in Files, PointerStep(p, f) PROVE CommandsTyped'
    <2>1. pc[p] # "idle" /\ UNCHANGED <<registered, raced, overlapped>>
      BY <1>0, <1>5 DEF PointerStep, Refuse, KeepPointer, ReadPointer, Handles, OpenPointer, WritePointer, Writing,
                        store_vars
    <2>2. CASE Refuse(p, f) \/ KeepPointer(p, f) \/ WritePointer(p, f)
      <3>1. PICK to : Passed(p, to) BY <2>2, Passes DEF HomeTypes
      <3>2. /\ pc' = [pc EXCEPT ![p] = to]
            /\ \/ to = "idle" /\ cmd' = [cmd EXCEPT ![p] = None]
               \/ cmd' = cmd
            /\ fd' = fd \/ fd' = [fd EXCEPT ![p] = "none"]
        BY <3>1 DEF Passed
      <3>3. fd' \in [Procs -> {"none", "tmp", "registry", "lost"}] BY <1>1, <1>2, <3>2
      <3>4. {registered', raced', overlapped'} \subseteq BOOLEAN BY <1>1, <2>1
      <3> QED BY <2>1, <3>2, <3>3, <3>4, CommandGoesOn
    <2>3. CASE ReadPointer(p, f) \/ OpenPointer(p, f)
      <3>1. PICK to : pc' = [pc EXCEPT ![p] = to] BY <2>3 DEF ReadPointer, OpenPointer, Goto
      <3>2. cmd' = cmd /\ fd' = fd BY <2>3 DEF ReadPointer, OpenPointer, store_vars
      <3>3. {registered', raced', overlapped'} \subseteq BOOLEAN BY <1>1, <2>1
      <3> QED BY <1>1, <2>1, <3>1, <3>2, <3>3, CommandGoesOn
    <2> QED BY <1>5, <2>2, <2>3 DEF PointerStep
  <1>6. ASSUME NEW p \in Procs, Load(p) \/ LoadKeys(p) PROVE CommandsTyped'
    <2>1. pc[p] # "idle" /\ UNCHANGED <<registered, raced, overlapped>> BY <1>6 DEF Load, LoadKeys
    <2>2. CASE Stop(p) BY <1>1, <1>3, <2>1, <2>2
    <2>3. CASE UNCHANGED <<cmd, fd>> /\ (Goto(p, "open") \/ Goto(p, "open keys"))
      BY <1>1, <2>1, <2>3, CommandGoesOn DEF Goto
    <2> QED BY <1>6, <2>2, <2>3 DEF Load, LoadKeys
  <1>7. ASSUME NEW p \in Procs, OpenTmp(p) PROVE CommandsTyped'
    <2>1. /\ pc[p] # "idle" /\ cmd' = cmd /\ fd' = [fd EXCEPT ![p] = "tmp"] /\ pc' = [pc EXCEPT ![p] = "write"]
          /\ registered' = registered /\ raced' = raced
      BY <1>7 DEF OpenTmp, Goto
    <2>2. overlapped' \in BOOLEAN
      <3>1. overlapped' = (overlapped \/ Others(p, {"write", "replace"})) BY <1>7 DEF OpenTmp
      <3> QED BY <3>1, Zenon
    <2> QED BY <1>1, <1>2, <2>1, <2>2, CommandGoesOn
  <1>8. ASSUME NEW p \in Procs, WriteTmp(p) PROVE CommandsTyped'
    <2>1. /\ pc[p] # "idle" /\ cmd' = cmd /\ fd' = [fd EXCEPT ![p] = "none"] /\ pc' = [pc EXCEPT ![p] = "replace"]
          /\ UNCHANGED <<registered, raced, overlapped>>
      BY <1>8 DEF WriteTmp, Goto
    <2> QED BY <1>1, <1>2, <2>1, CommandGoesOn
  <1>9. ASSUME NEW p \in Procs, ReplaceTmp(p) PROVE CommandsTyped'
    <2>1. pc[p] # "idle" /\ overlapped' = overlapped BY <1>9 DEF ReplaceTmp
    <2>2. CASE Stop(p) /\ UNCHANGED <<registered, raced>> BY <1>1, <1>3, <2>1, <2>2
    <2>3. CASE tmp # None
      <3>1. registered' \in BOOLEAN
        <4>1. registered' = (registered \/ reg[p].for = "register") BY <1>9, <2>3 DEF ReplaceTmp
        <4> QED BY <4>1, Zenon
      <3>2. raced' \in BOOLEAN
        <4>1. raced' = (raced \/ registry # reg[p].old) BY <1>9, <2>3 DEF ReplaceTmp
        <4> QED BY <4>1, Zenon
      <3>3. fd' \in [Procs -> {"none", "tmp", "registry", "lost"}]
        <4>1. \A q \in Procs : Renamed(fd[q]) \in {"none", "tmp", "registry", "lost"} BY <1>1 DEF Renamed
        <4> QED BY <1>9, <2>3, <4>1 DEF ReplaceTmp
      <3>4. \/ pc' = [pc EXCEPT ![p] = "register"] /\ cmd' = cmd
            \/ pc' = [pc EXCEPT ![p] = "idle"] /\ cmd' = [cmd EXCEPT ![p] = None]
        BY <1>9, <2>3 DEF ReplaceTmp, Goto
      <3> QED BY <1>1, <2>1, <3>1, <3>2, <3>3, <3>4, CommandGoesOn
    <2> QED BY <1>9, <2>2, <2>3 DEF ReplaceTmp
  <1>10. ASSUME NEW p \in Procs, OpenKeys(p) PROVE CommandsTyped'
    <2>1. /\ pc[p] # "idle" /\ cmd' = cmd /\ fd' = fd /\ pc' = [pc EXCEPT ![p] = "write keys"]
          /\ registered' = registered
      BY <1>10 DEF OpenKeys, Goto
    <2>2. overlapped' \in BOOLEAN
      <3>1. overlapped' = (overlapped \/ Others(p, {"write keys"})) BY <1>10 DEF OpenKeys
      <3> QED BY <3>1, Zenon
    <2>3. raced' \in BOOLEAN
      <3>1. raced' = (raced \/ keys # reg[p].old) BY <1>10 DEF OpenKeys
      <3> QED BY <3>1, Zenon
    <2> QED BY <1>1, <2>1, <2>2, <2>3, CommandGoesOn
  <1>11. ASSUME NEW p \in Procs, WriteKeys(p) \/ Crash(p) PROVE CommandsTyped'
    <2>1. pc[p] # "idle" /\ Stop(p) /\ UNCHANGED <<registered, raced, overlapped>> BY <1>11 DEF WriteKeys, Crash
    <2> QED BY <1>1, <1>3, <2>1
  <1>12. ASSUME UNCHANGED <<cmd, fd, pc, registered, raced, overlapped>> PROVE CommandsTyped'
    BY <1>0, <1>12 DEF CommandsTyped
  <1>13. ASSUME NEW f \in Files, AddLine(f) \/ Outdate(f) \/ DropEnd(f) \/ Track(f) PROVE CommandsTyped'
    <2>1. UNCHANGED <<cmd, fd, pc, registered, raced, overlapped>>
      BY <1>13 DEF AddLine, Outdate, DropEnd, Track, Edit, store_vars
    <2> QED BY <1>12, <2>1
  <1>14. CASE UNCHANGED vars
    <2>1. UNCHANGED <<cmd, fd, pc, registered, raced, overlapped>> BY <1>14 DEF vars, store_vars
    <2> QED BY <1>12, <2>1
  <1> QED BY <1>4, <1>5, <1>6, <1>7, <1>8, <1>9, <1>10, <1>11, <1>13, <1>14 DEF Next, Step, PointerStep

\* Nobody but a process that loads the keys comes to have keys in hand.
LEMMA KeysStay ==
  ASSUME KeysTyped, keys' = keys, issued' = issued,
         \A p \in Procs : pc'[p] \in {"open keys", "write keys"} =>
            pc[p] \in {"open keys", "write keys"} /\ reg'[p] = reg[p]
  PROVE  KeysTyped'
  <1>1. \A p \in Procs : pc'[p] \in {"open keys", "write keys"} => KeyFile(reg'[p].new) BY DEF KeysTyped
  <1>2. KeysTyped' = /\ keys' = Torn \/ KeyFile(keys')
                     /\ \A p \in Procs : pc'[p] \in {"open keys", "write keys"} => KeyFile(reg'[p].new)
                     /\ issued' \in [Agents -> Nat \cup {None}]
    BY DEF KeysTyped, KeyFile
  <1> QED BY <1>1, <1>2 DEF KeysTyped

\* A process that goes to a place where it has no keys in hand.
LEMMA GoesFromKeys ==
  ASSUME HomeTypes, NEW p \in Procs, NEW to, to \notin {"open keys", "write keys"},
         pc' = [pc EXCEPT ![p] = to], \A q \in Procs : q # p => reg'[q] = reg[q],
         keys' = keys, issued' = issued
  PROVE  KeysTyped'
  <1>1. \A q \in Procs : pc'[q] = IF q = p THEN to ELSE pc[q] BY DEF HomeTypes, HomeInv, Work
  <1>2. \A q \in Procs : pc'[q] \in {"open keys", "write keys"} =>
           pc[q] \in {"open keys", "write keys"} /\ reg'[q] = reg[q]
    BY <1>1
  <1>3. KeysTyped BY DEF HomeTypes
  <1> QED BY <1>2, <1>3, KeysStay

LEMMA CommandHere ==
  ASSUME HomeTypes, NEW p \in Procs, pc[p] \in KeyPlaces
  PROVE  cmd[p].agent \in Agents /\ cmd[p].serial \in Nat
  <1>1. cmd[p].agent \in Agents BY DEF HomeTypes, HomeInv, Work
  <1>2. cmd[p] \in Commands
    <2>1. pc[p] # "idle" BY DEF KeyPlaces
    <2>2. cmd[p] # None /\ cmd[p] \in Commands \cup {None} BY <2>1 DEF HomeTypes, CommandsTyped
    <2> QED BY <2>2
  <1>3. cmd[p].serial \in Nat BY <1>2 DEF Commands
  <1> QED BY <1>1, <1>3

LEMMA KeysKeepTypes == HomeTypes /\ [Next]_vars => KeysTyped'
  <1> SUFFICES ASSUME HomeTypes, [Next]_vars PROVE KeysTyped' OBVIOUS
  <1>0. KeysTyped /\ DOMAIN pc = Procs /\ DOMAIN reg = Procs BY DEF HomeTypes, HomeInv, Work
  <1>1. Files \cap {"open keys", "write keys"} = {} BY FileFacts DEF KeyPlaces
  <1>2. ASSUME NEW p \in Procs, Stop(p), keys' = keys, issued' = issued PROVE KeysTyped'
    <2>1. pc' = [pc EXCEPT ![p] = "idle"] /\ \A q \in Procs : q # p => reg'[q] = reg[q]
      BY <1>0, <1>2 DEF Stop, Goto
    <2> QED BY <1>2, <2>1, GoesFromKeys
  <1>3. ASSUME NEW p \in Procs, HomeInit(p) \/ HomeUninstall(p) \/ HomeSync(p) \/ IssueKey(p) PROVE KeysTyped'
    <2>1. PICK at \in Files \cup {"sync", "keys"} :
             pc' = [pc EXCEPT ![p] = at] /\ UNCHANGED <<reg, keys, issued>>
      BY <1>3, FileFacts DEF HomeInit, HomeUninstall, HomeSync, IssueKey, Start, Goto, store_vars
    <2> QED BY <1>1, <2>1, GoesFromKeys
  <1>4. ASSUME NEW p \in Procs, NEW f \in Files, PointerStep(p, f) PROVE KeysTyped'
    <2>1. keys' = keys /\ issued' = issued
      BY <1>4 DEF PointerStep, Refuse, KeepPointer, ReadPointer, OpenPointer, WritePointer, store_vars
    <2>2. CASE Refuse(p, f) \/ KeepPointer(p, f) \/ WritePointer(p, f)
      <3>1. PICK to : Passed(p, to) BY <2>2, Passes DEF HomeTypes
      <3>2. to \notin {"open keys", "write keys"} BY <1>1, <3>1 DEF Passed
      <3>3. pc' = [pc EXCEPT ![p] = to] /\ \A q \in Procs : q # p => reg'[q] = reg[q] BY <1>0, <3>1 DEF Passed
      <3> QED BY <2>1, <3>2, <3>3, GoesFromKeys
    <2>3. CASE ReadPointer(p, f) \/ OpenPointer(p, f)
      <3>1. PICK to \in {"open file", "write file"} : pc' = [pc EXCEPT ![p] = to]
        BY <2>3 DEF ReadPointer, OpenPointer, Goto
      <3>2. \A q \in Procs : q # p => reg'[q] = reg[q] BY <1>0, <2>3 DEF ReadPointer, OpenPointer, store_vars
      <3> QED BY <2>1, <3>1, <3>2, GoesFromKeys
    <2> QED BY <1>4, <2>2, <2>3 DEF PointerStep
  <1>5. ASSUME NEW p \in Procs, Load(p) PROVE KeysTyped'
    <2>1. keys' = keys /\ issued' = issued BY <1>5 DEF Load
    <2>2. CASE registry = Torn
      <3>1. Stop(p) BY <1>5, <2>2 DEF Load
      <3> QED BY <1>2, <2>1, <3>1
    <2>3. CASE registry # Torn
      <3>1. pc' = [pc EXCEPT ![p] = "open"] /\ \A q \in Procs : q # p => reg'[q] = reg[q]
        BY <1>0, <1>5, <2>3 DEF Load, Goto
      <3> QED BY <2>1, <3>1, GoesFromKeys
    <2> QED BY <2>2, <2>3
  <1>6. ASSUME NEW p \in Procs, OpenTmp(p) \/ WriteTmp(p) PROVE KeysTyped'
    <2>1. PICK at \in {"write", "replace"} : pc' = [pc EXCEPT ![p] = at]
      BY <1>6 DEF OpenTmp, WriteTmp, Goto
    <2>2. UNCHANGED <<reg, keys, issued>> BY <1>6 DEF OpenTmp, WriteTmp
    <2> QED BY <2>1, <2>2, GoesFromKeys
  <1>7. ASSUME NEW p \in Procs, ReplaceTmp(p) PROVE KeysTyped'
    <2>1. keys' = keys /\ issued' = issued BY <1>7 DEF ReplaceTmp
    <2>2. PICK at \in {"register", "idle"} : pc' = [pc EXCEPT ![p] = at]
      BY <1>7 DEF ReplaceTmp, Stop, Goto
    <2>3. \A q \in Procs : q # p => reg'[q] = reg[q] BY <1>0, <1>7 DEF ReplaceTmp, Stop
    <2> QED BY <2>1, <2>2, <2>3, GoesFromKeys
  <1>8. ASSUME NEW p \in Procs, LoadKeys(p) PROVE KeysTyped'
    <2>1. keys' = keys /\ issued' = issued /\ pc[p] = "keys" BY <1>8 DEF LoadKeys
    <2>2. CASE keys = Torn
      <3>1. Stop(p) BY <1>8, <2>2 DEF LoadKeys
      <3> QED BY <1>2, <2>1, <3>1
    <2>3. CASE keys # Torn
      <3> DEFINE new == WithKey(keys, cmd[p].agent, cmd[p].serial)
      <3>1. pc' = [pc EXCEPT ![p] = "open keys"] /\ reg' = [reg EXCEPT ![p] = [for |-> "key", old |-> keys, new |-> new]]
        BY <1>8, <2>3 DEF LoadKeys, Goto
      <3>2. KeyFile(new)
        <4>1. cmd[p].agent \in Agents /\ cmd[p].serial \in Nat BY <2>1, CommandHere DEF KeyPlaces
        <4>2. KeyFile(keys) BY <1>0, <2>3 DEF KeysTyped
        <4> QED BY <4>1, <4>2 DEF WithKey, KeyFile
      <3> HIDE DEF new
      <3>3. ASSUME NEW q \in Procs, pc'[q] \in {"open keys", "write keys"} PROVE KeyFile(reg'[q].new)
        <4>1. CASE q = p
          <5>1. reg'[p].new = new BY <1>0, <3>1
          <5> QED BY <3>2, <4>1, <5>1
        <4>2. CASE q # p
          <5>1. reg'[q] = reg[q] /\ pc'[q] = pc[q] BY <1>0, <3>1, <4>2
          <5>2. KeyFile(reg[q].new) BY <1>0, <3>3, <5>1 DEF KeysTyped
          <5> QED BY <5>1, <5>2
        <4> QED BY <4>1, <4>2
      <3> QED BY <1>0, <2>1, <3>3 DEF KeysTyped, KeyFile
    <2> QED BY <2>2, <2>3
  <1>9. ASSUME NEW p \in Procs, OpenKeys(p) PROVE KeysTyped'
    <2>1. /\ pc[p] = "open keys" /\ pc' = [pc EXCEPT ![p] = "write keys"] /\ UNCHANGED <<reg, issued>>
          /\ keys' = Torn
      BY <1>9 DEF OpenKeys, Goto
    <2>2. \A q \in Procs : pc'[q] \in {"open keys", "write keys"} => pc[q] \in {"open keys", "write keys"}
      BY <1>0, <2>1
    <2> QED BY <1>0, <2>1, <2>2 DEF KeysTyped, KeyFile
  <1>10. ASSUME NEW p \in Procs, WriteKeys(p) PROVE KeysTyped'
    <2>1. /\ pc[p] = "write keys" /\ Stop(p) /\ keys' \in {reg[p].new, Torn}
          /\ issued' = [issued EXCEPT ![cmd[p].agent] = cmd[p].serial]
      BY <1>10 DEF WriteKeys, Over
    <2>2. KeyFile(reg[p].new) BY <1>0, <2>1 DEF KeysTyped
    <2>3. keys' = Torn \/ KeyFile(keys') BY <2>1, <2>2
    <2>4. issued' \in [Agents -> Nat \cup {None}]
      <3>1. cmd[p].agent \in Agents /\ cmd[p].serial \in Nat BY <2>1, CommandHere DEF KeyPlaces
      <3> QED BY <1>0, <2>1, <3>1 DEF KeysTyped
    <2>5. ASSUME NEW q \in Procs, pc'[q] \in {"open keys", "write keys"} PROVE KeyFile(reg'[q].new)
      <3>1. q # p /\ pc'[q] = pc[q] /\ reg'[q] = reg[q] BY <1>0, <2>1, <2>5 DEF Stop, Goto
      <3>2. KeyFile(reg[q].new) BY <1>0, <2>5, <3>1 DEF KeysTyped
      <3> QED BY <3>1, <3>2
    <2> QED BY <2>3, <2>4, <2>5 DEF KeysTyped, KeyFile
  <1>11. ASSUME NEW p \in Procs, Crash(p) PROVE KeysTyped'
    <2>1. Stop(p) /\ keys' = keys /\ issued' = issued BY <1>11 DEF Crash
    <2> QED BY <1>2, <2>1
  <1>12. ASSUME UNCHANGED <<pc, reg, keys, issued>> PROVE KeysTyped'
    BY <1>0, <1>12, KeysStay
  <1>13. ASSUME NEW f \in Files, AddLine(f) \/ Outdate(f) \/ DropEnd(f) \/ Track(f) PROVE KeysTyped'
    <2>1. UNCHANGED <<pc, reg, keys, issued>> BY <1>13 DEF AddLine, Outdate, DropEnd, Track, Edit, store_vars
    <2> QED BY <1>12, <2>1
  <1>14. CASE UNCHANGED vars
    <2>1. UNCHANGED <<pc, reg, keys, issued>> BY <1>14 DEF vars, store_vars
    <2> QED BY <1>12, <2>1
  <1> QED BY <1>3, <1>4, <1>5, <1>6, <1>7, <1>8, <1>9, <1>10, <1>11, <1>13, <1>14 DEF Next, Step, PointerStep

\* Every variable of the pointer files, the registry, the keys and the commands holds a
\* value of its type, whatever the processes do at once: a process that goes on has its
\* command, one that saves has a registry to save, and one that writes keys has keys.
THEOREM HomeIsTypeCorrect == Spec => []TypeOK
  <1>1. Init => HomeTypes BY HomeBegins, PointersBegin, TypesBegin DEF HomeTypes
  <1>2. HomeTypes /\ [Next]_vars => HomeTypes'
    <2> SUFFICES ASSUME HomeTypes, [Next]_vars PROVE HomeTypes' OBVIOUS
    <2>1. HomeInv' BY HomeGoesOn DEF HomeTypes
    <2>2. PointerInv' BY PointersGoOn DEF HomeTypes
    <2> QED BY <2>1, <2>2, FilesKeepTypes, CommandsKeepTypes, KeysKeepTypes DEF HomeTypes
  <1>3. HomeTypes => TypeOK
    <2> SUFFICES ASSUME HomeTypes PROVE TypeOK OBVIOUS
    <2> USE DEF HomeTypes
    <2>1. /\ files \in [Files -> Seq(Lines) \cup {None}] /\ tracked \subseteq Files
          /\ {ops, edits} \subseteq Nat
      BY DEF FilesTyped
    <2>2. /\ registry \in Records \cup {None, Torn} /\ tmp \in Records \cup {None, Torn}
          /\ touched \in [Procs -> SUBSET Files]
      BY DEF HomeInv, Work
    <2>3. pc \in [Procs -> Files \cup {"idle", "sync", "register", "open", "write", "replace",
                                       "open file", "write file", "keys", "open keys", "write keys"}]
      <3>1. Files \cup {"idle"} \cup FilePlaces \cup RegistryPlaces \cup KeyPlaces =
               Files \cup {"idle", "sync", "register", "open", "write", "replace",
                           "open file", "write file", "keys", "open keys", "write keys"}
        BY DEF FilePlaces, RegistryPlaces, KeyPlaces
      <3> QED BY <3>1 DEF HomeInv, Work
    <2>4. /\ cmd \in [Procs -> Commands \cup {None}] /\ fd \in [Procs -> {"none", "tmp", "registry", "lost"}]
          /\ {registered, raced, overlapped} \subseteq BOOLEAN
      BY DEF CommandsTyped
    <2>5. /\ keys = Torn \/ KeyFile(keys)
          /\ issued \in [Agents -> Nat \cup {None}]
      BY DEF KeysTyped
    <2>6. ASSUME NEW p \in Procs
          PROVE  /\ pc[p] # "idle" => cmd[p] # None
                 /\ pc[p] \in {"open", "write", "replace"} => reg[p].new \in Records
                 /\ pc[p] \in {"open keys", "write keys"} => KeyFile(reg[p].new)
                 /\ pc[p] \in {"open file", "write file"} => reg[p].for \in Files /\ reg[p].new \in Seq(Lines)
      <3>1. pc[p] # "idle" => cmd[p] # None BY DEF CommandsTyped
      <3>2. pc[p] \in {"open", "write", "replace"} => reg[p].new \in Records
        BY DEF HomeInv, Work, RegistryWork
      <3>3. pc[p] \in {"open keys", "write keys"} => KeyFile(reg[p].new) BY DEF KeysTyped
      <3>4. pc[p] \in {"open file", "write file"} => reg[p].for \in Files /\ reg[p].new \in Seq(Lines)
        BY DEF FilesTyped, FilePlaces, PointerInv, Handed
      <3> QED BY <3>1, <3>2, <3>3, <3>4
    <2>7. mine \in [Files -> Nat] /\ damaged \subseteq Files /\ upset \subseteq Files BY DEF PointerInv
    <2> QED BY <2>1, <2>2, <2>3, <2>4, <2>5, <2>6, <2>7 DEF TypeOK
  <1> QED BY <1>1, <1>2, <1>3, PTL DEF Spec
=============================================================================
