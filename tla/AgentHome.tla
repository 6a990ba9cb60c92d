----------------------------- MODULE AgentHome -----------------------------
(***************************************************************************)
(* construct-zero home: init, uninstall, sync and agents key (home/cli.py, *)
(* pointers.py, registry.py, identity.py), run by several processes at     *)
(* once: the user's shells, construct-zero run, and the adapter's          *)
(* GET /cz/v1/agents, which syncs.                                         *)
(*                                                                         *)
(* A pointer file is the user's and has a managed block; it is read, and   *)
(* what becomes of it is written in place.  The registry is loaded,        *)
(* changed and saved through a temporary file that all processes share;    *)
(* the keys are written in place; nothing is locked.                       *)
(*                                                                         *)
(* Abstractions: a pointer file is a sequence of lines of the user, of the *)
(* front matter, markers and the text between them; the registry is its    *)
(* record of the one project (the detected agents are left out); of a key  *)
(* file that is not completely written nothing can be read.  A file's text *)
(* is written in one step after the file was truncated in another.         *)
(* AGENTS.md and CLAUDE.md are treated alike, so that one of them is       *)
(* enough for Files.                                                       *)
(***************************************************************************)
EXTENDS Naturals, SequencesExt

CONSTANTS
    Procs, Agents,
    Files,             \* the pointer files
    MaxOps,            \* bound: commands
    MaxEdits,          \* bound: what the user does to the pointer files
    None,              \* no file, no key
    Torn               \* a file that is not completely written

Order == <<"AGENTS.md", "CLAUDE.md", "cz-home.mdc">>
Lines == {"mine", "front", "start", "text", "old", "end"}
Records == [listed : BOOLEAN, pointers : SUBSET Files]
Commands == [kind : {"init", "uninstall", "sync", "key"}, yes : BOOLEAN, agent : Agents \cup {None}, serial : Nat]

ASSUME HomeConstants ==
    /\ Files \subseteq Range(Order) /\ Files # {}
    /\ {MaxOps, MaxEdits} \subseteq Nat
    /\ None \notin Agents \cup Records \cup Commands \cup Seq(Lines)
    /\ Torn \notin Records \cup {None}

VARIABLES
    files, tracked,    \* the pointer files; those git tracks
    registry, tmp,     \* registry.json and registry.tmp
    keys,              \* agent-keys.json; there are no keys in a file that does not exist
    pc, cmd,
    touched,           \* apply_pointers' result
    reg, fd,           \* what a process has read and makes of it; the file its descriptor is at
    mine, damaged,     \* history: the user's lines in a file; the files whose markers were edited
    upset,             \* history: the files that changed while a command had them in hand, or
                       \* were left truncated by a kill
    issued,            \* history: the key last printed for an agent
    registered,        \* history: an init has returned 0
    raced, overlapped, \* history: a file was replaced that had changed since it was loaded;
                       \* two processes had the temporary file in hand
    ops, edits

NoKeys == [a \in {} |-> None]

files_vars == <<files, tracked, mine, damaged, upset, edits>>
store_vars == <<registry, tmp, keys, reg, fd, issued, registered, raced, overlapped>>
vars == <<files_vars, store_vars, pc, cmd, touched, ops>>

Init ==
    /\ files = [f \in Files |-> None] /\ tracked = {}
    /\ registry = None /\ tmp = None /\ keys = NoKeys
    /\ pc = [p \in Procs |-> "idle"] /\ cmd = [p \in Procs |-> None]
    /\ touched = [p \in Procs |-> {}]
    /\ reg = [p \in Procs |-> None] /\ fd = [p \in Procs |-> "none"]
    /\ mine = [f \in Files |-> 0] /\ damaged = {} /\ upset = {}
    /\ issued = [a \in Agents |-> None] /\ registered = FALSE
    /\ raced = FALSE /\ overlapped = FALSE /\ ops = 0 /\ edits = 0

Goto(p, l) == pc' = [pc EXCEPT ![p] = l]

-----------------------------------------------------------------------------
(* Pointer files.                                                          *)

Core == <<"start", "text", "end">>
BlockOf(f) == IF f = "cz-home.mdc" THEN <<"front">> \o Core ELSE Core

Place(c, from, line) == SelectInSubSeq(c, from, Len(c), LAMBDA l : l = line)

\* _managed_block: from the first start marker to the next end marker, or <<>>.
Managed(c) ==
    LET i == Place(c, 1, "start")
        j == IF i = 0 THEN 0 ELSE Place(c, i, "end")
    IN  IF j = 0 THEN <<>> ELSE SubSeq(c, i, j)

\* str.replace: every occurrence of part.
Replaced(c, part, by) ==
    LET from[i \in 1..Len(c) + 1] ==
            IF i > Len(c) THEN <<>>
            ELSE IF IsPrefix(part, SubSeq(c, i, Len(c)))
                 THEN by \o from[i + Len(part)]
                 ELSE <<c[i]>> \o from[i + 1]
    IN  from[1]

\* Mutated: a block that is there is taken to be the current one.
Inserted_Present(f, c) ==
    IF c = None THEN BlockOf(f)
    ELSE IF Managed(c) # <<>> THEN c
    ELSE c \o BlockOf(f)

\* _insert_or_replace.
Inserted(f, c) ==
    IF c = None THEN BlockOf(f)
    ELSE IF Managed(c) = BlockOf(f) THEN c
    ELSE IF Managed(c) # <<>> THEN Replaced(c, Managed(c), BlockOf(f))
    ELSE c \o BlockOf(f)

\* Mutated: all from the start marker on is removed.
Removed_Rest(c) ==
    IF c = None \/ Managed(c) = <<>> THEN c ELSE SubSeq(c, 1, Place(c, 1, "start") - 1)

\* _remove_block: a file that becomes empty stays.
Removed(c) == IF c = None \/ Managed(c) = <<>> THEN c ELSE Replaced(c, Managed(c), <<>>)

-----------------------------------------------------------------------------
(* Commands.                                                               *)

Start(p, kind, yes, agent, at) ==
    /\ pc[p] = "idle" /\ ops < MaxOps
    /\ ops' = ops + 1
    /\ cmd' = [cmd EXCEPT ![p] = [kind |-> kind, yes |-> yes, agent |-> agent,
                                serial |-> IF kind = "key" THEN ops ELSE 0]]
    /\ Goto(p, at)
    /\ UNCHANGED <<files_vars, store_vars, touched>>

\* The pointer files follow each other, the registry comes last.
NextFile(n) ==
    LET left == {k \in n..3 : Order[k] \in Files} IN
    IF left = {} THEN "sync" ELSE Order[Min(left)]

HomeInit(p) ==
    \E yes \in BOOLEAN, at \in {NextFile(1), "sync"} :     \* sync: --no-pointers
        Start(p, "init", yes, None, at)
HomeUninstall(p) == Start(p, "uninstall", FALSE, None, NextFile(1))
HomeSync(p) == Start(p, "sync", FALSE, None, "sync")
IssueKey(p) == \E a \in Agents : Start(p, "key", FALSE, a, "keys")

Writing(p, f) == pc[p] = "write file" /\ reg[p].for = f

\* The command ends, in an error or because its process is killed.
Stop(p) ==
    /\ Goto(p, "idle")
    /\ cmd' = [cmd EXCEPT ![p] = None]
    /\ reg' = [reg EXCEPT ![p] = None]
    /\ fd' = [fd EXCEPT ![p] = "none"]
    /\ touched' = [touched EXCEPT ![p] = {}]

Crash(p) ==
    /\ pc[p] # "idle" /\ Stop(p)
    /\ upset' = upset \cup {f \in Files : Writing(p, f)}
    /\ UNCHANGED <<files, tracked, mine, damaged, edits, registry, tmp, keys, issued, registered, raced, overlapped, ops>>

After(f) == NextFile(1 + CHOOSE n \in 1..3 : Order[n] = f)

\* init does not touch AGENTS.md or CLAUDE.md in git without --yes, and ends there.
Refuses(p, f) == f # "cz-home.mdc" /\ f \in tracked /\ ~cmd[p].yes

Refuse(p, f) ==
    /\ pc[p] = f /\ cmd[p].kind = "init" /\ Refuses(p, f)
    /\ Stop(p)
    /\ UNCHANGED <<files_vars, registry, tmp, keys, issued, registered, raced, overlapped, ops>>

\* What the command makes of a file.
Changed(kind, f, c) == IF kind = "init" THEN Inserted(f, c) ELSE Removed(c)

Handles(p, f) ==
    /\ pc[p] = f /\ cmd[p].kind \in {"init", "uninstall"}
    /\ cmd[p].kind = "init" => ~Refuses(p, f)

\* The command goes on to the next file; uninstall ends with the last one.
PassFile(p, f, found) ==
    IF cmd[p].kind = "uninstall" /\ After(f) = "sync"
    THEN Stop(p)
    ELSE /\ Goto(p, After(f))
         /\ reg' = [reg EXCEPT ![p] = None]
         /\ touched' = [touched EXCEPT ![p] = found]
         /\ UNCHANGED <<cmd, fd>>

\* A file that is as it should be is not written.
KeepPointer(p, f) ==
    /\ Handles(p, f) /\ Changed(cmd[p].kind, f, files[f]) = files[f]
    /\ PassFile(p, f, touched[p])
    /\ UNCHANGED <<files_vars, registry, tmp, keys, issued, registered, raced, overlapped, ops>>

ReadPointer(p, f) ==
    /\ Handles(p, f) /\ Changed(cmd[p].kind, f, files[f]) # files[f]
    /\ reg' = [reg EXCEPT ![p] =
                  [for |-> f, old |-> files[f], new |-> Changed(cmd[p].kind, f, files[f])]]
    /\ Goto(p, "open file")
    /\ UNCHANGED <<files_vars, registry, tmp, keys, issued, registered, raced, overlapped, cmd, fd,
                   touched, ops>>

OpenPointer(p, f) ==
    /\ pc[p] = "open file" /\ reg[p].for = f
    /\ files' = [files EXCEPT ![f] = <<>>]
    /\ upset' = IF files[f] # reg[p].old \/ \E q \in Procs : Writing(q, f)
                THEN upset \cup {f} ELSE upset
    /\ Goto(p, "write file")
    /\ UNCHANGED <<tracked, mine, damaged, edits, store_vars, cmd, touched, ops>>

\* The text is written from the file's beginning, over what may be there by now.
WrittenOver(text, c) ==
    IF c = <<>> THEN {text} ELSE {text \o SubSeq(c, k, Len(c)) : k \in 1..Len(c) + 1}

WritePointer(p, f) ==
    /\ Writing(p, f)
    /\ \E content \in WrittenOver(reg[p].new, files[f]) : files' = [files EXCEPT ![f] = content]
    /\ PassFile(p, f, IF cmd[p].kind = "init" THEN touched[p] \cup {f} ELSE touched[p])
    /\ UNCHANGED <<tracked, mine, damaged, upset, edits, registry, tmp, keys, issued, registered,
                   raced, overlapped, ops>>

-----------------------------------------------------------------------------
(* The registry.                                                           *)

\* Mutated: sync starts a registry of its own.
Loaded_New == [listed |-> FALSE, pointers |-> {}]

Loaded == IF registry = None THEN [listed |-> FALSE, pointers |-> {}] ELSE registry

\* sync_registry loads; register_project loads again and replaces the project's record.
Load(p) ==
    /\ pc[p] \in {"sync", "register"}
    /\ IF registry = Torn
       THEN Stop(p)
       ELSE /\ reg' = [reg EXCEPT ![p] =
                   [for |-> pc[p], old |-> registry,
                    new |-> IF pc[p] = "sync" THEN Loaded ELSE [listed |-> TRUE, pointers |-> touched[p]]]]
            /\ Goto(p, "open")
            /\ UNCHANGED <<cmd, fd, touched>>
    /\ UNCHANGED <<files_vars, registry, tmp, keys, issued, registered, raced, overlapped, ops>>

Others(p, places) == \E q \in Procs \ {p} : pc[q] \in places

\* Mutated: the registry is written in place.
OpenedTmp_InPlace == registry' = Torn /\ UNCHANGED tmp

\* The temporary file is created, or truncated as it lies there.
OpenedTmp == tmp' = Torn /\ UNCHANGED registry

OpenTmp(p) ==
    /\ pc[p] = "open"
    /\ OpenedTmp
    /\ fd' = [fd EXCEPT ![p] = "tmp"]
    /\ overlapped' = (overlapped \/ Others(p, {"write", "replace"}))
    /\ Goto(p, "write")
    /\ UNCHANGED <<files_vars, keys, reg, issued, registered, raced, cmd, touched, ops>>

\* What a file holds after text is written over it: a longer text shows its end.
Over(text, content) == IF content = Torn THEN {text} ELSE {text, Torn}

\* The write goes to the file that was opened, whatever its name is by now.
WriteTmp(p) ==
    /\ pc[p] = "write"
    /\ IF fd[p] = "tmp" THEN tmp' \in Over(reg[p].new, tmp) ELSE UNCHANGED tmp
    /\ IF fd[p] = "registry" THEN registry' \in Over(reg[p].new, registry) ELSE UNCHANGED registry
    /\ fd' = [fd EXCEPT ![p] = "none"]
    /\ Goto(p, "replace")
    /\ UNCHANGED <<files_vars, keys, reg, issued, registered, raced, overlapped, cmd, touched, ops>>

Renamed(place) == CASE place = "tmp" -> "registry" [] place = "registry" -> "lost" [] OTHER -> place

\* init saves the project's record after the detected agents.
StillRegisters(p) == cmd[p].kind = "init" /\ reg[p].for = "sync"

ReplaceTmp(p) ==
    /\ pc[p] = "replace"
    /\ IF tmp = None                       \* FileNotFoundError
       THEN Stop(p) /\ UNCHANGED <<registry, tmp, registered, raced>>
       ELSE /\ registry' = tmp
            /\ tmp' = None
            /\ raced' = (raced \/ registry # reg[p].old)
            /\ registered' = (registered \/ reg[p].for = "register")
            /\ fd' = [q \in Procs |-> Renamed(fd[q])]
            /\ IF StillRegisters(p)
               THEN Goto(p, "register") /\ UNCHANGED <<cmd, reg, touched>>
               ELSE /\ Goto(p, "idle")
                    /\ cmd' = [cmd EXCEPT ![p] = None]
                    /\ reg' = [reg EXCEPT ![p] = None]
                    /\ touched' = [touched EXCEPT ![p] = {}]
    /\ UNCHANGED <<files_vars, keys, issued, overlapped, ops>>

-----------------------------------------------------------------------------
(* The keys.                                                               *)

\* Mutated: the file is written with the new key only.
WithKey_Alone(k, a, key) == [x \in {a} |-> key]

WithKey(k, a, key) == [x \in {a} \cup DOMAIN k |-> IF x = a THEN key ELSE k[x]]

LoadKeys(p) ==
    /\ pc[p] = "keys"
    /\ IF keys = Torn
       THEN Stop(p)
       ELSE /\ reg' = [reg EXCEPT ![p] =
                   [for |-> "key", old |-> keys, new |-> WithKey(keys, cmd[p].agent, cmd[p].serial)]]
            /\ Goto(p, "open keys")
            /\ UNCHANGED <<cmd, fd, touched>>
    /\ UNCHANGED <<files_vars, registry, tmp, keys, issued, registered, raced, overlapped, ops>>

OpenKeys(p) ==
    /\ pc[p] = "open keys"
    /\ keys' = Torn
    /\ raced' = (raced \/ keys # reg[p].old)
    /\ overlapped' = (overlapped \/ Others(p, {"write keys"}))
    /\ Goto(p, "write keys")
    /\ UNCHANGED <<files_vars, registry, tmp, reg, fd, issued, registered, cmd, touched, ops>>

\* The key is printed once it is written.
WriteKeys(p) ==
    /\ pc[p] = "write keys"
    /\ keys' \in Over(reg[p].new, keys)
    /\ issued' = [issued EXCEPT ![cmd[p].agent] = cmd[p].serial]
    /\ Stop(p)
    /\ UNCHANGED <<files_vars, registry, tmp, registered, raced, overlapped, ops>>

-----------------------------------------------------------------------------
(* The user.                                                               *)

Edit(f, content) ==
    /\ edits < MaxEdits /\ edits' = edits + 1
    /\ files' = [files EXCEPT ![f] = content]
    /\ upset' = IF \E p \in Procs : Writing(p, f) THEN upset \cup {f} ELSE upset
    /\ UNCHANGED <<tracked, store_vars, pc, cmd, touched, ops>>

\* A line before or after what is there.
AddLine(f) ==
    LET c == IF files[f] = None THEN <<>> ELSE files[f] IN
    /\ \E content \in {<<"mine">> \o c, Append(c, "mine")} : Edit(f, content)
    /\ mine' = [mine EXCEPT ![f] = @ + 1]
    /\ UNCHANGED damaged

\* The managed text is edited, or of another release.
Outdate(f) ==
    /\ files[f] # None /\ Contains(files[f], "text")
    /\ Edit(f, Replaced(files[f], <<"text">>, <<"old">>))
    /\ UNCHANGED <<mine, damaged>>

\* The end marker is deleted.
DropEnd(f) ==
    /\ files[f] # None /\ Contains(files[f], "end")
    /\ Edit(f, RemoveFirst(files[f], "end"))
    /\ damaged' = damaged \cup {f}
    /\ UNCHANGED mine

Track(f) ==
    /\ files[f] # None /\ f \notin tracked
    /\ edits < MaxEdits /\ edits' = edits + 1
    /\ tracked' = tracked \cup {f}
    /\ UNCHANGED <<files, mine, damaged, upset, store_vars, pc, cmd, touched, ops>>

-----------------------------------------------------------------------------
Step(p) ==
    \/ \E f \in Files : Refuse(p, f) \/ KeepPointer(p, f) \/ ReadPointer(p, f)
                        \/ OpenPointer(p, f) \/ WritePointer(p, f)
    \/ Load(p) \/ OpenTmp(p) \/ WriteTmp(p) \/ ReplaceTmp(p)
    \/ LoadKeys(p) \/ OpenKeys(p) \/ WriteKeys(p)

Next ==
    \/ \E p \in Procs :
          HomeInit(p) \/ HomeUninstall(p) \/ HomeSync(p) \/ IssueKey(p) \/ Step(p) \/ Crash(p)
    \/ \E f \in Files : AddLine(f) \/ Outdate(f) \/ DropEnd(f) \/ Track(f)

Spec == Init /\ [][Next]_vars

-----------------------------------------------------------------------------
(* Properties.                                                             *)

Count(c, line) == Cardinality({i \in DOMAIN c : c[i] = line})

KeyFile(k) == DOMAIN k \subseteq Agents /\ \A a \in DOMAIN k : k[a] \in Nat

\* Every variable holds a value of its type.
TypeOK ==
    /\ files \in [Files -> Seq(Lines) \cup {None}] /\ tracked \subseteq Files
    /\ registry \in Records \cup {None, Torn} /\ tmp \in Records \cup {None, Torn}
    /\ keys = Torn \/ KeyFile(keys)
    /\ pc \in [Procs -> Files \cup {"idle", "sync", "register", "open", "write", "replace",
                                    "open file", "write file", "keys", "open keys", "write keys"}]
    /\ cmd \in [Procs -> Commands \cup {None}] /\ touched \in [Procs -> SUBSET Files]
    /\ fd \in [Procs -> {"none", "tmp", "registry", "lost"}]
    /\ \A p \in Procs :
          /\ pc[p] # "idle" => cmd[p] # None
          /\ pc[p] \in {"open", "write", "replace"} => reg[p].new \in Records
          /\ pc[p] \in {"open keys", "write keys"} => KeyFile(reg[p].new)
          /\ pc[p] \in {"open file", "write file"} => reg[p].for \in Files /\ reg[p].new \in Seq(Lines)
    /\ mine \in [Files -> Nat] /\ damaged \subseteq Files /\ upset \subseteq Files
    /\ issued \in [Agents -> Nat \cup {None}]
    /\ {registered, raced, overlapped} \subseteq BOOLEAN /\ {ops, edits} \subseteq Nat

\* Whatever the order of init, uninstall and edits, a file whose markers the user
\* leaves alone keeps all lines the user wrote, and has at most one block, but while it
\* is written, and unless it changed between the read and the write of a command or the
\* command was killed between truncating the file and writing it (_insert_or_replace
\* and _remove_block write in place).
UserLinesKept ==
    \A f \in Files \ (damaged \cup upset) :
        (\A p \in Procs : ~Writing(p, f)) =>
            LET c == IF files[f] = None THEN <<>> ELSE files[f] IN
            Count(c, "mine") = mine[f] /\ Count(c, "start") = Count(c, "end") /\ Count(c, "start") <= 1

\* With a file it need not write and with one it writes, init leaves the current text
\* between the markers, and uninstall neither markers nor text, of the same files.
BlockFollowsCommand ==
    [][\A p \in Procs : \A f \in Files \ (damaged \cup upset) :
          KeepPointer(p, f) \/ WritePointer(p, f) =>
              /\ cmd[p].kind = "init" => Managed(files'[f]) = Core
              /\ cmd[p].kind = "uninstall" /\ files[f] # None =>
                    ~\E line \in {"start", "text", "old", "end"} : Contains(files'[f], line)]_vars

\* The user's lines survive whenever a command is killed and whatever happens at the same
\* time: what the code does not give.
LinesSurviveKills ==
    \A f \in Files \ damaged :
        files[f] # None /\ (\A p \in Procs : ~Writing(p, f)) => Count(files[f], "mine") >= mine[f]

\* A process that is killed at any point leaves a registry that can be read, as
\* long as no two save at once.
RegistryReadable == ~overlapped => registry # Torn

\* A project stays registered, as long as nobody saves a registry that has changed
\* since it was loaded.
RegistrationKept ==
    registered /\ ~raced /\ ~overlapped => registry \notin {None, Torn} /\ registry.listed

\* The key last printed for an agent is the one in the file, as long as issues do
\* not overlap and the file is whole.
KeyVerifies ==
    ~raced /\ ~overlapped /\ keys # Torn =>
        \A a \in Agents : issued[a] # None => a \in DOMAIN keys /\ keys[a] = issued[a]

\* test_pointer_idempotent: a second init leaves a file as the first has left it.
InitIsIdempotent ==
    [][\A p \in Procs, f \in Files :
          ReadPointer(p, f) /\ cmd[p].kind = "init" =>
              files[f] = None \/ Managed(files[f]) # Core]_vars
=============================================================================
