------------------------------ MODULE VoiceNav ------------------------------
(***************************************************************************)
(* Voice turns: the page asks or navigates, the server routes the words to *)
(* the presentation engine or to Hermes, and keeps a session per document  *)
(* (voice server.py and session_store.py, vpl engine.py and intents.py).   *)
(*                                                                         *)
(* The endpoints are coroutines without an await between reading the       *)
(* session and answering: the event loop runs one turn at a time, so a     *)
(* turn is one action.  Its answer is on the way while other pages take    *)
(* turns.  The pages are the browser tabs.                                 *)
(*                                                                         *)
(* Abstractions: words are what parse_intent makes of them; what is spoken *)
(* is its kind and the items it contains, cut to a first sentence or not.  *)
(***************************************************************************)
EXTENDS SpeechDocument

CONSTANTS
    Tabs, Sids,
    Replies,           \* what Hermes may answer: records of lines and wordy
    MaxTurns,          \* bound: turns and page loads
    None

Ordinals == 4          \* _ORDINALS: "first" to "fourth", "1" to "4"

\* What is said: a command, the name of a group, or a question.
Plain(kind) == [kind |-> kind, group |-> 0]
Pick(b) == [kind |-> "group", group |-> b]
Words == {Plain(kind) : kind \in {"stop", "repeat", "read_all", "next", "back", "question"}}
            \cup {Pick(b) : b \in 1..MaxBuckets}

Doc(reply) == [lines |-> reply.lines, items |-> ItemsOf(reply.lines), buckets |-> Buckets(reply.lines)]
Docs == {Doc(reply) : reply \in Replies}

ASSUME VoiceConstants ==
    /\ MaxTurns \in Nat
    /\ None \notin Tabs \cup Sids \cup Docs \cup [sid : Sids \cup {None}, doc : Docs \cup {None}]
    /\ \A reply \in Replies : reply.lines \in Seq(LineKinds) /\ reply.wordy \in BOOLEAN

VARIABLES
    store,             \* SessionStore._sessions
    tab,               \* page -> [sid, doc]: its session id and the document on its screen
    answer,            \* page -> the [sid, doc] of the answer on its way, or None
    local,             \* localStorage: cz_voice_session_id
    heard,             \* history: page -> the items of the group it picked, as it heard them
    behind,            \* history: the pages whose session moved on without telling them
    used, turns

vars == <<store, tab, answer, local, heard, behind, used, turns>>

Said(kind, items, cut) == [kind |-> kind, items |-> items, cut |-> cut]
TheMap == Said("map", <<>>, FALSE)

Init ==
    /\ store = [s \in {} |-> None]
    /\ tab = [t \in Tabs |-> [sid |-> None, doc |-> None]]
    /\ answer = [t \in Tabs |-> None]
    /\ local = None
    /\ heard = [t \in Tabs |-> None]
    /\ behind = {} /\ used = {} /\ turns = 0

-----------------------------------------------------------------------------
(* The presentation engine.                                                *)

\* What words that name a group may mean: an ordinal, or the label that is most alike.
Meanings(word, doc) ==
    IF word.kind = "group" /\ word.group \notin 1..Least(Ordinals, Len(doc.buckets))
    THEN {Plain("question")} \cup {Pick(b) : b \in DOMAIN doc.buckets}
    ELSE {word}

\* item_text cuts a long item unless all of it is asked for.
ItemSpeech(doc, k) == Said("item", <<k>>, doc.lines[k] = "long")

\* A group of several items is introduced by a summary with the first sentence of the
\* first one, whatever its length.
BucketSpeech(doc, b, i) ==
    LET items == doc.buckets[b] IN
    IF i = 0 /\ Len(items) > 1
    THEN Said("summary", <<items[1]>>, TRUE)
    ELSE ItemSpeech(doc, items[i + 1])

\* Mutated: the item index is not assigned.
SpeakBucket_KeepsItem(s, b, i) ==
    [s EXCEPT !.phase = "deepen", !.bucket = b, !.last = BucketSpeech(s.doc, b, i)]

SpeakBucket(s, b, i) ==
    [s EXCEPT !.phase = "deepen", !.bucket = b, !.item = i, !.last = BucketSpeech(s.doc, b, i)]

\* The session goes on as s, having said what it says last; or says something else.
Goes(s) == [to |-> s, says |-> s.last]
Stays(s, kind) == [to |-> s, says |-> Said(kind, <<>>, FALSE)]

ReadAll(s) ==
    [s EXCEPT !.phase = "deepen", !.bucket = 1, !.item = 0,
              !.last = Said("all", SubSeq(s.doc.items, 1, Least(3, Len(s.doc.items))), FALSE)]

\* step: the session afterwards, or None, and what is spoken.
Step(s, intent) ==
    CASE intent.kind = "stop" -> [to |-> None, says |-> Said("stopped", <<>>, FALSE)]
      [] intent.kind = "repeat" -> Goes(s)
      [] intent.kind = "read_all" -> Goes(ReadAll(s))
      [] intent.kind = "back" -> Goes([s EXCEPT !.phase = "wait", !.bucket = 0, !.item = 0, !.last = TheMap])
      [] intent.kind = "group" -> Goes(SpeakBucket(s, intent.group, 0))
      [] intent.kind = "next" ->
            IF s.bucket = 0 THEN Stays(s, "pick")
            ELSE IF s.item + 1 >= Len(s.doc.buckets[s.bucket]) THEN Stays(s, "end")
            ELSE Goes(SpeakBucket(s, s.bucket, s.item + 1))

-----------------------------------------------------------------------------
(* The server.                                                             *)

\* Mutated: a session that is stored is not replaced by another document's.
Put_Keeps(s) ==
    [x \in DOMAIN store \cup {s.sid} |->
        IF x = s.sid /\ (x \in DOMAIN store => store[x].doc = s.doc) THEN s ELSE store[x]]

Put(s) == [x \in DOMAIN store \cup {s.sid} |-> IF x = s.sid THEN s ELSE store[x]]
Delete(sid) == [x \in DOMAIN store \ {sid} |-> store[x]]

\* A page takes one turn at a time.  Left out: sendTurn does not check busy, so a
\* recording that was going on while a chip was pressed is sent along with it.
Turn(t) == turns < MaxTurns /\ turns' = turns + 1 /\ answer[t] = None

\* The pages with the session id of page t.
Sharing(t) == IF tab[t].sid = None THEN {t} ELSE {u \in Tabs : tab[u].sid = tab[t].sid}

Answered(t, sid, doc, items) ==
    /\ answer' = [answer EXCEPT ![t] = [sid |-> sid, doc |-> doc]]
    /\ heard' = [u \in Tabs |-> IF u = t THEN items ELSE IF u \in Sharing(t) THEN None ELSE heard[u]]
    /\ behind' = (behind \cup Sharing(t)) \ {t}

\* The synthesis fails after the session was stored: the page shows an error, and
\* keeps its session id, and its chips.
Unanswered(t) ==
    /\ heard' = [u \in Tabs |-> IF u \in Sharing(t) THEN None ELSE heard[u]]
    /\ behind' = behind \cup Sharing(t)
    /\ UNCHANGED answer

\* What the page has heard of the group it picked, after an answer.
HeardAfter(t, intent, says) ==
    CASE intent.kind = "group" -> says.items
      [] intent.kind = "next" /\ heard[t] # None -> heard[t] \o says.items
      [] intent.kind = "repeat" -> heard[t]
      [] OTHER -> None

Navigate(t, intent) ==
    LET s == store[tab[t].sid]
        step == Step(s, intent)
        stopped == step.to = None
    IN
    /\ store' = IF stopped THEN Delete(s.sid) ELSE Put(step.to)
    /\ UNCHANGED used
    /\ \/ Answered(t, IF stopped THEN None ELSE s.sid, s.doc, HeardAfter(t, intent, step.says))
       \/ Unanswered(t)

\* begin: a document that is read out in groups gets a new session.
Begun(sid, doc) ==
    [sid |-> sid, doc |-> doc, phase |-> "wait", last |-> TheMap, bucket |-> 0, item |-> 0]

\* The words are asked of Hermes, which fails or answers.
Ask(t) ==
    \/ UNCHANGED <<store, answer, heard, behind, used>>
    \/ \E reply \in Replies :
          IF Layered(reply.lines, reply.wordy)
          THEN \E sid \in IF tab[t].sid # None THEN {tab[t].sid} ELSE Sids \ used :
                  /\ store' = Put(Begun(sid, Doc(reply)))
                  /\ used' = used \cup {sid}
                  /\ Answered(t, sid, Doc(reply), None) \/ Unanswered(t)
          ELSE /\ store' = Delete(tab[t].sid)
               /\ UNCHANGED used
               /\ Answered(t, None, Doc(reply), None) \/ Unanswered(t)

HasSession(t) == tab[t].sid \in DOMAIN store

\* POST /turn: words that navigate a session, or a question.
Speak(t) ==
    /\ Turn(t)
    /\ UNCHANGED <<tab, local>>
    /\ \E word \in Words :
          IF HasSession(t)
          THEN \E intent \in Meanings(word, store[tab[t].sid].doc) :
                  IF intent.kind = "question" THEN Ask(t) ELSE Navigate(t, intent)
          ELSE Ask(t)

\* A chip sends the number of its group.
ChipWord(b) == Pick(b)

\* POST /nav from a chip: without a session 404; words that do not navigate delete it.
PressChip(t) ==
    /\ Turn(t)
    /\ UNCHANGED <<tab, local>>
    /\ tab[t].sid # None /\ tab[t].doc # None
    /\ \E b \in DOMAIN tab[t].doc.buckets :
          IF ~HasSession(t) THEN UNCHANGED <<store, answer, heard, behind, used>>
          ELSE \E intent \in Meanings(ChipWord(b), store[tab[t].sid].doc) :
                  IF intent.kind = "question"
                  THEN store' = Delete(tab[t].sid) /\ UNCHANGED <<answer, heard, behind, used>>
                  ELSE Navigate(t, intent)

\* The answer reaches the page: it shows the document, and keeps the session id,
\* here and in localStorage.
Deliver(t) ==
    /\ answer[t] # None
    /\ tab' = [tab EXCEPT ![t] = answer[t]]
    /\ local' = answer[t].sid
    /\ answer' = [answer EXCEPT ![t] = None]
    /\ UNCHANGED <<store, heard, behind, used, turns>>

\* A page is loaded: it takes the session id from localStorage and shows nothing;
\* an answer on its way is lost.
Load(t) ==
    /\ turns < MaxTurns /\ turns' = turns + 1
    /\ answer' = [answer EXCEPT ![t] = None]
    /\ tab' = [tab EXCEPT ![t] = [sid |-> local, doc |-> None]]
    /\ heard' = [heard EXCEPT ![t] = None]
    /\ UNCHANGED <<store, local, behind, used>>

\* The TTL, counted from begin, or a restart of the server, which keeps nothing.
Expire(sid) ==
    /\ sid \in DOMAIN store
    /\ store' = Delete(sid)
    /\ UNCHANGED <<tab, answer, local, heard, behind, used, turns>>

Next ==
    \/ \E t \in Tabs : Speak(t) \/ PressChip(t) \/ Deliver(t) \/ Load(t)
    \/ \E sid \in Sids : Expire(sid)

Spec == Init /\ [][Next]_vars

-----------------------------------------------------------------------------
(* Properties.                                                             *)

\* A session's place is in its document: no index is out of range, whatever
\* document its id was begun with before.
TypeOK ==
    /\ DOMAIN store \subseteq used /\ used \subseteq Sids /\ behind \subseteq Tabs
    /\ local \in Sids \cup {None}
    /\ \A t \in Tabs : \A page \in {tab[t], answer[t]} \ {None} :
          page.sid \in Sids \cup {None} /\ page.doc \in Docs \cup {None}
    /\ \A sid \in DOMAIN store : LET s == store[sid] IN
          /\ s.sid = sid /\ s.doc \in Docs /\ s.phase \in {"wait", "deepen"}
          /\ s.bucket \in 0..Len(s.doc.buckets)
          /\ s.bucket # 0 => s.item + 1 \in DOMAIN s.doc.buckets[s.bucket]

\* A page that picked a group has heard the items up to the session's current one,
\* each once and in order, through repeats, the end of the group, other pages and
\* lost sessions, unless it missed an answer since.
GroupReadInOrder ==
    \A t \in Tabs :
        HasSession(t) /\ heard[t] # None =>
            LET s == store[tab[t].sid] IN
            s.bucket # 0 /\ heard[t] = SubSeq(s.doc.buckets[s.bucket], 1, s.item + 1)

\* The session a page navigates is that of the document on its screen, unless the
\* page missed an answer or waits for one.
ScreenIsSession ==
    \A t \in Tabs \ behind :
        HasSession(t) /\ answer[t] = None /\ tab[t].doc # None => store[tab[t].sid].doc = tab[t].doc

\* A chip of the document on the screen opens the group it names.
ChipOpensItsGroup ==
    \A t \in Tabs : HasSession(t) /\ store[tab[t].sid].doc = tab[t].doc =>
        \A b \in DOMAIN tab[t].doc.buckets :
            Meanings(ChipWord(b), tab[t].doc) = {Pick(b)}

\* "Say next to continue reading": after three of the items were read, next reads
\* the fourth.
NextContinuesReading ==
    \A sid \in DOMAIN store : LET s == store[sid] IN
        s.last.kind = "all" /\ Len(s.doc.items) > 3 =>
            \E i \in DOMAIN Step(s, Plain("next")).says.items : Step(s, Plain("next")).says.items[i] = s.doc.items[4]

\* "Say next for the rest": after a cut item, next speaks that item again.
NextSpeaksTheRest ==
    \A sid \in DOMAIN store : LET s == store[sid] IN
        s.last.kind = "item" /\ s.last.cut => Step(s, Plain("next")).says.items = s.last.items
=============================================================================
