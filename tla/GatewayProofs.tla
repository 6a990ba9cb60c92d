--------------------------- MODULE GatewayProofs ---------------------------
(***************************************************************************)
(* The answers, streams, rows and drivers of the adapter's endpoints, for  *)
(* any clients, names, statuses and bounds.                                *)
(***************************************************************************)
EXTENDS Gateway, TLAPS

Stages == {"start", "text", "calls", "tail", "end", "done"}
Codes == {"none", "cz_forbidden", "cz_auth_missing", "cz_auth_invalid", "cz_unsupported_tools",
          "cz_killed", "cz_budget_exceeded", "cz_upstream", "cz_upstream_timeout", "cz_error"}
Answers == [status : Nat, code : Codes, says : SUBSET Words]

\* All there is to know of a conversation's request.
Views ==
    [backend : Backends, pc : PCs, req : [tools : BOOLEAN, stream : BOOLEAN], stage : Stages,
     out : Seq(Lines), answer : Answers, rows : Nat, cause : Causes, cutoff : BOOLEAN]

View(c) ==
    [backend |-> Backend(c), pc |-> pc[c], req |-> req[c], stage |-> stage[c], out |-> out[c],
     answer |-> answer[c], rows |-> rows[c], cause |-> cause[c], cutoff |-> cutoff[c]]

Clean(o) == \A i \in DOMAIN o : o[i] # "error" /\ o[i] # "[DONE]"
Finished(o) ==
    /\ Len(o) \in DOMAIN o /\ o[Len(o)] = "[DONE]"
    /\ \A i \in DOMAIN o : i < Len(o) => o[i] # "error" /\ o[i] # "[DONE]"

DeliveredIn(v) ==
    /\ v.answer.status = 200
    /\ v.req.stream => \E i \in DOMAIN v.out : v.out[i] = "[DONE]"
    /\ \A i \in DOMAIN v.out : v.out[i] # "error"

EndsOnceIn(v) ==
    /\ \A i \in DOMAIN v.out : v.out[i] = "[DONE]" /\ i < Len(v.out) => v.cause = "ledger"
    /\ v.pc = "over" /\ ~v.cutoff /\ v.out # <<>> => v.out[Len(v.out)] = "[DONE]"

BilledIn(v) ==
    /\ v.rows <= 1
    /\ v.rows = 1 => DeliveredIn(v) \/ v.pc = "respond" \/ v.cause = "response"
    /\ v.pc = "over" /\ ~v.cutoff /\ DeliveredIn(v) /\ v.rows = 0 =>
          v.req.stream /\ v.backend = "mock"

NamesCulprit(code, status, says, why) ==
    code # "none" =>
        /\ code \in {"cz_auth_missing", "cz_auth_invalid"} <=> why \in {"missing", "invalid"}
        /\ why \in {"upstream", "timeout"} =>
              code \in UpstreamCodes \/ (status = 501 /\ "no tools" \in says)
        /\ code \in UpstreamCodes =>
              why \in {"upstream", "timeout"} \/ (why = "local" /\ "upstream first" \in says)
Blames(a, why) == NamesCulprit(a.code, a.status, a.says, why)

\* Nothing is sent before the request is admitted, a stream is clean until its
\* [DONE], its row comes last, and only the mock marks no chunk.
Fine(v) ==
    /\ v.pc \in {"idle", "lookup", "build", "fetch", "admit", "complete", "record"} =>
          v.out = <<>> /\ v.rows = 0 /\ v.answer = NoAnswer /\ v.cause = "none" /\ v.stage = "start"
    /\ v.pc \in {"complete", "record", "respond"} => ~v.req.stream
    /\ v.pc = "respond" => v.out = <<>> /\ v.rows = 1 /\ v.answer = NoAnswer /\ v.cause = "none"
    /\ v.pc \in {"stream", "done", "billing"} =>
          v.req.stream /\ v.rows = 0 /\ v.answer = Ok /\ v.cause = "none"
    /\ v.pc \in {"stream", "done"} => Clean(v.out)
    /\ v.pc = "billing" => Finished(v.out)
    /\ v.stage = "end" => v.backend = "mock"
    /\ EndsOnceIn(v)
    /\ BilledIn(v)
    /\ Blames(v.answer, v.cause)

ConversationTypes ==
    /\ pc \in [Threads -> PCs]
    /\ req \in [Conversations -> [tools : BOOLEAN, stream : BOOLEAN]]
    /\ stage \in [Conversations -> Stages]
    /\ out \in [Conversations -> Seq(Lines)]
    /\ answer \in [Conversations -> Answers]
    /\ rows \in [Conversations -> Nat]
    /\ cause \in [Conversations -> Causes]
    /\ cutoff \in [Conversations -> BOOLEAN]

RouteTypes ==
    /\ home \in [Conversations -> Backends \cup {"default", "none"}]
    /\ want \in [Threads -> Backends \cup {"default"}]
    /\ using \in [Conversations -> Backends \X Nat]
    /\ built \in [Backends -> Nat] /\ cache \in [Backends -> Nat]
    /\ todo \in Seq(Backends)
    /\ \A t \in Threads : pc[t] \in {"lookup", "build", "fetch"} => want[t] \in Backends
    /\ pc[Lister] \in {"lookup", "build", "fetch"} => todo # <<>>

AllFine == \A c \in Conversations : Fine(View(c))

\* A step that makes v of c's request and leaves the others alone.
Becomes(c, v) ==
    /\ pc' = [pc EXCEPT ![c] = v.pc]
    /\ req' = [req EXCEPT ![c] = v.req]
    /\ stage' = [stage EXCEPT ![c] = v.stage]
    /\ out' = [out EXCEPT ![c] = v.out]
    /\ answer' = [answer EXCEPT ![c] = v.answer]
    /\ rows' = [rows EXCEPT ![c] = v.rows]
    /\ cause' = [cause EXCEPT ![c] = v.cause]
    /\ cutoff' = [cutoff EXCEPT ![c] = v.cutoff]
    /\ using'[c][1] = v.backend
    /\ \A d \in Conversations \ {c} : using'[d] = using[d]

-----------------------------------------------------------------------------

\* Such a step keeps every request fine if v is.
LEMMA Becoming ==
  ASSUME ConversationTypes, AllFine, NEW c \in Conversations, NEW v \in Views,
         Becomes(c, v), Fine(v)
  PROVE  ConversationTypes' /\ AllFine'
  <1>1. ConversationTypes'
    <2>1. Conversations \subseteq Threads BY DEF Threads
    <2>2. pc' \in [Threads -> PCs] BY <2>1 DEF ConversationTypes, Becomes, Views
    <2> QED BY <2>2 DEF ConversationTypes, Becomes, Views
  <1>2. ASSUME NEW d \in Conversations PROVE Fine(View(d))'
    <2>1. c \in Threads /\ d \in Threads BY DEF Threads
    <2>2. CASE d = c
      <3>1. View(d)' = v BY <2>1, <2>2 DEF View, Becomes, Views, Backend, ConversationTypes
      <3> QED BY <3>1 DEF Fine, EndsOnceIn, BilledIn, DeliveredIn
    <2>3. CASE d # c
      <3>1. View(d)' = View(d) BY <2>1, <2>3 DEF View, Becomes, Backend, ConversationTypes
      <3> QED BY <3>1 DEF Fine, EndsOnceIn, BilledIn, DeliveredIn, AllFine
    <2> QED BY <2>2, <2>3
  <1> QED BY <1>1, <1>2 DEF AllFine

\* A view is well typed.
LEMMA ViewFacts ==
  ASSUME ConversationTypes, RouteTypes, NEW c \in Conversations
  PROVE  View(c) \in Views
  <1>1. c \in Threads BY DEF Threads
  <1> QED BY <1>1 DEF ConversationTypes, RouteTypes, View, Views, Backend

\* A line at the end of others.
LEMMA OneLine ==
  ASSUME NEW o \in Seq(Lines), NEW x \in Lines
  PROVE  /\ o \o <<x>> \in Seq(Lines)
         /\ Len(o \o <<x>>) = Len(o) + 1
         /\ DOMAIN (o \o <<x>>) = 1..(Len(o) + 1)
         /\ DOMAIN o = 1..Len(o)
         /\ \A i \in 1..Len(o) : (o \o <<x>>)[i] = o[i]
         /\ (o \o <<x>>)[Len(o) + 1] = x
  OBVIOUS

\* Two lines at the end of others.
LEMMA TwoLines ==
  ASSUME NEW o \in Seq(Lines), NEW x \in Lines, NEW y \in Lines
  PROVE  /\ o \o <<x, y>> \in Seq(Lines)
         /\ Len(o \o <<x, y>>) = Len(o) + 2
         /\ DOMAIN (o \o <<x, y>>) = 1..(Len(o) + 2)
         /\ DOMAIN o = 1..Len(o)
         /\ \A i \in 1..Len(o) : (o \o <<x, y>>)[i] = o[i]
         /\ (o \o <<x, y>>)[Len(o) + 1] = x
         /\ (o \o <<x, y>>)[Len(o) + 2] = y
  OBVIOUS

\* Where names lead.
LEMMA RouteFacts == \A n : RoutedTo(n) \in Backends \cup {"default"}
  BY DEF RoutedTo, Resolve, Known

\* What an error's detail says, whatever is quoted in it.
DetailIn(says, why, status) ==
    /\ says \subseteq Words
    /\ why \in {"upstream", "timeout"} => "upstream" \in says /\ "upstream first" \in says
    /\ why = "upstream" /\ status = 401 => "HTTP 401" \in says
    /\ why = "missing" => "Missing" \in says
    /\ why = "tools" => "no tools" \in says
    /\ why \notin {"upstream", "timeout", "local"} => "upstream" \notin says /\ "upstream first" \notin says

\* It does.
LEMMA DetailFacts ==
  ASSUME NEW why \in Causes, NEW status \in 400..599, NEW says \in Details(why, status)
  PROVE  DetailIn(says, why, status)
  <1>1. PICK text \in IF why \in {"upstream", "local"} THEN Texts ELSE {{}} :
          says = OwnWords(why, status) \cup text
    BY DEF Details
  <1>2. text \subseteq Words BY <1>1, GatewayConstants
  <1>3. OwnWords(why, status) \subseteq Words BY DEF OwnWords, Words
  <1>4. why \notin {"upstream", "local"} => text = {} BY <1>1
  <1>5. /\ why \in {"upstream", "timeout"} => "upstream" \in OwnWords(why, status) /\ "upstream first" \in OwnWords(why, status)
        /\ why = "upstream" /\ status = 401 => "HTTP 401" \in OwnWords(why, status)
        /\ why = "missing" => OwnWords(why, status) = {"Missing"}
        /\ why = "tools" => OwnWords(why, status) = {"no tools"}
        /\ why \notin {"upstream", "timeout", "missing", "tools"} => OwnWords(why, status) = {}
    BY DEF OwnWords
  <1>6. says \subseteq Words BY <1>1, <1>2, <1>3
  <1>7. ASSUME why \notin {"upstream", "timeout", "local"}
        PROVE  "upstream" \notin says /\ "upstream first" \notin says
    <2>1. says = OwnWords(why, status) BY <1>1, <1>4, <1>7
    <2>2. OwnWords(why, status) \subseteq {"Missing", "no tools"} BY <1>5, <1>7
    <2>3. "upstream" \notin {"Missing", "no tools"} /\ "upstream first" \notin {"Missing", "no tools"}
      OBVIOUS
    <2> QED BY <2>1, <2>2, <2>3
  <1> QED BY <1>1, <1>5, <1>6, <1>7 DEF DetailIn

\* An error is answered with its status and a code.
LEMMA CodeFacts ==
  ASSUME NEW why \in Causes \ {"none", "forbidden", "killed", "budget"}, NEW status \in 400..599,
         why \in {"missing", "invalid"} => status = 401,
         why \notin {"missing", "invalid", "upstream"} => status # 401,
         why = "timeout" <=> status = 504 /\ why # "upstream",
         why = "tools" => status = 501,
         NEW says \in Details(why, status)
  PROVE  /\ Code(status, says) \in Codes /\ says \in SUBSET Words
         /\ NamesCulprit(Code(status, says), status, says, why)
  <1>1. /\ says \subseteq Words
        /\ why \in {"upstream", "timeout"} => "upstream" \in says /\ "upstream first" \in says
        /\ why = "upstream" /\ status = 401 => "HTTP 401" \in says
        /\ why = "missing" => "Missing" \in says
        /\ why \notin {"upstream", "timeout", "local"} => "upstream" \notin says /\ "upstream first" \notin says
    <2>1. why \in Causes OBVIOUS
    <2>2. DetailIn(says, why, status) BY <2>1, DetailFacts
    <2> QED BY <2>2 DEF DetailIn
  <1>2. Code(status, says) \in Codes BY DEF Code, Codes
  <1>4. CASE status = 401
    <2>1. why \in {"missing", "invalid", "upstream"} BY <1>4
    <2>2. ASSUME why = "upstream" PROVE Code(status, says) = "cz_upstream"
      <3>1. "upstream" \in says /\ "HTTP 401" \in says BY <1>1, <1>4, <2>2
      <3> QED BY <1>4, <3>1 DEF Code
    <2>3. ASSUME why # "upstream"
          PROVE  Code(status, says) \in {"cz_auth_missing", "cz_auth_invalid"}
      <3>1. why \in {"missing", "invalid"} BY <2>1, <2>3
      <3>2. "upstream" \notin says BY <1>1, <3>1
      <3> QED BY <1>4, <3>2 DEF Code
    <2> QED BY <1>1, <1>2, <1>4, <2>1, <2>2, <2>3 DEF NamesCulprit, UpstreamCodes
  <1>5. CASE status # 401
    <2>1. Code(status, says) \notin {"cz_auth_missing", "cz_auth_invalid"} BY <1>5 DEF Code
    <2>2. why \in {"upstream", "timeout"} =>
              Code(status, says) \in UpstreamCodes \/ (status = 501 /\ "no tools" \in says)
      BY <1>1, <1>5 DEF Code, UpstreamCodes
    <2>3. Code(status, says) \in UpstreamCodes => status = 504 \/ "upstream first" \in says
      BY <1>5 DEF Code, UpstreamCodes
    <2> QED BY <1>1, <1>2, <1>5, <2>1, <2>2, <2>3 DEF NamesCulprit
  <1> QED BY <1>4, <1>5

\* So is a request that fails.
LEMMA FailsFacts ==
  ASSUME NEW c \in Conversations,
         NEW why \in Causes \ {"none", "forbidden", "killed", "budget"}, NEW status \in 400..599,
         why \in {"missing", "invalid"} => status = 401,
         why \notin {"missing", "invalid", "upstream"} => status # 401,
         why = "timeout" <=> status = 504 /\ why # "upstream",
         why = "tools" => status = 501,
         Fails(c, why, status)
  PROVE  /\ cause' = [cause EXCEPT ![c] = why]
         /\ \E a \in Answers : answer' = [answer EXCEPT ![c] = a] /\ a.status # 200 /\ Blames(a, why)
  <1>1. PICK says \in Details(why, status) :
          answer' = [answer EXCEPT ![c] =
                        [status |-> status, code |-> Code(status, says), says |-> says]]
    BY DEF Fails
  <1> DEFINE a == [status |-> status, code |-> Code(status, says), says |-> says]
  <1>2. /\ Code(status, says) \in Codes /\ says \in SUBSET Words
        /\ NamesCulprit(Code(status, says), status, says, why)
    BY CodeFacts
  <1>3. a \in Answers BY <1>2 DEF Answers
  <1>4. a.status # 200 /\ Blames(a, why) BY <1>2 DEF Blames
  <1>5. cause' = [cause EXCEPT ![c] = why] BY DEF Fails
  <1>6. answer' = [answer EXCEPT ![c] = a] BY <1>1
  <1>7. \E x \in Answers : answer' = [answer EXCEPT ![c] = x] /\ x.status # 200 /\ Blames(x, why)
    <2> HIDE DEF a
    <2> WITNESS a \in Answers
    <2> QED BY <1>3, <1>4, <1>6
  <1> QED BY <1>5, <1>7

\* Answers that are no error.
LEMMA PlainAnswers ==
  /\ Ok \in Answers /\ Ok.status = 200 /\ Ok.code = "none"
  /\ NoAnswer \in Answers /\ NoAnswer.status = 0 /\ NoAnswer.code = "none"
  BY DEF Ok, NoAnswer, Answer, Answers, Codes

\* An answer without a code blames nobody.
LEMMA NoBlame ==
  ASSUME NEW a, a.code = "none", NEW why
  PROVE  Blames(a, why)
  BY DEF Blames, NamesCulprit

\* So is every way a driver fails.
LEMMA FailureFacts ==
  ASSUME NEW b \in Backends, NEW f \in Failures(b)
  PROVE  /\ f[1] \in {"upstream", "timeout", "address", "local"}
         /\ f[2] \in 400..599
         /\ f[1] = "timeout" <=> f[2] = 504 /\ f[1] # "upstream"
         /\ f[1] # "upstream" => f[2] # 401
  BY GatewayConstants DEF Failures, ErrorStatus, Backends

\* What happens to a request before its backend is asked.
LEMMA AdmissionStep ==
  ASSUME ConversationTypes, RouteTypes, AllFine, NEW c \in Conversations,
         \/ Post(c) \/ TurnedAway(c) \/ BuildFails(c) \/ Fetch(c) \/ NoTools(c) \/ Killed(c)
         \/ OverBudget(c) \/ Admit(c)
  PROVE  ConversationTypes' /\ AllFine'
  <1> DEFINE Sound == ConversationTypes' /\ AllFine'
  <1>0. c \in Threads BY DEF Threads
  <1>1. View(c) \in Views /\ Fine(View(c)) BY ViewFacts DEF AllFine
  <1>2. Backend(c) \in Backends BY DEF RouteTypes, Backend
  <1>3. CASE Post(c)
    <2>1. PICK n \in Names[c], tools \in BOOLEAN, stream \in BOOLEAN :
            /\ req' = [req EXCEPT ![c] = [tools |-> tools, stream |-> stream]]
            /\ pc' = [pc EXCEPT ![c] = IF RoutedTo(n) = "default" THEN "admit" ELSE "lookup"]
      BY <1>3 DEF Post
    <2> DEFINE v == [backend |-> Default, pc |-> pc'[c], req |-> [tools |-> tools, stream |-> stream],
                     stage |-> "start", out |-> <<>>, answer |-> NoAnswer, rows |-> 0,
                     cause |-> "none", cutoff |-> FALSE]
    <2>2. pc'[c] \in {"admit", "lookup"} BY <1>0, <2>1 DEF ConversationTypes
    <2>3. v \in Views
      BY <2>2, GatewayConstants, PlainAnswers DEF Views, PCs, Stages, Answers, Codes, Causes
    <2>4. Becomes(c, v)
      BY <1>0, <1>3, <2>1 DEF Becomes, Post, ConversationTypes, RouteTypes, Main
    <2>5. Fine(v)
      BY <2>2, PlainAnswers DEF Fine, EndsOnceIn, BilledIn, DeliveredIn, Blames, NamesCulprit
    <2> HIDE DEF v
    <2> QED BY <2>3, <2>4, <2>5, Becoming
  <1>4. CASE TurnedAway(c)
    <2>1. PICK why \in {"forbidden", "missing", "invalid"} :
            /\ cause' = [cause EXCEPT ![c] = why]
            /\ IF why = "forbidden" THEN answer' = [answer EXCEPT ![c] = Answer(403, "cz_forbidden")]
               ELSE Fails(c, why, 401)
      BY <1>4 DEF TurnedAway, Gate, Fails
    <2>2. PICK a \in Answers :
            answer' = [answer EXCEPT ![c] = a] /\ a.status # 200 /\ Blames(a, why)
      <3>1. CASE why = "forbidden"
        <4> DEFINE a == Answer(403, "cz_forbidden")
        <4>1. a \in Answers /\ a.status # 200 /\ Blames(a, why)
          BY <3>1 DEF Answer, Answers, Codes, Blames, NamesCulprit, UpstreamCodes
        <4>2. answer' = [answer EXCEPT ![c] = a] BY <2>1, <3>1
        <4> HIDE DEF a
        <4> QED BY <4>1, <4>2
      <3>2. CASE why # "forbidden"
        <4>1. why \in Causes \ {"none", "forbidden", "killed", "budget"} BY <3>2 DEF Causes
        <4> QED BY <2>1, <3>2, <4>1, FailsFacts
      <3> QED BY <3>1, <3>2
    <2> DEFINE v == [backend |-> Backend(c), pc |-> "over", req |-> [req[c] EXCEPT !.stream = FALSE],
                     stage |-> stage[c], out |-> <<>>, answer |-> a, rows |-> 0, cause |-> why,
                     cutoff |-> FALSE]
    <2>3. [req[c] EXCEPT !.stream = FALSE] \in [tools : BOOLEAN, stream : BOOLEAN]
      BY DEF ConversationTypes
    <2>4. v \in Views BY <1>1, <2>2, <2>3 DEF View, Views, PCs, Causes
    <2>5. Becomes(c, v)
      BY <1>0, <1>4, <2>1, <2>2 DEF Becomes, TurnedAway, ConversationTypes, RouteTypes, Backend
    <2>6. Fine(v)
      BY <1>1, <2>2 DEF Fine, View, EndsOnceIn, BilledIn, DeliveredIn
    <2> HIDE DEF v
    <2> QED BY <2>4, <2>5, <2>6, Becoming
  <1>5. CASE Fetch(c)
    <2> DEFINE v == [backend |-> want[c], pc |-> "admit", req |-> req[c], stage |-> stage[c],
                     out |-> out[c], answer |-> answer[c], rows |-> rows[c], cause |-> cause[c],
                     cutoff |-> cutoff[c]]
    <2>1. pc[c] = "fetch" BY <1>5 DEF Fetch, Move
    <2>2. want[c] \in Backends BY <1>0, <2>1 DEF RouteTypes
    <2>3. v \in Views BY <1>1, <2>2 DEF View, Views, PCs
    <2>4. Becomes(c, v)
      BY <1>0, <1>5 DEF Becomes, Fetch, Move, ConversationTypes, RouteTypes, request, history
    <2>5. Fine(v) BY <1>1, <2>1, PlainAnswers DEF Fine, View, EndsOnceIn, BilledIn, DeliveredIn
    <2> HIDE DEF v
    <2> QED BY <2>3, <2>4, <2>5, Becoming
  <1>6. ASSUME NEW why \in {"local", "tools", "killed", "budget"}, NEW a \in Answers,
               pc[c] \in {"build", "admit"}, pc' = [pc EXCEPT ![c] = "over"],
               answer' = [answer EXCEPT ![c] = a], cause' = [cause EXCEPT ![c] = why],
               UNCHANGED <<req, using, stage, out, rows, cutoff>>,
               a.status # 200, Blames(a, why)
        PROVE  Sound
    <2> DEFINE v == [backend |-> Backend(c), pc |-> "over", req |-> req[c], stage |-> stage[c],
                     out |-> out[c], answer |-> a, rows |-> rows[c], cause |-> why,
                     cutoff |-> cutoff[c]]
    <2>1. v \in Views BY <1>1 DEF View, Views, PCs, Causes
    <2>2. Becomes(c, v) BY <1>0, <1>6 DEF Becomes, ConversationTypes, Backend
    <2>3. Fine(v) BY <1>1, <1>6 DEF Fine, View, EndsOnceIn, BilledIn, DeliveredIn
    <2> HIDE DEF v
    <2> QED BY <2>1, <2>2, <2>3, Becoming
  <1>7. CASE BuildFails(c)
    <2> DEFINE a == Answer(500, "none")
    <2>1. a \in Answers /\ a.status # 200 /\ Blames(a, "local")
      BY DEF Answer, Answers, Codes, Blames, NamesCulprit, UpstreamCodes
    <2>2. /\ pc[c] \in {"build", "admit"} /\ pc' = [pc EXCEPT ![c] = "over"]
          /\ answer' = [answer EXCEPT ![c] = a] /\ cause' = [cause EXCEPT ![c] = "local"]
          /\ UNCHANGED <<req, using, stage, out, rows, cutoff>>
      BY <1>7 DEF BuildFails, Move, request
    <2> HIDE DEF a
    <2> QED BY <1>6, <2>1, <2>2
  <1>8. CASE NoTools(c)
    <2>1. "tools" \in Causes \ {"none", "forbidden", "killed", "budget"} BY DEF Causes
    <2>2. /\ cause' = [cause EXCEPT ![c] = "tools"]
          /\ \E a \in Answers :
                answer' = [answer EXCEPT ![c] = a] /\ a.status # 200 /\ Blames(a, "tools")
      BY <1>8, <2>1, FailsFacts DEF NoTools
    <2>3. /\ pc[c] \in {"build", "admit"} /\ pc' = [pc EXCEPT ![c] = "over"]
          /\ UNCHANGED <<req, using, stage, out, rows, cutoff>>
      BY <1>8 DEF NoTools, Move, request
    <2> QED BY <1>6, <2>2, <2>3
  <1>9. CASE Killed(c)
    <2> DEFINE a == Answer(503, "cz_killed")
    <2>1. a \in Answers /\ a.status # 200 /\ Blames(a, "killed")
      BY DEF Answer, Answers, Codes, Blames, NamesCulprit, UpstreamCodes
    <2>2. /\ pc[c] \in {"build", "admit"} /\ pc' = [pc EXCEPT ![c] = "over"]
          /\ answer' = [answer EXCEPT ![c] = a] /\ cause' = [cause EXCEPT ![c] = "killed"]
          /\ UNCHANGED <<req, using, stage, out, rows, cutoff>>
      BY <1>9 DEF Killed, Move, request
    <2> HIDE DEF a
    <2> QED BY <1>6, <2>1, <2>2
  <1>10. CASE OverBudget(c) /\ ~req[c].stream
    <2> DEFINE a == Answer(429, "cz_budget_exceeded")
    <2>1. a \in Answers /\ a.status # 200 /\ Blames(a, "budget")
      BY DEF Answer, Answers, Codes, Blames, NamesCulprit, UpstreamCodes
    <2>2. /\ pc[c] \in {"build", "admit"} /\ pc' = [pc EXCEPT ![c] = "over"]
          /\ answer' = [answer EXCEPT ![c] = a] /\ cause' = [cause EXCEPT ![c] = "budget"]
          /\ UNCHANGED <<req, using, stage, out, rows, cutoff>>
      BY <1>10 DEF OverBudget, Move, request
    <2> HIDE DEF a
    <2> QED BY <1>6, <2>1, <2>2
  <1>11. CASE OverBudget(c) /\ req[c].stream
    <2> DEFINE lines == <<"error", "[DONE]">>
               v == [backend |-> Backend(c), pc |-> "over", req |-> req[c], stage |-> stage[c],
                     out |-> lines, answer |-> Ok, rows |-> rows[c], cause |-> "budget",
                     cutoff |-> cutoff[c]]
    <2>1. lines \in Seq(Lines) /\ Len(lines) = 2 /\ DOMAIN lines = 1..2
          /\ lines[1] = "error" /\ lines[2] = "[DONE]"
      BY DEF Lines
    <2>2. pc[c] = "admit" BY <1>11 DEF OverBudget, Move
    <2>3. Becomes(c, v)
      BY <1>0, <1>11 DEF Becomes, OverBudget, Move, request, ConversationTypes, Backend
    <2> HIDE DEF lines
    <2>4. v \in Views BY <1>1, <2>1, PlainAnswers DEF View, Views, PCs, Causes, Answers, Codes
    <2>5. ~DeliveredIn(v) /\ EndsOnceIn(v) BY <2>1 DEF DeliveredIn, EndsOnceIn
    <2>6. Blames(v.answer, v.cause) BY PlainAnswers, NoBlame
    <2>7. Fine(v) BY <1>1, <2>2, <2>5, <2>6, PlainAnswers DEF Fine, View, BilledIn
    <2> HIDE DEF v
    <2> QED BY <2>3, <2>4, <2>7, Becoming
  <1>12. CASE Admit(c)
    <2> DEFINE v == [backend |-> Backend(c), pc |-> IF req[c].stream THEN "stream" ELSE "complete",
                     req |-> req[c], stage |-> stage[c], out |-> out[c],
                     answer |-> IF req[c].stream THEN Ok ELSE answer[c], rows |-> rows[c],
                     cause |-> cause[c], cutoff |-> cutoff[c]]
    <2>1. pc[c] = "admit" BY <1>12 DEF Admit, Move
    <2>2. v \in Views BY <1>1, PlainAnswers DEF View, Views, PCs, Answers, Codes
    <2>3. Becomes(c, v)
      BY <1>0, <1>12 DEF Becomes, Admit, Move, request, history, ConversationTypes, Backend
    <2>4. Blames(v.answer, cause[c])
      <3>1. Blames(Ok, cause[c]) /\ Blames(answer[c], cause[c])
        BY <1>1, PlainAnswers, NoBlame DEF Fine, View
      <3> QED BY <3>1
    <2>5. Fine(v)
      BY <1>1, <2>1, <2>4, PlainAnswers DEF Fine, View, EndsOnceIn, BilledIn, DeliveredIn, Clean
    <2> HIDE DEF v
    <2> QED BY <2>2, <2>3, <2>5, Becoming
  <1> QED BY <1>3, <1>4, <1>5, <1>7, <1>8, <1>9, <1>10, <1>11, <1>12

\* What a driver's complete leads to.
LEMMA CompletionStep ==
  ASSUME ConversationTypes, RouteTypes, AllFine, NEW c \in Conversations,
         \/ Complete(c) \/ CompleteFails(c) \/ RecordUsage(c) \/ RecordFails(c)
         \/ Respond(c) \/ RespondFails(c)
  PROVE  ConversationTypes' /\ AllFine'
  <1>0. c \in Threads BY DEF Threads
  <1>1. View(c) \in Views /\ Fine(View(c)) BY ViewFacts DEF AllFine
  <1>2. Backend(c) \in Backends BY DEF RouteTypes, Backend
  <1>3. CASE Complete(c)
    <2> DEFINE v == [backend |-> Backend(c), pc |-> "record", req |-> req[c], stage |-> stage[c],
                     out |-> out[c], answer |-> answer[c], rows |-> rows[c], cause |-> cause[c],
                     cutoff |-> cutoff[c]]
    <2>1. pc[c] = "complete" BY <1>3 DEF Complete, Move
    <2>2. v \in Views BY <1>1 DEF View, Views, PCs
    <2>3. Becomes(c, v)
      BY <1>0, <1>3 DEF Becomes, Complete, Move, request, ConversationTypes, Backend
    <2>4. Fine(v) BY <1>1, <2>1, PlainAnswers DEF Fine, View, EndsOnceIn, BilledIn, DeliveredIn
    <2> HIDE DEF v
    <2> QED BY <2>2, <2>3, <2>4, Becoming
  <1>4. ASSUME NEW why \in {"upstream", "timeout", "address", "local", "ledger", "response"},
               NEW a \in Answers, pc[c] \in {"complete", "record", "respond"},
               pc[c] = "respond" => why = "response",
               pc' = [pc EXCEPT ![c] = "over"],
               answer' = [answer EXCEPT ![c] = a], cause' = [cause EXCEPT ![c] = why],
               UNCHANGED <<req, using, stage, out, rows, cutoff>>,
               a.status # 200, Blames(a, why)
        PROVE  ConversationTypes' /\ AllFine'
    <2> DEFINE v == [backend |-> Backend(c), pc |-> "over", req |-> req[c], stage |-> stage[c],
                     out |-> out[c], answer |-> a, rows |-> rows[c], cause |-> why,
                     cutoff |-> cutoff[c]]
    <2>1. v \in Views BY <1>1 DEF View, Views, PCs, Causes
    <2>2. Becomes(c, v) BY <1>0, <1>4 DEF Becomes, ConversationTypes, Backend
    <2>3. Fine(v) BY <1>1, <1>4 DEF Fine, View, EndsOnceIn, BilledIn, DeliveredIn
    <2> HIDE DEF v
    <2> QED BY <2>1, <2>2, <2>3, Becoming
  <1>5. CASE CompleteFails(c)
    <2>1. PICK f \in Failures(Backend(c)) : Fails(c, f[1], f[2]) BY <1>5 DEF CompleteFails
    <2>2. /\ f[1] \in {"upstream", "timeout", "address", "local"} /\ f[2] \in 400..599
          /\ f[1] = "timeout" <=> f[2] = 504 /\ f[1] # "upstream"
          /\ f[1] # "upstream" => f[2] # 401
      BY <1>2, FailureFacts
    <2> DEFINE why == f[1]
    <2>3. why \in Causes \ {"none", "forbidden", "killed", "budget"} BY <2>2 DEF Causes
    <2>4. /\ cause' = [cause EXCEPT ![c] = why]
          /\ \E a \in Answers : answer' = [answer EXCEPT ![c] = a] /\ a.status # 200 /\ Blames(a, why)
      BY <2>1, <2>2, <2>3, FailsFacts
    <2>5. /\ pc[c] = "complete" /\ pc' = [pc EXCEPT ![c] = "over"]
          /\ UNCHANGED <<req, using, stage, out, rows, cutoff>>
      BY <1>5 DEF CompleteFails, Move, request
    <2>6. why \in {"upstream", "timeout", "address", "local", "ledger", "response"} BY <2>2
    <2> HIDE DEF why
    <2> QED BY <1>4, <2>4, <2>5, <2>6
  <1>6. ASSUME NEW why \in {"ledger", "response"}, pc[c] \in {"record", "respond"},
               pc[c] = "respond" => why = "response",
               pc' = [pc EXCEPT ![c] = "over"], Fails(c, why, 502),
               UNCHANGED <<req, using, stage, out, rows, cutoff>>
        PROVE  ConversationTypes' /\ AllFine'
    <2>1. why \in Causes \ {"none", "forbidden", "killed", "budget"} BY DEF Causes
    <2>2. /\ cause' = [cause EXCEPT ![c] = why]
          /\ \E a \in Answers : answer' = [answer EXCEPT ![c] = a] /\ a.status # 200 /\ Blames(a, why)
      BY <1>6, <2>1, FailsFacts
    <2>3. PICK a \in Answers : answer' = [answer EXCEPT ![c] = a] /\ a.status # 200 /\ Blames(a, why)
      BY <2>2
    <2>4. pc[c] \in {"complete", "record", "respond"} /\ why \in {"upstream", "timeout", "address", "local", "ledger", "response"}
      BY <1>6
    <2> QED BY <1>4, <1>6, <2>2, <2>3, <2>4
  <1>8. CASE RecordFails(c)
    BY <1>6, <1>8 DEF RecordFails, Move, request
  <1>9. CASE RespondFails(c)
    BY <1>6, <1>9 DEF RespondFails, Move, request
  <1>7. CASE RecordUsage(c)
    <2> DEFINE v == [backend |-> Backend(c), pc |-> "respond", req |-> req[c], stage |-> stage[c],
                     out |-> out[c], answer |-> answer[c], rows |-> 1, cause |-> cause[c],
                     cutoff |-> cutoff[c]]
    <2>1. pc[c] = "record" BY <1>7 DEF RecordUsage, Move
    <2>2. v \in Views BY <1>1 DEF View, Views, PCs
    <2>3. rows[c] = 0 BY <1>1, <2>1 DEF Fine, View
    <2>4. Becomes(c, v)
      BY <1>0, <1>7, <2>3 DEF Becomes, RecordUsage, Move, request, history, ConversationTypes, Backend
    <2>5. Fine(v)
      BY <1>1, <2>1 DEF Fine, View, EndsOnceIn, BilledIn, DeliveredIn
    <2> HIDE DEF v
    <2> QED BY <2>2, <2>4, <2>5, Becoming
  <1>10. CASE Respond(c)
    <2> DEFINE v == [backend |-> Backend(c), pc |-> "over", req |-> req[c], stage |-> stage[c],
                     out |-> out[c], answer |-> Ok, rows |-> rows[c], cause |-> cause[c],
                     cutoff |-> cutoff[c]]
    <2>1. pc[c] = "respond" BY <1>10 DEF Respond, Move
    <2>2. v \in Views BY <1>1, PlainAnswers DEF View, Views, PCs, Answers, Codes
    <2>3. rows[c] = 1 /\ out[c] = <<>> /\ ~req[c].stream BY <1>1, <2>1 DEF Fine, View
    <2>4. Becomes(c, v)
      BY <1>0, <1>10 DEF Becomes, Respond, Move, request, history, ConversationTypes, Backend
    <2>5. Blames(Ok, cause[c]) BY PlainAnswers, NoBlame
    <2>6. Fine(v)
      BY <1>1, <2>1, <2>3, <2>5, PlainAnswers DEF Fine, View, EndsOnceIn, BilledIn, DeliveredIn
    <2> HIDE DEF v
    <2> QED BY <2>2, <2>4, <2>6, Becoming
  <1> QED BY <1>3, <1>5, <1>7, <1>8, <1>9, <1>10

\* A line of a stream, and the step of its driver's generator.
LEMMA LineStep ==
  ASSUME ConversationTypes, RouteTypes, AllFine, NEW c \in Conversations,
         NEW line \in Lines \ {"error", "[DONE]"}, NEW next \in Stages,
         Yields(c, line, next), next = "end" => Backend(c) = "mock"
  PROVE  ConversationTypes' /\ AllFine'
  <1> DEFINE o == out[c] \o <<line>>
             v == [backend |-> Backend(c), pc |-> IF next = "done" THEN "done" ELSE "stream",
                   req |-> req[c], stage |-> next, out |-> o, answer |-> answer[c],
                   rows |-> rows[c], cause |-> cause[c], cutoff |-> cutoff[c]]
  <1>0. c \in Threads BY DEF Threads
  <1>1. View(c) \in Views /\ Fine(View(c)) BY ViewFacts DEF AllFine
  <1>2. pc[c] = "stream" BY DEF Yields
  <1>3. /\ out[c] \in Seq(Lines) /\ Clean(out[c]) /\ req[c].stream /\ rows[c] = 0
        /\ answer[c] = Ok /\ cause[c] = "none"
    BY <1>1, <1>2 DEF Fine, View, ConversationTypes
  <1>4. Becomes(c, v)
    BY <1>0, <1>2 DEF Becomes, Yields, Send, request, ConversationTypes, Backend
  <1>5. o \in Seq(Lines) /\ Clean(o) BY <1>3, OneLine DEF Clean
  <1> HIDE DEF o
  <1>6. v \in Views BY <1>1, <1>5 DEF View, Views, PCs
  <1>7. EndsOnceIn(v) BY <1>5 DEF EndsOnceIn, Clean
  <1>8. BilledIn(v) BY <1>3 DEF BilledIn
  <1>9. Fine(v) BY <1>3, <1>5, <1>7, <1>8, PlainAnswers DEF Fine, Blames, NamesCulprit
  <1> HIDE DEF v
  <1> QED BY <1>4, <1>6, <1>9, Becoming

\* Streams: their lines, their ends, and the client that leaves.
LEMMA StreamStep ==
  ASSUME ConversationTypes, RouteTypes, AllFine, NEW c \in Conversations,
         \/ CursorBuffered(c) \/ CursorNative(c) \/ MockStreams(c) \/ UpstreamStreams(c)
         \/ StreamRaises(c) \/ StreamEnds(c) \/ SendDone(c)
         \/ RecordStream(c) \/ RecordStreamFails(c) \/ Leave(c)
  PROVE  ConversationTypes' /\ AllFine'
  <1>0. c \in Threads BY DEF Threads
  <1>1. View(c) \in Views /\ Fine(View(c)) BY ViewFacts DEF AllFine
  <1>2. Backend(c) \in Backends BY DEF RouteTypes, Backend
  <1>3. /\ {"text", "calls", "finish", "id"} \subseteq Lines \ {"error", "[DONE]"}
        /\ {"text", "calls", "tail", "done", "end"} \subseteq Stages
    BY DEF Lines, Stages
  <1>4. CASE CursorBuffered(c) \/ CursorNative(c) \/ MockStreams(c) \/ UpstreamStreams(c)
    <2>1. PICK line \in {"text", "calls", "finish", "id"},
               next \in {"text", "calls", "tail", "done", "end"} :
            Yields(c, line, next) /\ (next = "end" => Backend(c) = "mock")
      <3>1. CASE CursorBuffered(c)
        <4>1. \A r \in Replies(c) : r \in {"text", "calls"} BY DEF Replies
        <4> QED BY <3>1, <4>1 DEF CursorBuffered
      <3>2. CASE CursorNative(c) BY <3>2 DEF CursorNative
      <3>3. CASE MockStreams(c) BY <3>3 DEF MockStreams
      <3>4. CASE UpstreamStreams(c) BY <3>4 DEF UpstreamStreams
      <3> QED BY <1>4, <3>1, <3>2, <3>3, <3>4
    <2> QED BY <1>3, <2>1, LineStep
  <1>5. ASSUME pc[c] \in {"stream", "billing"},
               NEW why \in {"upstream", "timeout", "address", "local", "ledger"},
               pc[c] = "billing" => why = "ledger",
               pc' = [pc EXCEPT ![c] = "over"], Send(c, <<"error", "[DONE]">>),
               cause' = [cause EXCEPT ![c] = why],
               UNCHANGED <<req, using, stage, answer, rows, cutoff>>
        PROVE  ConversationTypes' /\ AllFine'
    <2> DEFINE o == out[c] \o <<"error", "[DONE]">>
               v == [backend |-> Backend(c), pc |-> "over", req |-> req[c], stage |-> stage[c],
                     out |-> o, answer |-> answer[c], rows |-> rows[c], cause |-> why,
                     cutoff |-> cutoff[c]]
    <2>1. out[c] \in Seq(Lines) /\ {"error", "[DONE]"} \subseteq Lines BY DEF ConversationTypes, Lines
    <2>2. /\ o \in Seq(Lines) /\ Len(o) = Len(out[c]) + 2
          /\ DOMAIN o = 1..(Len(out[c]) + 2) /\ DOMAIN out[c] = 1..Len(out[c])
          /\ \A i \in 1..Len(out[c]) : o[i] = out[c][i]
          /\ o[Len(out[c]) + 1] = "error" /\ o[Len(out[c]) + 2] = "[DONE]"
      BY <2>1, TwoLines
    <2>3. Becomes(c, v) BY <1>0, <1>5 DEF Becomes, Send, ConversationTypes, Backend
    <2> HIDE DEF o
    <2>4. v \in Views BY <1>1, <2>2 DEF View, Views, PCs, Causes
    <2>5. rows[c] = 0 /\ answer[c] = Ok BY <1>1, <1>5 DEF Fine, View
    <2>6. pc[c] = "stream" => Clean(out[c]) BY <1>1 DEF Fine, View
    <2>7. Len(out[c]) \in Nat BY <2>1
    <2>8. EndsOnceIn(v)
      <3>1. ASSUME NEW i \in DOMAIN o, o[i] = "[DONE]", i < Len(o) PROVE why = "ledger"
        <4>1. i \in 1..Len(out[c]) BY <2>2, <2>7, <3>1
        <4> QED BY <1>5, <2>2, <2>6, <3>1, <4>1 DEF Clean
      <3>2. o[Len(o)] = "[DONE]" BY <2>2
      <3> QED BY <3>1, <3>2 DEF EndsOnceIn
    <2>9. ~DeliveredIn(v)
      <3>1. Len(out[c]) + 1 \in DOMAIN o BY <2>2, <2>7
      <3> QED BY <2>2, <3>1 DEF DeliveredIn
    <2>10. Blames(v.answer, v.cause) BY <2>5, PlainAnswers, NoBlame
    <2>11. Fine(v) BY <1>1, <2>5, <2>8, <2>9, <2>10, PlainAnswers DEF Fine, View, BilledIn
    <2> HIDE DEF v
    <2> QED BY <2>3, <2>4, <2>11, Becoming
  <1>6. CASE StreamRaises(c)
    <2>1. PICK f \in Failures(Backend(c)) : cause' = [cause EXCEPT ![c] = f[1]]
      BY <1>6 DEF StreamRaises
    <2>2. f[1] \in {"upstream", "timeout", "address", "local"} BY <1>2, FailureFacts
    <2>3. /\ pc[c] = "stream" /\ pc' = [pc EXCEPT ![c] = "over"] /\ Send(c, <<"error", "[DONE]">>)
          /\ UNCHANGED <<req, using, stage, answer, rows, cutoff>>
      BY <1>6 DEF StreamRaises, Move, request
    <2> QED BY <1>5, <2>1, <2>2, <2>3
  <1>7. CASE RecordStreamFails(c)
    <2>1. /\ pc[c] = "billing" /\ pc' = [pc EXCEPT ![c] = "over"] /\ Send(c, <<"error", "[DONE]">>)
          /\ cause' = [cause EXCEPT ![c] = "ledger"]
          /\ UNCHANGED <<req, using, stage, answer, rows, cutoff>>
      BY <1>7 DEF RecordStreamFails, Move, request
    <2> QED BY <1>5, <2>1
  <1>8. CASE StreamEnds(c) \/ SendDone(c)
    <2> DEFINE o == out[c] \o <<"[DONE]">>
               to == IF pc[c] = "stream" THEN "over" ELSE "billing"
               v == [backend |-> Backend(c), pc |-> to, req |-> req[c], stage |-> stage[c],
                     out |-> o, answer |-> answer[c], rows |-> rows[c], cause |-> cause[c],
                     cutoff |-> cutoff[c]]
    <2>1. out[c] \in Seq(Lines) /\ "[DONE]" \in Lines BY DEF ConversationTypes, Lines
    <2>2. /\ o \in Seq(Lines) /\ Len(o) = Len(out[c]) + 1
          /\ DOMAIN o = 1..(Len(out[c]) + 1) /\ DOMAIN out[c] = 1..Len(out[c])
          /\ \A i \in 1..Len(out[c]) : o[i] = out[c][i]
          /\ o[Len(out[c]) + 1] = "[DONE]"
      BY <2>1, OneLine
    <2>3. /\ pc[c] \in {"stream", "done"}
          /\ pc[c] = "stream" => stage[c] = "end"
          /\ pc' = [pc EXCEPT ![c] = to] /\ out' = [out EXCEPT ![c] = o]
          /\ UNCHANGED <<req, using, stage, answer, rows, cause, cutoff>>
      BY <1>8 DEF StreamEnds, SendDone, Move, Send, request, history
    <2>4. Becomes(c, v) BY <1>0, <2>3 DEF Becomes, ConversationTypes, Backend
    <2>5. to \in {"over", "billing"} /\ (to = "over" => pc[c] = "stream") BY <2>3
    <2> HIDE DEF o, to
    <2>6. v \in Views BY <1>1, <2>2, <2>5 DEF View, Views, PCs
    <2>7. /\ rows[c] = 0 /\ answer[c] = Ok /\ cause[c] = "none" /\ req[c].stream
          /\ Clean(out[c])
          /\ to = "over" => Backend(c) = "mock"
      BY <1>1, <2>3, <2>5 DEF Fine, View
    <2>8. Finished(o)
      <3>1. Len(out[c]) \in Nat BY <2>1
      <3>2. Len(o) \in DOMAIN o /\ o[Len(o)] = "[DONE]" BY <2>2, <3>1
      <3>3. ASSUME NEW i \in DOMAIN o, i < Len(o) PROVE o[i] # "error" /\ o[i] # "[DONE]"
        <4>1. i \in 1..Len(out[c]) BY <2>2, <3>1, <3>3
        <4> QED BY <2>2, <2>7, <4>1 DEF Clean
      <3> QED BY <3>2, <3>3 DEF Finished
    <2>9. EndsOnceIn(v) BY <2>8 DEF EndsOnceIn, Finished
    <2>10. BilledIn(v) BY <2>5, <2>7 DEF BilledIn
    <2>11. Fine(v) BY <1>1, <2>5, <2>7, <2>8, <2>9, <2>10, PlainAnswers DEF Fine, View, Blames, NamesCulprit
    <2> HIDE DEF v
    <2> QED BY <2>4, <2>6, <2>11, Becoming
  <1>9. CASE RecordStream(c)
    <2> DEFINE v == [backend |-> Backend(c), pc |-> "over", req |-> req[c], stage |-> stage[c],
                     out |-> out[c], answer |-> answer[c], rows |-> 1, cause |-> cause[c],
                     cutoff |-> cutoff[c]]
    <2>1. pc[c] = "billing" BY <1>9 DEF RecordStream, Move
    <2>2. v \in Views BY <1>1 DEF View, Views, PCs
    <2>3. /\ rows[c] = 0 /\ answer[c] = Ok /\ cause[c] = "none" /\ req[c].stream
          /\ Finished(out[c])
      BY <1>1, <2>1 DEF Fine, View
    <2>4. Becomes(c, v)
      BY <1>0, <1>9, <2>3 DEF Becomes, RecordStream, Move, request, history, ConversationTypes, Backend
    <2>5. DeliveredIn(v)
      <3>1. \A i \in DOMAIN out[c] : i < Len(out[c]) \/ i = Len(out[c])
        BY DEF ConversationTypes
      <3>2. \A i \in DOMAIN out[c] : out[c][i] # "error" BY <2>3, <3>1 DEF Finished
      <3> QED BY <2>3, <3>2, PlainAnswers DEF DeliveredIn, Finished
    <2>6. EndsOnceIn(v) BY <2>3 DEF EndsOnceIn, Finished
    <2>7. Fine(v) BY <1>1, <2>3, <2>5, <2>6, PlainAnswers DEF Fine, View, BilledIn, Blames, NamesCulprit
    <2> HIDE DEF v
    <2> QED BY <2>2, <2>4, <2>7, Becoming
  <1>10. CASE Leave(c)
    <2> DEFINE v == [backend |-> Backend(c), pc |-> "over", req |-> req[c], stage |-> stage[c],
                     out |-> out[c], answer |-> answer[c], rows |-> rows[c], cause |-> cause[c],
                     cutoff |-> TRUE]
    <2>1. pc[c] \in {"stream", "done", "billing"} BY <1>10 DEF Leave
    <2>2. v \in Views BY <1>1 DEF View, Views, PCs
    <2>3. Becomes(c, v)
      BY <1>0, <1>10 DEF Becomes, Leave, request, ConversationTypes, Backend
    <2>4. Fine(v) BY <1>1, <2>1 DEF Fine, View, EndsOnceIn, BilledIn, DeliveredIn
    <2> HIDE DEF v
    <2> QED BY <2>2, <2>3, <2>4, Becoming
  <1> QED BY <1>4, <1>6, <1>7, <1>8, <1>9, <1>10


\* Where a thread is on its way to a driver.
OnTheWay == {"lookup", "build", "fetch"}

\* Steps of other kinds leave the routes alone.
LEMMA RoutesKept ==
  ASSUME RouteTypes, pc \in [Threads -> PCs], NEW t \in Threads, NEW x \in PCs,
         UNCHANGED <<home, want, using, built, cache, todo>>,
         pc' = [pc EXCEPT ![t] = x], x \in OnTheWay => want[t] \in Backends,
         x \in OnTheWay /\ t = Lister => todo # <<>>
  PROVE  RouteTypes'
  <1>1. \A u \in Threads : pc'[u] \in OnTheWay => want[u] \in Backends
    BY DEF RouteTypes, OnTheWay
  <1>2. pc'[Lister] \in OnTheWay => todo # <<>>
    BY DEF RouteTypes, OnTheWay, Threads
  <1> QED BY <1>1, <1>2 DEF RouteTypes, OnTheWay

\* What a handler does with its route.
LEMMA HandlerRoutes ==
  ASSUME ConversationTypes, RouteTypes, NEW c \in Conversations,
         Post(c) \/ TurnedAway(c) \/ Handler(c) \/ Leave(c)
  PROVE  RouteTypes'
  <1>0. c \in Threads /\ pc \in [Threads -> PCs] BY DEF Threads, ConversationTypes
  <1>1. ASSUME NEW x \in PCs \ OnTheWay, UNCHANGED <<home, want, using, built, cache, todo>>,
               pc' = [pc EXCEPT ![c] = x]
        PROVE  RouteTypes'
    BY <1>0, <1>1, RoutesKept
  <1>2. {"over", "admit", "complete", "record", "respond", "stream", "done", "billing"} \subseteq PCs \ OnTheWay
    BY DEF PCs, OnTheWay
  <1>3. CASE Post(c)
    <2>1. PICK n \in Names[c] :
            /\ home' = [home EXCEPT ![c] = RoutedTo(n)]
            /\ want' = [want EXCEPT ![c] = RoutedTo(n)]
            /\ pc' = [pc EXCEPT ![c] = IF RoutedTo(n) = "default" THEN "admit" ELSE "lookup"]
      BY <1>3 DEF Post
    <2>2. using' = [using EXCEPT ![c] = Main] /\ UNCHANGED <<built, cache, todo>>
      BY <1>3 DEF Post, tables
    <2>3. RoutedTo(n) \in Backends \cup {"default"} BY RouteFacts
    <2>4. Main \in Backends \X Nat BY GatewayConstants DEF Main
    <2>5. \A u \in Threads : pc'[u] \in OnTheWay => want'[u] \in Backends
      BY <1>0, <2>1, <2>3 DEF RouteTypes, OnTheWay
    <2>6. /\ home' \in [Conversations -> Backends \cup {"default", "none"}]
          /\ want' \in [Threads -> Backends \cup {"default"}]
      BY <1>0, <2>1, <2>3 DEF RouteTypes
    <2>7. using' \in [Conversations -> Backends \X Nat] BY <2>2, <2>4 DEF RouteTypes
    <2>8. pc'[Lister] \in OnTheWay => todo # <<>>
      BY <1>0, <2>1, GatewayConstants DEF RouteTypes, OnTheWay, Threads
    <2> QED BY <2>2, <2>5, <2>6, <2>7, <2>8 DEF RouteTypes, OnTheWay
  <1>4. CASE Fetch(c)
    <2>1. pc[c] = "fetch" /\ pc' = [pc EXCEPT ![c] = "admit"] /\ UNCHANGED <<home, want, built, cache, todo>>
          /\ using' = [using EXCEPT ![c] = <<want[c], cache[want[c]]>>]
      BY <1>4 DEF Fetch, Move, tables, request
    <2>2. <<want[c], cache[want[c]]>> \in Backends \X Nat BY <1>0, <2>1 DEF RouteTypes
    <2>3. using' \in [Conversations -> Backends \X Nat] BY <2>1, <2>2 DEF RouteTypes
    <2>4. \A u \in Threads : pc'[u] \in OnTheWay => want[u] \in Backends
      BY <1>0, <2>1 DEF RouteTypes, OnTheWay
    <2>5. pc'[Lister] \in OnTheWay => todo # <<>>
      BY <1>0, <2>1, GatewayConstants DEF RouteTypes, OnTheWay, Threads
    <2> QED BY <2>1, <2>3, <2>4, <2>5 DEF RouteTypes, OnTheWay
  <1>5. CASE TurnedAway(c) BY <1>1, <1>2, <1>5 DEF TurnedAway, tables
  <1>6. CASE BuildFails(c) BY <1>1, <1>2, <1>6 DEF BuildFails, Move, tables, request
  <1>7. CASE NoTools(c) BY <1>1, <1>2, <1>7 DEF NoTools, Move, tables, request
  <1>8. CASE Killed(c) BY <1>1, <1>2, <1>8 DEF Killed, Move, tables, request
  <1>9. CASE OverBudget(c) BY <1>1, <1>2, <1>9 DEF OverBudget, Move, tables, request
  <1>10. CASE Admit(c)
    <2>1. PICK x \in {"stream", "complete"} : pc' = [pc EXCEPT ![c] = x]
      BY <1>10 DEF Admit, Move
    <2>2. UNCHANGED <<home, want, using, built, cache, todo>> BY <1>10 DEF Admit, tables, request
    <2> QED BY <1>1, <1>2, <2>1, <2>2
  <1>11. CASE Complete(c) BY <1>1, <1>2, <1>11 DEF Complete, Move, request
  <1>12. CASE CompleteFails(c) BY <1>1, <1>2, <1>12 DEF CompleteFails, Move, tables, request
  <1>13. CASE RecordUsage(c) BY <1>1, <1>2, <1>13 DEF RecordUsage, Move, tables, request
  <1>14. CASE RecordFails(c) BY <1>1, <1>2, <1>14 DEF RecordFails, Move, tables, request
  <1>22. CASE Respond(c) BY <1>1, <1>2, <1>22 DEF Respond, Move, tables, request
  <1>23. CASE RespondFails(c) BY <1>1, <1>2, <1>23 DEF RespondFails, Move, tables, request
  <1>15. CASE CursorBuffered(c) \/ CursorNative(c) \/ MockStreams(c) \/ UpstreamStreams(c)
    <2>1. PICK line, next : Yields(c, line, next)
      <3>1. CASE CursorBuffered(c) BY <3>1 DEF CursorBuffered
      <3>2. CASE CursorNative(c) BY <3>2 DEF CursorNative
      <3>3. CASE MockStreams(c) BY <3>3 DEF MockStreams
      <3>4. CASE UpstreamStreams(c) BY <3>4 DEF UpstreamStreams
      <3> QED BY <1>15, <3>1, <3>2, <3>3, <3>4
    <2>2. UNCHANGED <<home, want, using, built, cache, todo>> BY <2>1 DEF Yields, request
    <2>3. PICK x \in {"stream", "done"} : pc' = [pc EXCEPT ![c] = x]
      <3>1. pc = [pc EXCEPT ![c] = "stream"] BY <1>0, <2>1 DEF Yields
      <3> QED BY <2>1, <3>1 DEF Yields
    <2> QED BY <1>1, <1>2, <2>2, <2>3
  <1>16. CASE StreamRaises(c) BY <1>1, <1>2, <1>16 DEF StreamRaises, Move, tables, request
  <1>17. CASE StreamEnds(c) BY <1>1, <1>2, <1>17 DEF StreamEnds, Move, tables, request
  <1>18. CASE SendDone(c) BY <1>1, <1>2, <1>18 DEF SendDone, Move, tables, request
  <1>19. CASE RecordStream(c) BY <1>1, <1>2, <1>19 DEF RecordStream, Move, tables, request
  <1>20. CASE RecordStreamFails(c) BY <1>1, <1>2, <1>20 DEF RecordStreamFails, Move, tables, request
  <1>21. CASE Leave(c) BY <1>1, <1>2, <1>21 DEF Leave, tables, request
  <1> QED BY <1>3, <1>4, <1>5, <1>6, <1>7, <1>8, <1>9, <1>10, <1>11, <1>12, <1>13, <1>14, <1>15,
             <1>16, <1>17, <1>18, <1>19, <1>20, <1>21, <1>22, <1>23 DEF Handler

-----------------------------------------------------------------------------

\* Threads that look a driver up, build it, or list models change no request.
LEMMA TableStep ==
  ASSUME ConversationTypes, AllFine, NEW t \in Threads, NEW x \in PCs,
         pc' = [pc EXCEPT ![t] = x],
         UNCHANGED <<req, using, stage, out, answer, rows, cause, cutoff>>,
         t \in Conversations => pc[t] \in {"lookup", "build"} /\ x \in OnTheWay
  PROVE  ConversationTypes' /\ AllFine'
  <1>1. ConversationTypes' BY DEF ConversationTypes
  <1>2. ASSUME NEW c \in Conversations PROVE Fine(View(c))'
    <2>1. c \in Threads /\ Fine(View(c)) BY DEF Threads, AllFine
    <2>2. CASE c # t
      <3>1. View(c)' = View(c) BY <2>1, <2>2 DEF View, Backend, ConversationTypes
      <3> QED BY <2>1, <3>1 DEF Fine, EndsOnceIn, BilledIn, DeliveredIn
    <2>3. CASE c = t
      <3>1. /\ View(c)'.pc = x /\ View(c).pc = pc[c]
            /\ View(c)'.backend = View(c).backend /\ View(c)'.req = View(c).req
            /\ View(c)'.stage = View(c).stage /\ View(c)'.out = View(c).out
            /\ View(c)'.answer = View(c).answer /\ View(c)'.rows = View(c).rows
            /\ View(c)'.cause = View(c).cause /\ View(c)'.cutoff = View(c).cutoff
        BY <2>1, <2>3 DEF View, Backend, ConversationTypes
      <3>2. pc[c] \in {"lookup", "build"} /\ x \in OnTheWay BY <2>3
      <3> QED BY <2>1, <3>1, <3>2 DEF Fine, EndsOnceIn, BilledIn, DeliveredIn, OnTheWay
    <2> QED BY <2>2, <2>3
  <1> QED BY <1>1, <1>2 DEF AllFine

Inv == ConversationTypes /\ RouteTypes /\ AllFine

\* The steps of the table of drivers and of GET /v1/models.
LEMMA TablesKeepInv ==
  ASSUME Inv, (\E t \in Threads : Lookup(t) \/ Build(t)) \/ List \/ ListNext \/ ListSkips
  PROVE  Inv'
  <1>0. Lister \in Threads /\ Lister \notin Conversations BY GatewayConstants DEF Threads
  <1>1. ASSUME NEW t \in Threads, Lookup(t) PROVE Inv'
    <2>1. PICK x \in {"fetch", "build"} : pc' = [pc EXCEPT ![t] = x] BY <1>1 DEF Lookup, Move
    <2>2. /\ pc[t] = "lookup"
          /\ UNCHANGED <<req, using, stage, out, answer, rows, cause, cutoff>>
          /\ UNCHANGED <<home, want, using, built, cache, todo>>
      BY <1>1 DEF Lookup, Move, request, history
    <2>3. x \in PCs /\ x \in OnTheWay BY DEF PCs, OnTheWay
    <2>4. ConversationTypes' /\ AllFine' BY <2>1, <2>2, <2>3, TableStep DEF Inv
    <2>5. want[t] \in Backends /\ pc \in [Threads -> PCs] BY <2>2 DEF Inv, RouteTypes, ConversationTypes
    <2>6. RouteTypes'
      <3>1. t = Lister => todo # <<>> BY <2>2 DEF Inv, RouteTypes
      <3> QED BY <2>1, <2>2, <2>3, <2>5, <3>1, RoutesKept DEF Inv
    <2> QED BY <2>4, <2>6 DEF Inv
  <1>2. ASSUME NEW t \in Threads, Build(t) PROVE Inv'
    <2>1. /\ pc[t] = "build" /\ pc' = [pc EXCEPT ![t] = "fetch"]
          /\ built' = [built EXCEPT ![want[t]] = @ + 1]
          /\ cache' = [cache EXCEPT ![want[t]] = built[want[t]] + 1]
          /\ UNCHANGED <<req, using, stage, out, answer, rows, cause, cutoff>>
          /\ UNCHANGED <<home, want, using, todo>>
      BY <1>2 DEF Build, Move, request, history
    <2>2. "fetch" \in PCs /\ "fetch" \in OnTheWay BY DEF PCs, OnTheWay
    <2>3. ConversationTypes' /\ AllFine' BY <2>1, <2>2, TableStep DEF Inv
    <2>4. want[t] \in Backends /\ pc \in [Threads -> PCs] BY <2>1 DEF Inv, RouteTypes, ConversationTypes
    <2>5. built' \in [Backends -> Nat] /\ cache' \in [Backends -> Nat]
      BY <2>1, <2>4 DEF Inv, RouteTypes
    <2>6. \A u \in Threads : pc'[u] \in OnTheWay => want[u] \in Backends
      BY <2>1, <2>4 DEF Inv, RouteTypes, OnTheWay
    <2>7. pc'[Lister] \in OnTheWay => todo # <<>>
      BY <1>0, <2>1 DEF Inv, RouteTypes, OnTheWay, ConversationTypes
    <2> QED BY <2>1, <2>3, <2>5, <2>6, <2>7 DEF Inv, RouteTypes, OnTheWay
  <1>3. ASSUME NEW rest \in Seq(Backends), ListFrom(rest),
               UNCHANGED <<req, using, stage, out, answer, rows, cause, cutoff>>,
               UNCHANGED <<home, built, cache>>
        PROVE  Inv'
    <2> DEFINE next == PassDefault(rest)
    <2>0. next \in Seq(Backends) BY DEF PassDefault
    <2>1. PICK x \in {"over", "lookup"} :
            /\ pc' = [pc EXCEPT ![Lister] = x]
            /\ IF x = "over" THEN want' = want
               ELSE next # <<>> /\ want' = [want EXCEPT ![Lister] = Head(next)]
      BY <1>3 DEF ListFrom
    <2>2. x \in PCs BY DEF PCs
    <2>3. ConversationTypes' /\ AllFine' BY <1>0, <1>3, <2>1, <2>2, TableStep DEF Inv
    <2>4. todo' = next BY <1>3 DEF ListFrom
    <2> HIDE DEF next
    <2>5. next # <<>> => Head(next) \in Backends BY <2>0
    <2>6. want' \in [Threads -> Backends \cup {"default"}]
      BY <1>0, <2>1, <2>5 DEF Inv, RouteTypes
    <2>7. \A u \in Threads : pc'[u] \in OnTheWay => want'[u] \in Backends
      BY <1>0, <2>1, <2>5 DEF Inv, RouteTypes, ConversationTypes, OnTheWay
    <2>8. pc'[Lister] \in OnTheWay => todo' # <<>>
      BY <1>0, <2>1, <2>4 DEF Inv, OnTheWay, ConversationTypes
    <2> QED BY <1>3, <2>0, <2>3, <2>4, <2>6, <2>7, <2>8 DEF Inv, RouteTypes, OnTheWay
  <1>4. Sorted \in Seq(Backends) BY DEF Sorted, Backends
  <1>5. CASE List
    <2> DEFINE first == IF Routing THEN Sorted ELSE <<>>
    <2>1. first \in Seq(Backends) /\ ListFrom(first) BY <1>4, <1>5 DEF List
    <2>2. UNCHANGED <<req, using, stage, out, answer, rows, cause, cutoff>> /\ UNCHANGED <<home, built, cache>>
      BY <1>5 DEF List, tables, history
    <2> HIDE DEF first
    <2> QED BY <1>3, <2>1, <2>2
  <1>6. ASSUME pc[Lister] \in {"fetch", "build"}, ListFrom(Tail(todo)),
               UNCHANGED <<tables, request, using, stage, out, answer, rows, history>>
        PROVE  Inv'
    <2>1. UNCHANGED <<req, using, stage, out, answer, rows, cause, cutoff>> /\ UNCHANGED <<home, built, cache>>
      BY <1>6 DEF tables, request, history
    <2>2. Tail(todo) \in Seq(Backends) BY <1>6 DEF Inv, RouteTypes
    <2> QED BY <1>3, <1>6, <2>1, <2>2
  <1> QED BY <1>1, <1>2, <1>5, <1>6 DEF ListNext, ListSkips

\* No request is known at first.
LEMMA InitFine == Init => Inv
  <1> SUFFICES ASSUME Init PROVE Inv OBVIOUS
  <1>1. ConversationTypes
    BY DEF Init, ConversationTypes, PCs, Stages, Answers, Codes, NoAnswer, Answer, Causes
  <1>2. RouteTypes
    <2>1. Main \in Backends \X Nat BY GatewayConstants DEF Main
    <2>2. using \in [Conversations -> Backends \X Nat] BY <2>1 DEF Init
    <2>3. /\ home \in [Conversations -> Backends \cup {"default", "none"}]
          /\ want \in [Threads -> Backends \cup {"default"}]
          /\ built \in [Backends -> Nat] /\ cache \in [Backends -> Nat]
          /\ todo \in Seq(Backends)
      BY DEF Init
    <2>4. \A t \in Threads : pc[t] = "idle" BY DEF Init
    <2> QED BY <2>2, <2>3, <2>4 DEF RouteTypes, Threads
  <1>3. ASSUME NEW c \in Conversations PROVE Fine(View(c))
    BY DEF Init, View, Fine, EndsOnceIn, BilledIn, DeliveredIn, Blames, NamesCulprit, NoAnswer, Answer, Threads
  <1> QED BY <1>1, <1>2, <1>3 DEF Inv, AllFine

\* Every step keeps every request fine and every route typed.
LEMMA NextFine == Inv /\ [Next]_vars => Inv'
  <1> SUFFICES ASSUME Inv, [Next]_vars PROVE Inv' OBVIOUS
  <1>1. ASSUME NEW c \in Conversations, Post(c) \/ TurnedAway(c) \/ Handler(c) \/ Leave(c)
        PROVE  Inv'
    <2>1. RouteTypes' BY <1>1, HandlerRoutes DEF Inv
    <2>2. CASE \/ Post(c) \/ TurnedAway(c) \/ BuildFails(c) \/ Fetch(c) \/ NoTools(c)
               \/ Killed(c) \/ OverBudget(c) \/ Admit(c)
      BY <2>1, <2>2, AdmissionStep DEF Inv
    <2>3. CASE \/ Complete(c) \/ CompleteFails(c) \/ RecordUsage(c) \/ RecordFails(c)
               \/ Respond(c) \/ RespondFails(c)
      BY <2>1, <2>3, CompletionStep DEF Inv
    <2>4. CASE \/ CursorBuffered(c) \/ CursorNative(c) \/ MockStreams(c) \/ UpstreamStreams(c)
               \/ StreamRaises(c) \/ StreamEnds(c) \/ SendDone(c)
               \/ RecordStream(c) \/ RecordStreamFails(c) \/ Leave(c)
      BY <2>1, <2>4, StreamStep DEF Inv
    <2> QED BY <1>1, <2>2, <2>3, <2>4 DEF Handler
  <1>2. CASE (\E t \in Threads : Lookup(t) \/ Build(t)) \/ List \/ ListNext \/ ListSkips
    BY <1>2, TablesKeepInv
  <1>3. CASE UNCHANGED vars
    <2>1. ConversationTypes' BY <1>3 DEF vars, Inv, ConversationTypes
    <2>2. RouteTypes' BY <1>3 DEF vars, Inv, RouteTypes
    <2>3. ASSUME NEW c \in Conversations PROVE Fine(View(c))'
      <3>1. View(c)' = View(c) BY <1>3 DEF vars, View, Backend
      <3> QED BY <3>1 DEF Inv, AllFine, Fine, EndsOnceIn, BilledIn, DeliveredIn
    <2> QED BY <2>1, <2>2, <2>3 DEF Inv, AllFine
  <1> QED BY <1>1, <1>2, <1>3 DEF Next

\* The invariant holds throughout.
LEMMA AlwaysFine == Spec => []Inv
  BY InitFine, NextFine, PTL DEF Spec

\* A stream of the endpoints has one [DONE], at its end, for whatever clients,
\* backends, statuses and bounds (_stream_response, _budget_stream).
THEOREM StreamsAlwaysEndOnce == Spec => []StreamsEndOnce
  <1>1. Inv => StreamsEndOnce
    BY DEF Inv, AllFine, Fine, EndsOnceIn, View, StreamsEndOnce
  <1> QED BY <1>1, AlwaysFine, PTL

\* An answer has a row if, and only if, it was delivered, and never two; a
\* stream of the mock has none (the two calls of record_adapter_usage).
THEOREM AnswersAlwaysBilledOnce == Spec => []AnswersAreBilledOnce
  <1>1. ASSUME Inv PROVE AnswersAreBilledOnce
    <2>1. ASSUME NEW c \in Conversations
          PROVE  /\ BilledIn(View(c)) /\ (DeliveredIn(View(c)) <=> Delivered(c))
                 /\ View(c).rows = rows[c] /\ View(c).pc = pc[c] /\ View(c).cutoff = cutoff[c]
                 /\ View(c).req = req[c] /\ View(c).backend = Backend(c) /\ View(c).cause = cause[c]
      BY <1>1 DEF Inv, AllFine, Fine, DeliveredIn, Delivered, View
    <2> QED BY <2>1 DEF BilledIn, AnswersAreBilledOnce
  <1> QED BY <1>1, AlwaysFine, PTL

\* An error's code names who is to blame, whatever status an upstream answers
\* with (openai_http_exception).
THEOREM CodesNameTheCulprit == Spec => []CodeNamesTheCulprit
  <1>1. ASSUME Inv PROVE CodeNamesTheCulprit
    <2>1. ASSUME NEW c \in Conversations
          PROVE  NamesCulprit(answer[c].code, answer[c].status, answer[c].says, cause[c])
      BY <1>1 DEF Inv, AllFine, Fine, Blames, View
    <2> QED BY <2>1 DEF NamesCulprit, CodeNamesTheCulprit
  <1> QED BY <1>1, AlwaysFine, PTL

-----------------------------------------------------------------------------
(* The results of a call find the driver that offered it *)

Serving == {"admit", "complete", "record", "respond", "stream", "done", "billing"}
Streaming == {"stream", "done", "billing"}

\* The driver a conversation should have, once there is one.
Proper(c) == IF home[c] = "default" THEN Main ELSE <<home[c], cache[home[c]]>>
Settled(c) == home[c] = "default" \/ (home[c] \in Backends /\ cache[home[c]] # 0)

\* Unless two threads raced for a backend, nobody builds what is in the table.
TableInv ==
    /\ raced \subseteq Backends
    /\ \A t \in Threads : pc[t] = "build" => cache[want[t]] = 0 \/ want[t] \in raced
    /\ \A t, u \in Threads :
          pc[t] = "build" /\ pc[u] = "build" /\ want[t] = want[u] => t = u \/ want[t] \in raced
    /\ \A t \in Threads : pc[t] = "fetch" => cache[want[t]] # 0

\* A conversation is served by the driver in the table, which offered the calls
\* whose results the client owes.
Bound(c) ==
    /\ pc[c] \in OnTheWay \cup Serving => home[c] # "none" /\ want[c] = home[c]
    /\ home[c] \notin raced =>
          /\ pc[c] \in Serving => Settled(c) /\ using[c] = Proper(c)
          /\ owes[c] => Settled(c) /\ (Proper(c)[1] = "cursor" => <<Proper(c), c>> \in offered)
          /\ ~orphaned[c]
    /\ Backend(c) = "cursor" =>
          /\ pc[c] \in {"record", "respond"} /\ result[c] = "calls" => <<using[c], c>> \in offered
          /\ pc[c] \in Streaming /\ HasCalls(c) => <<using[c], c>> \in offered

DriverTypes ==
    owes \in [Conversations -> BOOLEAN] /\ orphaned \in [Conversations -> BOOLEAN]
    /\ result \in [Conversations -> {"none", "text", "calls"}]
AllBound == \A c \in Conversations : Bound(c)
DriverInv == DriverTypes /\ TableInv /\ AllBound

\* A step that no thread takes to or in "build" and "fetch" keeps the table.
LEMMA TableKept ==
  ASSUME TableInv, UNCHANGED <<cache, raced>>,
         \A t \in Threads : pc'[t] \in {"build", "fetch"} => pc'[t] = pc[t] /\ want'[t] = want[t]
  PROVE  TableInv'
  BY DEF TableInv

\* Whoever else takes a step, the conversation stays bound: a driver in the table is
\* only replaced in a race.
LEMMA BoundKept ==
  ASSUME NEW c \in Conversations, Bound(c),
         home'[c] = home[c], want'[c] = want[c], using'[c] = using[c], owes'[c] = owes[c],
         orphaned'[c] = orphaned[c], result'[c] = result[c], out'[c] = out[c],
         offered \subseteq offered', raced \subseteq raced',
         \A b \in Backends : cache[b] # 0 /\ b \notin raced' => cache'[b] = cache[b],
         \/ pc'[c] = pc[c]
         \/ pc[c] \in OnTheWay /\ pc'[c] \in OnTheWay
         \/ pc'[c] = "over"
  PROVE  Bound(c)'
  <1>1. HasCalls(c)' <=> HasCalls(c) BY DEF HasCalls
  <1>2. /\ pc'[c] \in Serving \cup Streaming \cup {"record", "respond"} => pc'[c] = pc[c]
        /\ pc'[c] \in OnTheWay \cup Serving => pc[c] \in OnTheWay \cup Serving
    BY DEF OnTheWay, Serving, Streaming
  <1>3. home[c] \notin raced' /\ Settled(c) => Settled(c)' /\ Proper(c)' = Proper(c)
    BY DEF Settled, Proper, Main
  <1>4. Backend(c)' = Backend(c) BY DEF Backend
  <1> QED BY <1>1, <1>2, <1>3, <1>4 DEF Bound


\* A request is nobody else's business.
LEMMA Others ==
  ASSUME Inv, DriverTypes, NEW c \in Conversations,
         Post(c) \/ TurnedAway(c) \/ Handler(c) \/ Leave(c)
  PROVE  /\ \A d \in Conversations \ {c} :
               /\ home'[d] = home[d] /\ want'[d] = want[d] /\ using'[d] = using[d]
               /\ owes'[d] = owes[d] /\ orphaned'[d] = orphaned[d] /\ result'[d] = result[d]
               /\ out'[d] = out[d]
         /\ \A t \in Threads \ {c} : pc'[t] = pc[t] /\ want'[t] = want[t]
         /\ offered \subseteq offered' /\ UNCHANGED <<cache, raced>>
         /\ DriverTypes'
  <1> USE DEF Inv, ConversationTypes, RouteTypes, DriverTypes
  <1>0. Conversations \subseteq Threads BY DEF Threads
  <1>1. CASE Post(c) BY <1>0, <1>1 DEF Post, tables
  <1>2. CASE TurnedAway(c) BY <1>0, <1>2 DEF TurnedAway, tables, Fails
  <1>3. CASE BuildFails(c) BY <1>0, <1>3 DEF BuildFails, Move, tables, request
  <1>4. CASE Fetch(c) BY <1>0, <1>4 DEF Fetch, Move, tables, request, history
  <1>5. CASE NoTools(c) BY <1>0, <1>5 DEF NoTools, Move, tables, request
  <1>6. CASE Killed(c) BY <1>0, <1>6 DEF Killed, Move, tables, request
  <1>7. CASE OverBudget(c) BY <1>0, <1>7 DEF OverBudget, Move, tables, request
  <1>8. CASE Admit(c) BY <1>0, <1>8 DEF Admit, Move, tables, request, history
  <1>9. CASE Complete(c)
    <2>1. \A r \in Replies(c) : r \in {"text", "calls"} BY DEF Replies
    <2> QED BY <1>0, <1>9, <2>1 DEF Complete, Move, Serves, request
  <1>10. CASE CompleteFails(c) BY <1>0, <1>10 DEF CompleteFails, Move, tables, request
  <1>11. CASE RecordUsage(c) BY <1>0, <1>11 DEF RecordUsage, Move, tables, request, history
  <1>12. CASE RecordFails(c) BY <1>0, <1>12 DEF RecordFails, Move, tables, request
  <1>20. CASE Respond(c) BY <1>0, <1>20 DEF Respond, Move, tables, request, history
  <1>21. CASE RespondFails(c) BY <1>0, <1>21 DEF RespondFails, Move, tables, request
  <1>13. CASE StreamRaises(c) BY <1>0, <1>13 DEF StreamRaises, Move, Send, tables, request
  <1>14. CASE StreamEnds(c) BY <1>0, <1>14 DEF StreamEnds, Move, Send, tables, request, history
  <1>15. CASE SendDone(c) BY <1>0, <1>15 DEF SendDone, Move, Send, tables, request, history
  <1>16. CASE RecordStream(c) BY <1>0, <1>16 DEF HasCalls, RecordStream, Move, tables, request, history
  <1>17. CASE RecordStreamFails(c) BY <1>0, <1>17 DEF HasCalls, RecordStreamFails, Move, Send, tables, request
  <1>18. CASE Leave(c) BY <1>0, <1>18 DEF HasCalls, Leave, tables, request
  <1>19. CASE CursorBuffered(c) \/ CursorNative(c) \/ MockStreams(c) \/ UpstreamStreams(c)
    <2>1. PICK line, next : Yields(c, line, next)
      <3>1. CASE CursorBuffered(c) BY <3>1 DEF CursorBuffered
      <3>2. CASE CursorNative(c) BY <3>2 DEF CursorNative
      <3>3. CASE MockStreams(c) BY <3>3 DEF MockStreams
      <3>4. CASE UpstreamStreams(c) BY <3>4 DEF UpstreamStreams
      <3> QED BY <1>19, <3>1, <3>2, <3>3, <3>4
    <2>2. \/ UNCHANGED <<offered, orphaned>>
          \/ \E r \in Replies(c) : Serves(c, r)
      BY <1>19 DEF CursorBuffered, CursorNative, MockStreams, UpstreamStreams
    <2>3. /\ offered \subseteq offered' /\ orphaned' \in [Conversations -> BOOLEAN]
          /\ \A d \in Conversations \ {c} : orphaned'[d] = orphaned[d]
      BY <2>2 DEF Serves
    <2> QED BY <1>0, <2>1, <2>3 DEF Yields, Send, request
  <1> QED BY <1>1, <1>2, <1>3, <1>4, <1>5, <1>6, <1>7, <1>8, <1>9, <1>10, <1>11, <1>12, <1>13,
             <1>14, <1>15, <1>16, <1>17, <1>18, <1>19, <1>20, <1>21 DEF Handler

\* What a conversation's own step leaves true of it.
LEMMA OwnStep ==
  ASSUME Inv, DriverInv, NEW c \in Conversations,
         Post(c) \/ TurnedAway(c) \/ Handler(c) \/ Leave(c)
  PROVE  Bound(c)'
  <1>0. c \in Threads /\ pc \in [Threads -> PCs] /\ want \in [Threads -> Backends \cup {"default"}]
    BY DEF Threads, Inv, ConversationTypes, RouteTypes
  <1>1. Bound(c) /\ Fine(View(c)) BY DEF DriverInv, AllBound, Inv, AllFine
  <1>2. UNCHANGED <<cache, raced>> /\ offered \subseteq offered' BY Others DEF DriverInv
  <1>3. ASSUME pc' = [pc EXCEPT ![c] = "over"],
               UNCHANGED <<home, want, using, owes, orphaned>>
        PROVE  Bound(c)'
    <2>1. pc'[c] = "over" BY <1>0, <1>3
    <2>2. "over" \notin OnTheWay \cup Serving \cup Streaming \cup {"record", "respond"}
      BY DEF OnTheWay, Serving, Streaming
    <2>3. Settled(c)' = Settled(c) /\ Proper(c)' = Proper(c)
      BY <1>2, <1>3 DEF Settled, Proper, Main
    <2> QED BY <1>1, <1>2, <1>3, <2>1, <2>2, <2>3 DEF Bound
  \* The client has its answer, with the calls it will owe results for.
  <1>4. ASSUME pc[c] \in Serving, pc' = [pc EXCEPT ![c] = "over"],
               UNCHANGED <<home, want, using, orphaned>>,
               owes'[c] => owes[c] \/ (Backend(c) = "cursor" => <<using[c], c>> \in offered)
        PROVE  Bound(c)'
    <2>1. pc'[c] = "over" BY <1>0, <1>4
    <2>2. "over" \notin OnTheWay \cup Serving \cup Streaming \cup {"record", "respond"}
      BY DEF OnTheWay, Serving, Streaming
    <2>3. Settled(c)' = Settled(c) /\ Proper(c)' = Proper(c)
      BY <1>2, <1>4 DEF Settled, Proper, Main
    <2>4. home[c] \notin raced => using[c] = Proper(c) /\ Settled(c) BY <1>1, <1>4 DEF Bound
    <2> QED BY <1>1, <1>2, <1>4, <2>1, <2>2, <2>3, <2>4 DEF Bound, Backend
  <1>5. CASE Post(c)
    <2>1. PICK n \in Names[c] :
            /\ home[c] \in {"none", RoutedTo(n)}
            /\ home' = [home EXCEPT ![c] = RoutedTo(n)]
            /\ want' = [want EXCEPT ![c] = RoutedTo(n)]
            /\ pc' = [pc EXCEPT ![c] = IF RoutedTo(n) = "default" THEN "admit" ELSE "lookup"]
      BY <1>5 DEF Post
    <2>2. using' = [using EXCEPT ![c] = Main] /\ out' = [out EXCEPT ![c] = <<>>]
          /\ UNCHANGED <<owes, orphaned>>
      BY <1>5 DEF Post
    <2>3. RoutedTo(n) \in Backends \cup {"default"} BY RouteFacts
    <2>4. /\ home'[c] = RoutedTo(n) /\ want'[c] = RoutedTo(n) /\ using'[c] = Main
          /\ pc'[c] = IF RoutedTo(n) = "default" THEN "admit" ELSE "lookup"
      BY <1>0, <2>1, <2>2 DEF Inv, RouteTypes
    <2>5. "none" \notin Backends \cup {"default"} /\ "none" \notin raced
      BY DEF Backends, DriverInv, TableInv
    <2>6. home[c] = "none" => ~owes[c] /\ ~orphaned[c]
      BY <1>1, <2>5 DEF Bound, Settled
    <2>7. home[c] # "none" => home'[c] = home[c] /\ Settled(c)' = Settled(c) /\ Proper(c)' = Proper(c)
      BY <1>2, <2>1, <2>4 DEF Settled, Proper, Main
    <2>8. pc'[c] \in Serving => home'[c] = "default" BY <2>4 DEF Serving
    <2>9. home'[c] = "default" => Settled(c)' /\ Proper(c)' = Main BY DEF Settled, Proper, Main
    <2>10. pc'[c] \notin Streaming \cup {"record", "respond"} BY <2>4 DEF Streaming
    <2>11. home'[c] \notin raced' =>
             /\ owes'[c] => Settled(c)' /\ (Proper(c)'[1] = "cursor" => <<Proper(c)', c>> \in offered')
             /\ ~orphaned'[c]
      BY <1>1, <1>2, <2>2, <2>6, <2>7 DEF Bound
    <2>12. home'[c] # "none" /\ want'[c] = home'[c] BY <2>3, <2>4, <2>5
    <2> QED BY <2>4, <2>8, <2>9, <2>10, <2>11, <2>12 DEF Bound
  <1>6. CASE Fetch(c)
    <2>1. pc[c] = "fetch" /\ pc' = [pc EXCEPT ![c] = "admit"]
          /\ using' = [using EXCEPT ![c] = <<want[c], cache[want[c]]>>]
          /\ UNCHANGED <<home, want, owes, orphaned>>
      BY <1>6 DEF Fetch, Move, request, history
    <2>2. pc'[c] = "admit" /\ using'[c] = <<want[c], cache[want[c]]>>
      BY <1>0, <2>1 DEF Inv, RouteTypes
    <2>3. want[c] \in Backends /\ cache[want[c]] # 0 /\ want[c] # "default"
      BY <1>0, <2>1 DEF Inv, RouteTypes, DriverInv, TableInv, Backends
    <2>4. home[c] = want[c] /\ home[c] # "none" BY <1>1, <2>1 DEF Bound, OnTheWay
    <2>5. Settled(c) /\ Proper(c) = using'[c] BY <2>2, <2>3, <2>4 DEF Settled, Proper
    <2>6. Settled(c)' = Settled(c) /\ Proper(c)' = Proper(c)
      BY <1>2, <2>1 DEF Settled, Proper, Main
    <2>7. pc'[c] \notin Streaming \cup {"record", "respond"} BY <2>2 DEF Streaming
    <2> QED BY <1>1, <1>2, <2>1, <2>4, <2>5, <2>6, <2>7 DEF Bound
  \* Within its request a conversation keeps its driver.
  <1>7. ASSUME pc[c] \in Serving, pc'[c] \in Serving, UNCHANGED <<home, want, using, owes>>,
               home[c] \notin raced => ~orphaned'[c],
               Backend(c) = "cursor" =>
                 /\ pc'[c] \in {"record", "respond"} /\ result'[c] = "calls" => <<using[c], c>> \in offered'
                 /\ pc'[c] \in Streaming /\ HasCalls(c)' => <<using[c], c>> \in offered'
        PROVE  Bound(c)'
    <2>1. Settled(c)' = Settled(c) /\ Proper(c)' = Proper(c)
      BY <1>2, <1>7 DEF Settled, Proper, Main
    <2>2. Backend(c)' = Backend(c) BY <1>7 DEF Backend
    <2> QED BY <1>1, <1>2, <1>7, <2>1, <2>2 DEF Bound
  \* Results are posted to the driver that offered the call.
  <1>8. ASSUME NEW reply, Serves(c, reply), pc[c] \in Serving
        PROVE  /\ home[c] \notin raced => ~orphaned'[c]
               /\ Backend(c) = "cursor" /\ reply = "calls" => <<using[c], c>> \in offered'
    <2>1. Backend(c) = "cursor" /\ reply = "calls" => <<using[c], c>> \in offered'
      BY <1>8 DEF Serves
    <2>2. ASSUME home[c] \notin raced PROVE ~orphaned'[c]
      <3>1. Settled(c) /\ using[c] = Proper(c) /\ ~orphaned[c] BY <1>1, <1>8, <2>2 DEF Bound
      <3>2. Backend(c) = "cursor" /\ owes[c] => <<using[c], c>> \in offered
        BY <1>1, <2>2, <3>1 DEF Bound, Backend
      <3>3. orphaned'[c] =
              (orphaned[c] \/ (Backend(c) = "cursor" /\ owes[c] /\ <<using[c], c>> \notin offered))
        BY <1>8 DEF Serves, DriverInv, DriverTypes
      <3> QED BY <3>1, <3>2, <3>3
    <2> QED BY <2>1, <2>2
  <1>9. CASE Admit(c)
    <2>1. pc[c] = "admit" /\ pc'[c] \in {"stream", "complete"}
          /\ UNCHANGED <<home, want, using, owes, orphaned, out>>
      BY <1>0, <1>9 DEF Admit, Move, request, history
    <2>2. out[c] = <<>> BY <1>1, <2>1 DEF Fine, View
    <2>3. ~HasCalls(c)' BY <2>1, <2>2 DEF HasCalls
    <2>4. pc[c] \in Serving /\ pc'[c] \in Serving /\ pc'[c] \notin {"record", "respond"} BY <2>1 DEF Serving
    <2>5. home[c] \notin raced => ~orphaned'[c] BY <1>1, <2>1 DEF Bound
    <2> QED BY <1>7, <2>1, <2>3, <2>4, <2>5
  <1>10. CASE Complete(c)
    <2>1. PICK reply \in Replies(c) : Serves(c, reply) /\ result' = [result EXCEPT ![c] = reply]
      BY <1>10 DEF Complete
    <2>2. pc[c] = "complete" /\ pc'[c] = "record" /\ UNCHANGED <<home, want, using, owes>>
      BY <1>0, <1>10 DEF Complete, Move, request
    <2>3. result'[c] = reply BY <2>1 DEF DriverInv, DriverTypes
    <2>4. pc[c] \in Serving /\ pc'[c] \in Serving /\ pc'[c] \notin Streaming
      BY <2>2 DEF Serving, Streaming
    <2>5. /\ home[c] \notin raced => ~orphaned'[c]
          /\ Backend(c) = "cursor" /\ reply = "calls" => <<using[c], c>> \in offered'
      BY <1>8, <2>1, <2>4
    <2> QED BY <1>7, <2>2, <2>3, <2>4, <2>5
  <1>11. CASE CursorBuffered(c) \/ CursorNative(c) \/ MockStreams(c) \/ UpstreamStreams(c)
    <2>1. PICK line, next :
            /\ Yields(c, line, next)
            /\ \/ UNCHANGED <<offered, orphaned>> /\ (Backend(c) = "cursor" => line # "calls")
               \/ Serves(c, line)
      <3>1. CASE CursorBuffered(c) BY <3>1 DEF CursorBuffered
      <3>2. CASE CursorNative(c) BY <3>2 DEF CursorNative
      <3>3. CASE MockStreams(c) BY <3>3 DEF MockStreams
      <3>4. CASE UpstreamStreams(c) BY <3>4 DEF UpstreamStreams
      <3> QED BY <1>11, <3>1, <3>2, <3>3, <3>4
    <2>2. pc[c] = "stream" /\ pc'[c] \in {"stream", "done"} /\ UNCHANGED <<home, want, using, owes>>
      BY <1>0, <2>1 DEF Yields, request
    <2>3. pc[c] \in Serving /\ pc'[c] \in Serving /\ pc'[c] \notin {"record", "respond"} /\ pc[c] \in Streaming
      BY <2>2 DEF Serving, Streaming
    <2>4. out[c] \in Seq(Lines) /\ out'[c] = out[c] \o <<line>>
      BY <2>1 DEF Yields, Send, Inv, ConversationTypes
    <2>5. HasCalls(c)' => HasCalls(c) \/ line = "calls"
      BY <2>4 DEF HasCalls
    <2>6. home[c] \notin raced => ~orphaned'[c]
      BY <1>1, <1>8, <2>1, <2>3 DEF Bound
    <2>7. Backend(c) = "cursor" /\ HasCalls(c)' => <<using[c], c>> \in offered'
      BY <1>1, <1>2, <1>8, <2>1, <2>3, <2>5 DEF Bound
    <2> QED BY <1>7, <2>2, <2>3, <2>6, <2>7
  <1>12. CASE SendDone(c)
    <2>1. pc[c] = "done" /\ pc'[c] = "billing" /\ UNCHANGED <<home, want, using, owes, orphaned>>
      BY <1>0, <1>12 DEF SendDone, Move, request, history
    <2>2. pc[c] \in Serving /\ pc'[c] \in Serving /\ pc'[c] \notin {"record", "respond"} /\ pc[c] \in Streaming
      BY <2>1 DEF Serving, Streaming
    <2>3. out[c] \in Seq(Lines) /\ out'[c] = out[c] \o <<"[DONE]">>
      BY <1>12 DEF SendDone, Send, Inv, ConversationTypes
    <2>4. HasCalls(c)' => HasCalls(c) BY <2>3 DEF HasCalls
    <2>5. home[c] \notin raced => ~orphaned'[c] BY <1>1, <2>1, <2>2 DEF Bound
    <2> QED BY <1>1, <1>2, <1>7, <2>1, <2>2, <2>4, <2>5 DEF Bound
  <1>13. CASE Respond(c)
    <2>1. pc[c] = "respond" /\ pc' = [pc EXCEPT ![c] = "over"] /\ UNCHANGED <<home, want, using, orphaned>>
          /\ owes' = [owes EXCEPT ![c] = (result[c] = "calls")]
      BY <1>13 DEF Respond, Move, request, history
    <2>2. owes'[c] = (result[c] = "calls") BY <2>1 DEF DriverInv, DriverTypes
    <2>3. pc[c] \in Serving BY <2>1 DEF Serving
    <2>4. owes'[c] => (Backend(c) = "cursor" => <<using[c], c>> \in offered)
      BY <1>1, <2>1, <2>2 DEF Bound
    <2> QED BY <1>4, <2>1, <2>3, <2>4
  <1>25. CASE RecordUsage(c)
    <2>1. /\ pc[c] = "record" /\ pc'[c] = "respond"
          /\ UNCHANGED <<home, want, using, owes, orphaned, result, out>>
      BY <1>0, <1>25 DEF RecordUsage, Move, request, history
    <2>2. /\ pc[c] \in Serving /\ pc'[c] \in Serving /\ pc'[c] \notin Streaming
          /\ pc[c] \in {"record", "respond"} /\ pc'[c] \in {"record", "respond"}
      BY <2>1 DEF Serving, Streaming
    <2>3. Settled(c)' = Settled(c) /\ Proper(c)' = Proper(c) /\ Backend(c)' = Backend(c)
      BY <1>2, <2>1 DEF Settled, Proper, Main, Backend
    <2> QED BY <1>1, <1>2, <2>1, <2>2, <2>3 DEF Bound
  <1>14. CASE RecordStream(c) \/ RecordStreamFails(c)
    <2>1. pc[c] = "billing" /\ pc' = [pc EXCEPT ![c] = "over"] /\ UNCHANGED <<home, want, using, orphaned>>
          /\ owes' = [owes EXCEPT ![c] = HasCalls(c)]
      BY <1>14 DEF RecordStream, RecordStreamFails, Move, request, history
    <2>2. owes'[c] = HasCalls(c) BY <2>1 DEF DriverInv, DriverTypes
    <2>3. pc[c] \in Serving /\ pc[c] \in Streaming BY <2>1 DEF Serving, Streaming
    <2>4. owes'[c] => (Backend(c) = "cursor" => <<using[c], c>> \in offered)
      BY <1>1, <2>1, <2>2, <2>3 DEF Bound
    <2> QED BY <1>4, <2>1, <2>3, <2>4
  <1>15. CASE Leave(c)
    <2>1. pc[c] \in {"stream", "done", "billing"} /\ pc' = [pc EXCEPT ![c] = "over"]
          /\ UNCHANGED <<home, want, using, orphaned>>
          /\ owes' = [owes EXCEPT ![c] = IF pc[c] = "billing" THEN HasCalls(c) ELSE @]
      BY <1>15 DEF Leave, request
    <2>2. owes'[c] = IF pc[c] = "billing" THEN HasCalls(c) ELSE owes[c]
      BY <2>1 DEF DriverInv, DriverTypes
    <2>3. pc[c] \in Serving /\ pc[c] \in Streaming BY <2>1 DEF Serving, Streaming
    <2>4. owes'[c] => owes[c] \/ (Backend(c) = "cursor" => <<using[c], c>> \in offered)
      BY <1>1, <2>1, <2>2, <2>3 DEF Bound
    <2> QED BY <1>4, <2>1, <2>3, <2>4
  <1>16. CASE TurnedAway(c) BY <1>3, <1>16 DEF TurnedAway
  <1>17. CASE BuildFails(c) BY <1>3, <1>17 DEF BuildFails, Move, request
  <1>18. CASE NoTools(c) BY <1>3, <1>18 DEF NoTools, Move, request
  <1>19. CASE Killed(c) BY <1>3, <1>19 DEF Killed, Move, request
  <1>20. CASE OverBudget(c) BY <1>3, <1>20 DEF OverBudget, Move, request
  <1>21. CASE CompleteFails(c) BY <1>3, <1>21 DEF CompleteFails, Move, request
  <1>22. CASE RecordFails(c) BY <1>3, <1>22 DEF RecordFails, Move, request
  <1>26. CASE RespondFails(c) BY <1>3, <1>26 DEF RespondFails, Move, request
  <1>23. CASE StreamRaises(c) BY <1>3, <1>23 DEF StreamRaises, Move, request
  <1>24. CASE StreamEnds(c) BY <1>3, <1>24 DEF StreamEnds, Move, request, history
  <1> QED BY <1>5, <1>6, <1>9, <1>10, <1>11, <1>12, <1>13, <1>14, <1>15, <1>16, <1>17, <1>18,
             <1>19, <1>20, <1>21, <1>22, <1>23, <1>24, <1>25, <1>26 DEF Handler

\* The table under the handlers, and the conversations under the table.
LEMMA DriverStep == Inv /\ DriverInv /\ [Next]_vars => DriverInv'
  <1> SUFFICES ASSUME Inv, DriverInv, [Next]_vars PROVE DriverInv' OBVIOUS
  <1>0. /\ Conversations \subseteq Threads /\ pc \in [Threads -> PCs]
        /\ want \in [Threads -> Backends \cup {"default"}] /\ cache \in [Backends -> Nat]
        /\ Lister \in Threads /\ Lister \notin Conversations
    BY GatewayConstants DEF Threads, Inv, ConversationTypes, RouteTypes
  <1>1. ASSUME NEW c \in Conversations, Post(c) \/ TurnedAway(c) \/ Handler(c) \/ Leave(c)
        PROVE  DriverInv'
    <2>1. DriverTypes' /\ UNCHANGED <<cache, raced>> /\ offered \subseteq offered'
      BY <1>1, Others DEF DriverInv
    <2>2. ASSUME NEW d \in Conversations PROVE Bound(d)'
      <3>1. CASE d = c BY <1>1, <3>1, OwnStep
      <3>2. CASE d # c
        <4>1. /\ home'[d] = home[d] /\ want'[d] = want[d] /\ using'[d] = using[d]
              /\ owes'[d] = owes[d] /\ orphaned'[d] = orphaned[d] /\ result'[d] = result[d]
              /\ out'[d] = out[d] /\ pc'[d] = pc[d]
          BY <1>0, <1>1, <3>2, Others DEF DriverInv
        <4>2. Bound(d) BY DEF DriverInv, AllBound
        <4> QED BY <2>1, <4>1, <4>2, BoundKept
      <3> QED BY <3>1, <3>2
    <2>3. pc'[c] \in {"build", "fetch"} => pc'[c] = pc[c] /\ want'[c] = want[c]
      <3>1. ASSUME pc' = [pc EXCEPT ![c] = "over"] PROVE pc'[c] \notin {"build", "fetch"}
        BY <1>0, <3>1
      <3>2. CASE Post(c)
        <4>1. PICK x \in {"admit", "lookup"} : pc' = [pc EXCEPT ![c] = x] BY <3>2 DEF Post
        <4> QED BY <1>0, <4>1
      <3>3. CASE Fetch(c) BY <1>0, <3>3 DEF Fetch, Move
      <3>4. CASE Admit(c) \/ Complete(c) \/ RecordUsage(c) \/ SendDone(c)
        BY <1>0, <3>4 DEF Admit, Complete, RecordUsage, SendDone, Move
      <3>5. CASE TurnedAway(c) \/ BuildFails(c) \/ NoTools(c) \/ Killed(c) \/ OverBudget(c)
        BY <3>1, <3>5 DEF TurnedAway, BuildFails, NoTools, Killed, OverBudget, Move
      <3>6. CASE CompleteFails(c) \/ Respond(c) \/ RespondFails(c) \/ RecordFails(c) \/ StreamRaises(c)
        BY <3>1, <3>6 DEF CompleteFails, Respond, RespondFails, RecordFails, StreamRaises, Move
      <3>7. CASE StreamEnds(c) \/ RecordStream(c) \/ RecordStreamFails(c) \/ Leave(c)
        BY <3>1, <3>7 DEF StreamEnds, RecordStream, RecordStreamFails, Leave, Move
      <3>8. CASE CursorBuffered(c) \/ CursorNative(c) \/ MockStreams(c) \/ UpstreamStreams(c)
        <4>1. PICK line, next : Yields(c, line, next)
          <5>1. CASE CursorBuffered(c) BY <5>1 DEF CursorBuffered
          <5>2. CASE CursorNative(c) BY <5>2 DEF CursorNative
          <5>3. CASE MockStreams(c) BY <5>3 DEF MockStreams
          <5>4. CASE UpstreamStreams(c) BY <5>4 DEF UpstreamStreams
          <5> QED BY <3>8, <5>1, <5>2, <5>3, <5>4
        <4> QED BY <1>0, <4>1 DEF Yields
      <3> QED BY <1>1, <3>2, <3>3, <3>4, <3>5, <3>6, <3>7, <3>8 DEF Handler
    <2>4. \A t \in Threads : pc'[t] \in {"build", "fetch"} => pc'[t] = pc[t] /\ want'[t] = want[t]
      BY <1>1, <2>3, Others DEF DriverInv
    <2>5. TableInv' BY <2>1, <2>4, TableKept DEF DriverInv
    <2> QED BY <2>1, <2>2, <2>5 DEF DriverInv, AllBound
  \* A step of the table or of the lister.
  <1>2. ASSUME UNCHANGED <<home, using, owes, orphaned, result, out, offered>>,
               raced \subseteq raced', TableInv',
               \A c \in Conversations : want'[c] = want[c],
               \A b \in Backends : cache[b] # 0 /\ b \notin raced' => cache'[b] = cache[b],
               \A c \in Conversations :
                  pc'[c] = pc[c] \/ (pc[c] \in OnTheWay /\ pc'[c] \in OnTheWay)
        PROVE  DriverInv'
    <2>1. DriverTypes' BY <1>2 DEF DriverInv, DriverTypes
    <2>2. ASSUME NEW c \in Conversations PROVE Bound(c)'
      <3>1. Bound(c) BY DEF DriverInv, AllBound
      <3> QED BY <1>2, <3>1, BoundKept
    <2> QED BY <1>2, <2>1, <2>2 DEF DriverInv, AllBound
  <1>3. ASSUME NEW t \in Threads, Lookup(t) PROVE DriverInv'
    <2>1. /\ pc[t] = "lookup" /\ UNCHANGED <<home, using, owes, orphaned, result, out, offered, want, cache>>
          /\ pc' = [pc EXCEPT ![t] = IF Cached(want[t]) THEN "fetch" ELSE "build"]
          /\ raced' = IF ~Cached(want[t])
                         /\ \E u \in Threads \ {t} : pc[u] = "build" /\ want[u] = want[t]
                      THEN raced \cup {want[t]} ELSE raced
      BY <1>3 DEF Lookup, Move, request, history
    <2>2. want[t] \in Backends BY <2>1 DEF Inv, RouteTypes
    <2>3. \A u \in Threads : pc'[u] = IF u = t THEN (IF cache[want[t]] # 0 THEN "fetch" ELSE "build") ELSE pc[u]
      BY <1>0, <2>1 DEF Cached
    <2>4. TableInv'
      <3>1. raced \subseteq raced' /\ raced' \subseteq Backends
        BY <2>1, <2>2 DEF DriverInv, TableInv
      <3>2. \A u \in Threads : pc'[u] = "build" => cache[want[u]] = 0 \/ want[u] \in raced'
        BY <2>3, <3>1 DEF DriverInv, TableInv
      <3>3. \A u \in Threads : pc'[u] = "fetch" => cache[want[u]] # 0
        BY <2>3 DEF DriverInv, TableInv
      <3>4. ASSUME NEW u \in Threads, NEW w \in Threads, pc'[u] = "build", pc'[w] = "build",
                   want[u] = want[w], u # w
            PROVE  want[u] \in raced'
        <4>1. CASE u # t /\ w # t
          BY <2>3, <3>1, <3>4, <4>1 DEF DriverInv, TableInv
        <4>2. CASE u = t
          BY <2>1, <2>3, <3>4, <4>2 DEF Cached
        <4>3. CASE w = t
          BY <2>1, <2>3, <3>4, <4>3 DEF Cached
        <4> QED BY <4>1, <4>2, <4>3
      <3> QED BY <2>1, <3>1, <3>2, <3>3, <3>4 DEF TableInv
    <2>5. \A c \in Conversations : pc'[c] = pc[c] \/ (pc[c] \in OnTheWay /\ pc'[c] \in OnTheWay)
      BY <1>0, <2>1, <2>3 DEF OnTheWay
    <2> QED BY <1>2, <2>1, <2>4, <2>5
  <1>4. ASSUME NEW t \in Threads, Build(t) PROVE DriverInv'
    <2>1. /\ pc[t] = "build" /\ UNCHANGED <<home, using, owes, orphaned, result, out, offered, want, raced>>
          /\ pc' = [pc EXCEPT ![t] = "fetch"]
          /\ cache' = [cache EXCEPT ![want[t]] = built[want[t]] + 1]
      BY <1>4 DEF Build, Move, request, history
    <2>2. want[t] \in Backends /\ built[want[t]] + 1 \in Nat \ {0}
      BY <2>1 DEF Inv, RouteTypes
    <2>3. \A u \in Threads : pc'[u] = IF u = t THEN "fetch" ELSE pc[u] BY <1>0, <2>1
    <2>4. /\ \A b \in Backends : b # want[t] => cache'[b] = cache[b]
          /\ cache'[want[t]] # 0
      BY <1>0, <2>1, <2>2
    <2>5. cache[want[t]] = 0 \/ want[t] \in raced BY <2>1 DEF DriverInv, TableInv
    <2>6. \A u \in Threads : pc[u] \in {"build", "fetch"} => want[u] \in Backends
      BY DEF Inv, RouteTypes
    <2>7. TableInv'
      <3>1. ASSUME NEW u \in Threads, pc'[u] = "build" PROVE cache'[want[u]] = 0 \/ want[u] \in raced
        BY <2>1, <2>3, <2>4, <2>6, <3>1 DEF DriverInv, TableInv
      <3>2. ASSUME NEW u \in Threads, pc'[u] = "fetch" PROVE cache'[want[u]] # 0
        BY <2>1, <2>3, <2>4, <2>6, <3>2 DEF DriverInv, TableInv
      <3> QED BY <2>1, <2>3, <3>1, <3>2 DEF DriverInv, TableInv
    <2>8. \A b \in Backends : cache[b] # 0 /\ b \notin raced' => cache'[b] = cache[b]
      BY <2>1, <2>4, <2>5
    <2>9. \A c \in Conversations : pc'[c] = pc[c] \/ (pc[c] \in OnTheWay /\ pc'[c] \in OnTheWay)
      BY <1>0, <2>1, <2>3 DEF OnTheWay
    <2> QED BY <1>2, <2>1, <2>7, <2>8, <2>9
  <1>5. CASE List \/ ListNext \/ ListSkips
    <2>1. PICK rest : ListFrom(rest) BY <1>5 DEF List, ListNext, ListSkips
    <2>2. UNCHANGED <<home, using, owes, orphaned, result, out, offered, cache, raced>>
      BY <1>5 DEF List, ListNext, ListSkips, tables, request, history
    <2>3. /\ \A t \in Threads \ {Lister} : pc'[t] = pc[t] /\ want'[t] = want[t]
          /\ pc'[Lister] \notin {"build", "fetch"}
      BY <1>0, <2>1 DEF ListFrom
    <2>4. TableInv' BY <2>2, <2>3, TableKept DEF DriverInv
    <2> QED BY <1>0, <1>2, <2>2, <2>3, <2>4
  <1>6. CASE UNCHANGED vars
    <2>1. UNCHANGED <<home, using, owes, orphaned, result, out, offered, cache, raced, pc, want>>
      BY <1>6 DEF vars
    <2>2. TableInv' BY <2>1, TableKept DEF DriverInv
    <2> QED BY <1>2, <2>1, <2>2
  <1> QED BY <1>1, <1>3, <1>4, <1>5, <1>6 DEF Next

\* Unless two threads raced to build its backend's driver, a conversation's
\* results come to the driver that offered the call (_get_routed_backend), for
\* any conversations, names and bounds.
THEOREM ResultsAlwaysFindTheirDriver == Spec => []ResultsFindTheirDriver
  <1>1. Init => DriverInv
    <2> SUFFICES ASSUME Init PROVE DriverInv OBVIOUS
    <2>1. DriverTypes BY DEF Init, DriverTypes
    <2>2. \A t \in Threads : pc[t] = "idle" BY DEF Init
    <2>3. TableInv BY <2>2 DEF Init, TableInv
    <2>4. ASSUME NEW c \in Conversations PROVE Bound(c)
      <3>1. pc[c] = "idle" /\ ~owes[c] /\ ~orphaned[c] BY <2>2 DEF Init, Threads
      <3>2. "idle" \notin OnTheWay \cup Serving \cup Streaming \cup {"record", "respond"}
        BY DEF OnTheWay, Serving, Streaming
      <3> QED BY <3>1, <3>2 DEF Bound
    <2> QED BY <2>1, <2>3, <2>4 DEF DriverInv, AllBound
  <1>2. DriverInv => ResultsFindTheirDriver
    BY DEF DriverInv, AllBound, Bound, ResultsFindTheirDriver
  <1> QED BY <1>1, <1>2, AlwaysFine, DriverStep, PTL DEF Spec

=============================================================================
