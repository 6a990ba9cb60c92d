--------------------------- MODULE ToolLoopProofs ---------------------------
(* Proofs about ToolLoop, for every set of runs, calls and handler threads  *)
(* and every bound.                                                         *)
EXTENDS ToolLoopRefines, TLAPS

USE ConstantsAssumption DEF ConstantsAssumption

\* A handler that has a run, and has not answered, has one of this process; idle
\* handlers have none.
ActiveRegistered ==
    \A r \in Requests :
        /\ pc[r] = "idle" => active[r] = None
        /\ Waiting(r) => active[r] # None
        /\ active[r] # None /\ pc[r] \notin {"idle", "replied"} => active[r] \in Registered

\* The pending tables: a call has an owner from the moment it is parked, its
\* callback dies with the owner's process, and _call_to_run names the owner.
CallsOwned ==
    \A c \in Calls :
        /\ tool[c] = "idle" <=> owner[c] = None
        /\ owner[c] # None => phase[owner[c]] # "free"
        /\ tool[c] \in {"parked", "waiting"} => owner[c] \in Registered
        /\ callToRun[c] # None => callToRun[c] = owner[c] /\ owner[c] \in Registered

\* A batch holds pushed calls of its own run, and only a run of this process
\* has one.
BatchesOwned ==
    \A n \in Runs : \A c \in batch[n] :
        owner[c] = n /\ n \in Registered /\ tool[c] \notin {"idle", "parked"}

\* Results come from the client's history, errors from a close.
Reasons ==
    /\ ReturnsForAReason
    /\ \A c \in Calls :
          /\ result[c] = "result" => c \in Executed
          /\ result[c] = "closed" => owner[c] \in Runs /\ closed[owner[c]]
    /\ \A r \in Requests : \A i \in DOMAIN todo[r] : todo[r][i] \in Executed

\* A call is unknown to the client and to _call_to_run until it is pushed.
Once ==
    /\ OfferedOnce
    /\ OfferedIsRoutable
    /\ \A c \in Calls : tool[c] \in {"idle", "parked"} => ~Known(c) /\ callToRun[c] = None

TypeInv == TypeOK /\ ActiveRegistered /\ CallsOwned

\* TypeOK is inductive with the two facts that keep the functions applied
\* inside their domains: it needs them where a handler takes the batch of its
\* run and where a call is pushed on its owner's batch.
LEMMA TypeInit == Init => TypeInv
  <1> SUFFICES ASSUME Init PROVE TypeInv
    OBVIOUS
  <1>1. TypeOK
    <2>1. hist \in Seq(Calls) /\ todo \in [Requests -> Seq(Calls)]
      BY DEF Init
    <2>2. /\ store \in SUBSET Runs /\ expired \in SUBSET Runs /\ open \in SUBSET Calls
          /\ batch \in [Runs -> SUBSET Calls] /\ handed \in [Requests -> SUBSET Calls]
      BY DEF Init
    <2>3. /\ turn \in Nat /\ abandons \in Nat /\ kills \in Nat /\ restarts \in Nat
          /\ turnOf \in [Runs -> Nat] /\ reqTurn \in [Requests -> Nat]
      BY DEF Init
    <2>4. /\ closed \in [Runs -> BOOLEAN] /\ batchEvent \in [Runs -> BOOLEAN]
          /\ doneEvent \in [Runs -> BOOLEAN] /\ withTools \in [Requests -> BOOLEAN]
          /\ killed \in BOOLEAN /\ killing \in BOOLEAN
      BY DEF Init
    <2>5. /\ owner \in [Calls -> Runs \cup {None}] /\ callToRun \in [Calls -> Runs \cup {None}]
          /\ active \in [Requests -> Runs \cup {None}] /\ cur \in Requests \cup {None}
      BY DEF Init
    <2>6. /\ result \in [Calls -> Results] /\ phase \in [Runs -> Phases]
          /\ outcome \in [Runs -> {"none", "text", "error"}] /\ tool \in [Calls -> Tools]
          /\ pc \in [Requests -> PCs] /\ reply \in [Requests -> Replies]
          /\ client \in {"idle", "executing", "awaiting"}
      BY DEF Init, Phases, Tools, Results, PCs, Replies
    <2> QED BY <2>1, <2>2, <2>3, <2>4, <2>5, <2>6 DEF TypeOK
  <1>2. ActiveRegistered /\ CallsOwned
    BY DEF Init, ActiveRegistered, CallsOwned, Waiting
  <1> QED BY <1>1, <1>2 DEF TypeInv

\* Every action preserves the types.  The batch of a run is taken only by a
\* handler that has a run.
LEMMA TypeStep ==
  ASSUME TypeOK, ActiveRegistered, [Next]_vars PROVE TypeOK'
  <1> USE DEF sessionVars, callVars, runVars, reqVars, clientVars, adminVars
  <1>1. ASSUME NEW r \in Requests, AskTurn(r) PROVE TypeOK'
    BY <1>1 DEF AskTurn, Submit, TypeOK, Phases, Tools, Results, PCs, Replies
  <1>2. ASSUME NEW r \in Requests, PostResults(r) PROVE TypeOK'
    BY <1>2 DEF PostResults, Submit, TypeOK, Phases, Tools, Results, PCs, Replies
  <1>3. ASSUME NEW r \in Requests, Abandon(r) PROVE TypeOK'
    BY <1>3 DEF Abandon, Submit, TypeOK, Phases, Tools, Results, PCs, Replies
  <1>4. ASSUME NEW r \in Requests, Receive(r) PROVE TypeOK'
    BY <1>4 DEF Receive, TypeOK, Phases, Tools, Results, PCs, Replies
  <1>5. ASSUME NEW c \in Calls, ExecuteTool(c) PROVE TypeOK'
    BY <1>5 DEF ExecuteTool, TypeOK, Phases, Tools, Results, PCs, Replies
  <1>6. ASSUME NEW r \in Requests, CheckKilled(r) PROVE TypeOK'
    BY <1>6 DEF CheckKilled, Answer, TypeOK, Phases, Tools, Results, PCs, Replies
  <1>7. ASSUME NEW r \in Requests, DeliverResult(r) PROVE TypeOK'
    <2>1. /\ result' \in [Calls -> Results]
          /\ active' \in [Requests -> Runs \cup {None}]
          /\ todo' \in [Requests -> Seq(Calls)]
      BY <1>7 DEF DeliverResult, RunFor, TypeOK, Results
    <2> QED BY <1>7, <2>1 DEF DeliverResult, TypeOK
  <1>8. ASSUME NEW r \in Requests, ResumeRun(r) PROVE TypeOK'
    BY <1>8 DEF ResumeRun, TypeOK, Phases, Tools, Results, PCs, Replies
  <1>9. ASSUME NEW r \in Requests, NEW n \in Runs, StartToolRun(r, n) PROVE TypeOK'
    BY <1>9 DEF StartToolRun, Kept, TypeOK, Phases, Tools, Results, PCs, Replies
  <1>10. ASSUME NEW r \in Requests, StartText(r) PROVE TypeOK'
    BY <1>10 DEF StartText, TypeOK, Phases, Tools, Results, PCs, Replies
  <1>11. ASSUME NEW r \in Requests, CompleteText(r) PROVE TypeOK'
    BY <1>11 DEF CompleteText, Answer, TypeOK, Phases, Tools, Results, PCs, Replies
  <1>12. ASSUME NEW r \in Requests, WakeOnBatch(r) PROVE TypeOK'
    BY <1>12 DEF WakeOnBatch, TypeOK, Phases, Tools, Results, PCs, Replies
  <1>13. ASSUME NEW r \in Requests, TakeBatch(r) PROVE TypeOK'
    <2>1. active[r] \in Runs
      BY <1>13 DEF TakeBatch, TypeOK, ActiveRegistered, Waiting
    <2> QED
      BY <1>13, <2>1 DEF TakeBatch, TakeFrom, Route, Answer, TypeOK, PCs, Replies
  <1>14. ASSUME NEW r \in Requests, PollExpires(r) PROVE TypeOK'
    BY <1>14 DEF PollExpires, TypeOK, Phases, Tools, Results, PCs, Replies
  <1>15. ASSUME NEW r \in Requests, CheckDone(r) PROVE TypeOK'
    BY <1>15 DEF CheckDone, Answer, Verdict, TypeOK, PCs, Replies
  <1>16. ASSUME NEW r \in Requests, Deadline(r) PROVE TypeOK'
    BY <1>16 DEF Deadline, Answer, Verdict, TypeOK, Phases, Tools, Results, PCs, Replies
  <1>17. ASSUME NEW n \in Runs, NEW c \in Calls, Park(n, c) PROVE TypeOK'
    BY <1>17 DEF Park, TypeOK, Phases, Tools, Results, PCs, Replies
  <1>18. ASSUME NEW c \in Calls, PushTool(c) PROVE TypeOK'
    BY <1>18 DEF PushTool, PushOn, TypeOK, Phases, Tools, Results, PCs, Replies
  <1>19. ASSUME NEW c \in Calls, WaitResult(c) PROVE TypeOK'
    BY <1>19 DEF WaitResult, TypeOK, Phases, Tools, Results, PCs, Replies
  <1>20. ASSUME NEW c \in Calls, ToolTimeout(c) PROVE TypeOK'
    BY <1>20 DEF ToolTimeout, TypeOK, Phases, Tools, Results, PCs, Replies
  <1>21. ASSUME NEW n \in Runs, RunFinishes(n) PROVE TypeOK'
    BY <1>21 DEF RunFinishes, TypeOK, Phases, Tools, Results, PCs, Replies
  <1>22. ASSUME NEW n \in Runs, SignalDone(n) PROVE TypeOK'
    BY <1>22 DEF SignalDone, TypeOK, Phases, Tools, Results, PCs, Replies
  <1>23. ASSUME NEW n \in Runs, RunnerCloses(n) PROVE TypeOK'
    BY <1>23 DEF RunnerCloses, Close, TypeOK, Phases, Tools, Results, PCs, Replies
  <1>24. ASSUME NEW n \in Runs, Expire(n) PROVE TypeOK'
    BY <1>24 DEF Expire, TypeOK, Phases, Tools, Results, PCs, Replies
  <1>25. CASE SetKilled
    BY <1>25 DEF SetKilled, TypeOK, Phases, Tools, Results, PCs, Replies
  <1>26. CASE CloseAll
    BY <1>26 DEF CloseAll, Close, TypeOK, Phases, Tools, Results, PCs, Replies
  <1>27. CASE Unkill
    BY <1>27 DEF Unkill, TypeOK, Phases, Tools, Results, PCs, Replies
  <1>28. CASE Restart
    <2>1. phase' \in [Runs -> Phases] /\ store' \in SUBSET Runs
      BY <1>28 DEF Restart, TypeOK, Phases
    <2>2. tool' \in [Calls -> Tools]
      BY <1>28 DEF Restart, TypeOK, Tools
    <2>3. pc' \in [Requests -> PCs]
      BY <1>28 DEF Restart, TypeOK, PCs
    <2>4. reply' \in [Requests -> Replies]
      BY <1>28 DEF Restart, TypeOK, Replies
    <2>5. restarts' \in Nat /\ batch' \in [Runs -> SUBSET Calls]
      BY <1>28 DEF Restart, TypeOK
    <2>6. /\ killing' \in BOOLEAN /\ batchEvent' \in [Runs -> BOOLEAN]
          /\ callToRun' \in [Calls -> Runs \cup {None}]
      BY <1>28 DEF Restart, TypeOK
    <2> QED
      BY <1>28, <2>1, <2>2, <2>3, <2>4, <2>5, <2>6 DEF Restart, TypeOK
  <1>29. CASE UNCHANGED vars
    BY <1>29 DEF vars, TypeOK, Phases, Tools, Results, PCs, Replies
  <1> QED
    BY <1>1, <1>2, <1>3, <1>4, <1>5, <1>6, <1>7, <1>8, <1>9, <1>10, <1>11, <1>12,
       <1>13, <1>14, <1>15, <1>16, <1>17, <1>18, <1>19, <1>20, <1>21, <1>22, <1>23,
       <1>24, <1>25, <1>26, <1>27, <1>28, <1>29
       DEF Next, Client, Handler, ToolThread, Runner

\* Every action preserves what is known of the handlers' runs: a run is resumed
\* only from the tables of this process, which a restart empties together with
\* the handlers.
LEMMA ActiveStep ==
  ASSUME TypeOK, ActiveRegistered, CallsOwned, [Next]_vars PROVE ActiveRegistered'
  <1> USE DEF sessionVars, callVars, runVars, reqVars, clientVars, adminVars
  <1>1. ASSUME NEW r \in Requests, AskTurn(r) PROVE ActiveRegistered'
    BY <1>1 DEF AskTurn, Submit, TypeOK, ActiveRegistered, Waiting, Registered
  <1>2. ASSUME NEW r \in Requests, PostResults(r) PROVE ActiveRegistered'
    BY <1>2 DEF PostResults, Submit, TypeOK, ActiveRegistered, Waiting, Registered
  <1>3. ASSUME NEW r \in Requests, Abandon(r) PROVE ActiveRegistered'
    BY <1>3 DEF Abandon, Submit, TypeOK, ActiveRegistered, Waiting, Registered
  <1>4. ASSUME NEW r \in Requests, Receive(r) PROVE ActiveRegistered'
    BY <1>4 DEF Receive, TypeOK, ActiveRegistered, Waiting, Registered
  <1>5. ASSUME NEW c \in Calls, ExecuteTool(c) PROVE ActiveRegistered'
    BY <1>5 DEF ExecuteTool, TypeOK, ActiveRegistered, Waiting, Registered
  <1>6. ASSUME NEW r \in Requests, CheckKilled(r) PROVE ActiveRegistered'
    BY <1>6 DEF CheckKilled, Answer, TypeOK, ActiveRegistered, Waiting, Registered
  <1>7. ASSUME NEW r \in Requests, DeliverResult(r) PROVE ActiveRegistered'
    BY <1>7 DEF DeliverResult, RunFor, TypeOK, ActiveRegistered, CallsOwned, Waiting, Registered
  <1>8. ASSUME NEW r \in Requests, ResumeRun(r) PROVE ActiveRegistered'
    BY <1>8 DEF ResumeRun, TypeOK, ActiveRegistered, Waiting, Registered
  <1>9. ASSUME NEW r \in Requests, NEW n \in Runs, StartToolRun(r, n) PROVE ActiveRegistered'
    BY <1>9 DEF StartToolRun, Kept, TypeOK, ActiveRegistered, Waiting, Registered
  <1>10. ASSUME NEW r \in Requests, StartText(r) PROVE ActiveRegistered'
    BY <1>10 DEF StartText, TypeOK, ActiveRegistered, Waiting, Registered
  <1>11. ASSUME NEW r \in Requests, CompleteText(r) PROVE ActiveRegistered'
    BY <1>11 DEF CompleteText, Answer, TypeOK, ActiveRegistered, Waiting, Registered
  <1>12. ASSUME NEW r \in Requests, WakeOnBatch(r) PROVE ActiveRegistered'
    BY <1>12 DEF WakeOnBatch, TypeOK, ActiveRegistered, Waiting, Registered
  <1>13. ASSUME NEW r \in Requests, TakeBatch(r) PROVE ActiveRegistered'
    BY <1>13 DEF TakeBatch, TakeFrom, Route, Answer, TypeOK, ActiveRegistered, Waiting, Registered
  <1>14. ASSUME NEW r \in Requests, PollExpires(r) PROVE ActiveRegistered'
    BY <1>14 DEF PollExpires, TypeOK, ActiveRegistered, Waiting, Registered
  <1>15. ASSUME NEW r \in Requests, CheckDone(r) PROVE ActiveRegistered'
    BY <1>15 DEF CheckDone, Answer, Verdict, TypeOK, ActiveRegistered, Waiting, Registered
  <1>16. ASSUME NEW r \in Requests, Deadline(r) PROVE ActiveRegistered'
    BY <1>16 DEF Deadline, Answer, Verdict, TypeOK, ActiveRegistered, Waiting, Registered
  <1>17. ASSUME NEW n \in Runs, NEW c \in Calls, Park(n, c) PROVE ActiveRegistered'
    BY <1>17 DEF Park, TypeOK, ActiveRegistered, Waiting, Registered
  <1>18. ASSUME NEW c \in Calls, PushTool(c) PROVE ActiveRegistered'
    BY <1>18 DEF PushTool, PushOn, TypeOK, ActiveRegistered, Waiting, Registered
  <1>19. ASSUME NEW c \in Calls, WaitResult(c) PROVE ActiveRegistered'
    BY <1>19 DEF WaitResult, TypeOK, ActiveRegistered, Waiting, Registered
  <1>20. ASSUME NEW c \in Calls, ToolTimeout(c) PROVE ActiveRegistered'
    BY <1>20 DEF ToolTimeout, TypeOK, ActiveRegistered, Waiting, Registered
  <1>21. ASSUME NEW n \in Runs, RunFinishes(n) PROVE ActiveRegistered'
    BY <1>21 DEF RunFinishes, TypeOK, ActiveRegistered, Waiting, Registered
  <1>22. ASSUME NEW n \in Runs, SignalDone(n) PROVE ActiveRegistered'
    BY <1>22 DEF SignalDone, TypeOK, ActiveRegistered, Waiting, Registered
  <1>23. ASSUME NEW n \in Runs, RunnerCloses(n) PROVE ActiveRegistered'
    BY <1>23 DEF RunnerCloses, Close, TypeOK, ActiveRegistered, Waiting, Registered
  <1>24. ASSUME NEW n \in Runs, Expire(n) PROVE ActiveRegistered'
    BY <1>24 DEF Expire, TypeOK, ActiveRegistered, Waiting, Registered
  <1>25. CASE SetKilled
    BY <1>25 DEF SetKilled, TypeOK, ActiveRegistered, Waiting, Registered
  <1>26. CASE CloseAll
    BY <1>26 DEF CloseAll, Close, TypeOK, ActiveRegistered, Waiting, Registered
  <1>27. CASE Unkill
    BY <1>27 DEF Unkill, TypeOK, ActiveRegistered, Waiting, Registered
  <1>28. CASE Restart
    BY <1>28 DEF Restart, TypeOK, ActiveRegistered, Waiting, Registered
  <1>29. CASE UNCHANGED vars
    BY <1>29 DEF vars, TypeOK, ActiveRegistered, Waiting, Registered
  <1> QED
    BY <1>1, <1>2, <1>3, <1>4, <1>5, <1>6, <1>7, <1>8, <1>9, <1>10, <1>11, <1>12,
       <1>13, <1>14, <1>15, <1>16, <1>17, <1>18, <1>19, <1>20, <1>21, <1>22, <1>23,
       <1>24, <1>25, <1>26, <1>27, <1>28, <1>29
       DEF Next, Client, Handler, ToolThread, Runner

\* Every action preserves the ownership of calls.
LEMMA OwnedStep ==
  ASSUME TypeOK, ActiveRegistered, CallsOwned, BatchesOwned, [Next]_vars PROVE CallsOwned'
  <1> USE DEF sessionVars, callVars, runVars, reqVars, clientVars, adminVars
  <1>1. ASSUME NEW r \in Requests, AskTurn(r) PROVE CallsOwned'
    BY <1>1 DEF AskTurn, Submit, TypeOK, CallsOwned, Registered
  <1>2. ASSUME NEW r \in Requests, PostResults(r) PROVE CallsOwned'
    BY <1>2 DEF PostResults, Submit, TypeOK, CallsOwned, Registered
  <1>3. ASSUME NEW r \in Requests, Abandon(r) PROVE CallsOwned'
    BY <1>3 DEF Abandon, Submit, TypeOK, CallsOwned, Registered
  <1>4. ASSUME NEW r \in Requests, Receive(r) PROVE CallsOwned'
    BY <1>4 DEF Receive, TypeOK, CallsOwned, Registered
  <1>5. ASSUME NEW c \in Calls, ExecuteTool(c) PROVE CallsOwned'
    BY <1>5 DEF ExecuteTool, TypeOK, CallsOwned, Registered
  <1>6. ASSUME NEW r \in Requests, CheckKilled(r) PROVE CallsOwned'
    BY <1>6 DEF CheckKilled, Answer, TypeOK, CallsOwned, Registered
  <1>7. ASSUME NEW r \in Requests, DeliverResult(r) PROVE CallsOwned'
    BY <1>7 DEF DeliverResult, RunFor, TypeOK, CallsOwned, Registered
  <1>8. ASSUME NEW r \in Requests, ResumeRun(r) PROVE CallsOwned'
    BY <1>8 DEF ResumeRun, TypeOK, CallsOwned, Registered
  <1>9. ASSUME NEW r \in Requests, NEW n \in Runs, StartToolRun(r, n) PROVE CallsOwned'
    BY <1>9 DEF StartToolRun, Kept, TypeOK, CallsOwned, Registered
  <1>10. ASSUME NEW r \in Requests, StartText(r) PROVE CallsOwned'
    BY <1>10 DEF StartText, TypeOK, CallsOwned, Registered
  <1>11. ASSUME NEW r \in Requests, CompleteText(r) PROVE CallsOwned'
    BY <1>11 DEF CompleteText, Answer, TypeOK, CallsOwned, Registered
  <1>12. ASSUME NEW r \in Requests, WakeOnBatch(r) PROVE CallsOwned'
    BY <1>12 DEF WakeOnBatch, TypeOK, CallsOwned, Registered
  <1>13. ASSUME NEW r \in Requests, TakeBatch(r) PROVE CallsOwned'
    <2>1. active[r] \in Runs
      BY <1>13 DEF TakeBatch, TypeOK, ActiveRegistered, Waiting
    <2> QED
      BY <1>13, <2>1 DEF TakeBatch, TakeFrom, Route, TypeOK, CallsOwned, BatchesOwned, Registered
  <1>14. ASSUME NEW r \in Requests, PollExpires(r) PROVE CallsOwned'
    BY <1>14 DEF PollExpires, TypeOK, CallsOwned, Registered
  <1>15. ASSUME NEW r \in Requests, CheckDone(r) PROVE CallsOwned'
    BY <1>15 DEF CheckDone, Answer, Verdict, TypeOK, CallsOwned, Registered
  <1>16. ASSUME NEW r \in Requests, Deadline(r) PROVE CallsOwned'
    BY <1>16 DEF Deadline, Answer, Verdict, TypeOK, CallsOwned, Registered
  <1>17. ASSUME NEW n \in Runs, NEW c \in Calls, Park(n, c) PROVE CallsOwned'
    BY <1>17 DEF Park, TypeOK, CallsOwned, Registered
  <1>18. ASSUME NEW c \in Calls, PushTool(c) PROVE CallsOwned'
    BY <1>18 DEF PushTool, PushOn, TypeOK, CallsOwned, Registered
  <1>19. ASSUME NEW c \in Calls, WaitResult(c) PROVE CallsOwned'
    BY <1>19 DEF WaitResult, TypeOK, CallsOwned, Registered
  <1>20. ASSUME NEW c \in Calls, ToolTimeout(c) PROVE CallsOwned'
    BY <1>20 DEF ToolTimeout, TypeOK, CallsOwned, Registered
  <1>21. ASSUME NEW n \in Runs, RunFinishes(n) PROVE CallsOwned'
    BY <1>21 DEF RunFinishes, TypeOK, CallsOwned, Registered
  <1>22. ASSUME NEW n \in Runs, SignalDone(n) PROVE CallsOwned'
    BY <1>22 DEF SignalDone, TypeOK, CallsOwned, Registered
  <1>23. ASSUME NEW n \in Runs, RunnerCloses(n) PROVE CallsOwned'
    BY <1>23 DEF RunnerCloses, Close, TypeOK, CallsOwned, Registered
  <1>24. ASSUME NEW n \in Runs, Expire(n) PROVE CallsOwned'
    BY <1>24 DEF Expire, TypeOK, CallsOwned, Registered
  <1>25. CASE SetKilled
    BY <1>25 DEF SetKilled, TypeOK, CallsOwned, Registered
  <1>26. CASE CloseAll
    BY <1>26 DEF CloseAll, Close, TypeOK, CallsOwned, Registered
  <1>27. CASE Unkill
    BY <1>27 DEF Unkill, TypeOK, CallsOwned, Registered
  <1>28. CASE Restart
    BY <1>28 DEF Restart, TypeOK, CallsOwned, Registered
  <1>29. CASE UNCHANGED vars
    BY <1>29 DEF vars, TypeOK, CallsOwned, Registered
  <1> QED
    BY <1>1, <1>2, <1>3, <1>4, <1>5, <1>6, <1>7, <1>8, <1>9, <1>10, <1>11, <1>12,
       <1>13, <1>14, <1>15, <1>16, <1>17, <1>18, <1>19, <1>20, <1>21, <1>22, <1>23,
       <1>24, <1>25, <1>26, <1>27, <1>28, <1>29
       DEF Next, Client, Handler, ToolThread, Runner

\* Only pushing, taking, a run's end and a restart touch a batch or its event.
LEMMA BatchFrame ==
  ASSUME [Next]_vars
  PROVE  \/ \E c \in Calls : PushTool(c)
         \/ \E r \in Requests : TakeBatch(r)
         \/ \E n \in Runs : RunFinishes(n)
         \/ Restart
         \/ UNCHANGED <<batch, batchEvent>>
  BY DEF Next, vars, sessionVars, callVars, runVars, reqVars, clientVars, adminVars,
         Client, Handler, ToolThread, Runner, AskTurn, PostResults, Abandon, Receive,
         ExecuteTool, CheckKilled, DeliverResult, ResumeRun, StartToolRun, StartText,
         CompleteText, WakeOnBatch, PollExpires, CheckDone, Deadline, Park, WaitResult,
         ToolTimeout, SignalDone, RunnerCloses, Expire, SetKilled, CloseAll, Unkill

\* Every action sets the event of a batch it leaves with calls.
LEMMA WakeupStep ==
  ASSUME TypeOK, ActiveRegistered, NoLostWakeup, [Next]_vars PROVE NoLostWakeup'
  <1>1. ASSUME NEW c \in Calls, PushTool(c) PROVE NoLostWakeup'
    BY <1>1 DEF PushTool, PushOn, TypeOK, NoLostWakeup
  <1>2. ASSUME NEW r \in Requests, TakeBatch(r) PROVE NoLostWakeup'
    BY <1>2 DEF TakeBatch, TakeFrom, TypeOK, NoLostWakeup
  <1>3. ASSUME NEW n \in Runs, RunFinishes(n) PROVE NoLostWakeup'
    BY <1>3 DEF RunFinishes, TypeOK, NoLostWakeup
  <1>4. CASE Restart
    BY <1>4 DEF Restart, NoLostWakeup
  <1>5. CASE UNCHANGED <<batch, batchEvent>>
    BY <1>5 DEF NoLostWakeup
  <1> QED BY <1>1, <1>2, <1>3, <1>4, <1>5, BatchFrame

\* Few actions change where a call is, or which runs are registered.
LEMMA CallFrame ==
  ASSUME [Next]_vars
  PROVE  \/ \E r \in Requests : Receive(r) \/ TakeBatch(r) \/ \E n \in Runs : StartToolRun(r, n)
         \/ \E c \in Calls : \/ ExecuteTool(c) \/ PushTool(c) \/ WaitResult(c) \/ ToolTimeout(c)
                             \/ \E n \in Runs : Park(n, c)
         \/ \E n \in Runs : RunFinishes(n) \/ SignalDone(n) \/ RunnerCloses(n)
         \/ Restart
         \/ UNCHANGED <<open, hist, handed, callToRun, batch, tool, owner, phase>>
  <1> USE DEF sessionVars, callVars, runVars, reqVars, clientVars, adminVars
  <1>1. ASSUME NEW r \in Requests, AskTurn(r) \/ PostResults(r) \/ Abandon(r)
        PROVE  UNCHANGED <<open, hist, handed, callToRun, batch, tool, owner, phase>>
    BY <1>1 DEF AskTurn, PostResults, Abandon, Submit
  <1>2. ASSUME NEW r \in Requests, Handler(r)
        PROVE  \/ TakeBatch(r) \/ \E n \in Runs : StartToolRun(r, n)
               \/ UNCHANGED <<open, hist, handed, callToRun, batch, tool, owner, phase>>
    BY <1>2 DEF Handler, CheckKilled, DeliverResult, ResumeRun, StartText, CompleteText,
       WakeOnBatch, PollExpires, CheckDone, Deadline
  <1>3. ASSUME \/ SetKilled \/ CloseAll \/ Unkill \/ UNCHANGED vars
               \/ \E n \in Runs : Expire(n)
        PROVE  UNCHANGED <<open, hist, handed, callToRun, batch, tool, owner, phase>>
    BY <1>3 DEF SetKilled, CloseAll, Unkill, vars, Expire
  <1> QED BY <1>1, <1>2, <1>3 DEF Next, Client, ToolThread, Runner

\* A batch is extended with a call of its own run and cleared as a whole; a call
\* does not change owner, nor a run leave the table but with the process.
LEMMA BatchStep ==
  ASSUME TypeOK, CallsOwned, BatchesOwned, [Next]_vars PROVE BatchesOwned'
  <1> USE DEF BatchesOwned, sessionVars, callVars, runVars, reqVars, clientVars, adminVars
  <1>1. ASSUME NEW r \in Requests, TakeBatch(r) PROVE BatchesOwned'
    BY <1>1 DEF TakeBatch, TakeFrom, TypeOK, Registered
  <1>2. ASSUME NEW r \in Requests, NEW n \in Runs, StartToolRun(r, n) PROVE BatchesOwned'
    BY <1>2 DEF StartToolRun, TypeOK, Registered
  <1>3. ASSUME NEW c \in Calls, PushTool(c) PROVE BatchesOwned'
    BY <1>3 DEF PushTool, PushOn, TypeOK, CallsOwned, Registered
  <1>4. ASSUME NEW c \in Calls, WaitResult(c) \/ ToolTimeout(c) PROVE BatchesOwned'
    BY <1>4 DEF WaitResult, ToolTimeout, TypeOK, Registered
  <1>5. ASSUME NEW c \in Calls, NEW n \in Runs, Park(n, c) PROVE BatchesOwned'
    BY <1>5 DEF Park, TypeOK, Registered
  <1>6. ASSUME NEW n \in Runs, RunFinishes(n) \/ SignalDone(n) \/ RunnerCloses(n)
        PROVE  BatchesOwned'
    <2>1. Registered' = Registered
      BY <1>6 DEF RunFinishes, SignalDone, RunnerCloses, TypeOK, Registered
    <2> QED BY <1>6, <2>1 DEF RunFinishes, SignalDone, RunnerCloses
  <1>7. CASE Restart
    BY <1>7 DEF Restart
  <1>8. ASSUME NEW r \in Requests, Receive(r) PROVE BatchesOwned'
    BY <1>8 DEF Receive, Registered
  <1>9. ASSUME NEW c \in Calls, ExecuteTool(c) PROVE BatchesOwned'
    BY <1>9 DEF ExecuteTool, Registered
  <1>10. CASE UNCHANGED <<open, hist, handed, callToRun, batch, tool, owner, phase>>
    BY <1>10 DEF Registered
  <1> QED
    BY CallFrame, <1>1, <1>2, <1>3, <1>4, <1>5, <1>6, <1>7, <1>8, <1>9, <1>10

\* The sessions, and the runs they belong to, change in few actions.
LEMMA StoreFrame ==
  ASSUME [Next]_vars
  PROVE  \/ \E r \in Requests, n \in Runs : StartToolRun(r, n)
         \/ \E n \in Runs : RunFinishes(n) \/ SignalDone(n) \/ RunnerCloses(n) \/ Expire(n)
         \/ CloseAll \/ Restart
         \/ UNCHANGED <<store, closed, expired, phase>>
  <1> USE DEF sessionVars, callVars, runVars, reqVars, clientVars, adminVars
  <1>1. CASE Client
    BY <1>1 DEF Client, AskTurn, PostResults, Abandon, Receive, ExecuteTool
  <1>2. ASSUME NEW r \in Requests, Handler(r)
        PROVE  \/ \E n \in Runs : StartToolRun(r, n)
               \/ UNCHANGED <<store, closed, expired, phase>>
    BY <1>2 DEF Handler, CheckKilled, DeliverResult, ResumeRun, StartText, CompleteText,
       WakeOnBatch, TakeBatch, PollExpires, CheckDone, Deadline
  <1>3. ASSUME NEW c \in Calls, ToolThread(c) PROVE UNCHANGED <<store, closed, expired, phase>>
    BY <1>3 DEF ToolThread, Park, PushTool, WaitResult, ToolTimeout
  <1>4. ASSUME SetKilled \/ Unkill \/ UNCHANGED vars
        PROVE  UNCHANGED <<store, closed, expired, phase>>
    BY <1>4 DEF SetKilled, Unkill, vars
  <1> QED BY <1>1, <1>2, <1>3, <1>4 DEF Next, Runner

\* Every action keeps the live sessions in the store: a purge drops only closed
\* and expired ones, and only close_all, which closes what it drops, empties it.
LEMMA StoredStep ==
  ASSUME TypeOK, LiveSessionsStored, [Next]_vars PROVE LiveSessionsStored'
  <1> USE DEF LiveSessionsStored, TypeOK, Registered
  <1> USE DEF sessionVars, runVars
  <1>1. ASSUME NEW r \in Requests, NEW n \in Runs, StartToolRun(r, n) PROVE LiveSessionsStored'
    BY <1>1 DEF StartToolRun, Kept
  <1>2. ASSUME NEW n \in Runs, RunFinishes(n) \/ SignalDone(n) PROVE LiveSessionsStored'
    BY <1>2 DEF RunFinishes, SignalDone
  <1>3. ASSUME NEW n \in Runs, RunnerCloses(n) PROVE LiveSessionsStored'
    BY <1>3 DEF RunnerCloses, Close
  <1>4. ASSUME NEW n \in Runs, Expire(n) PROVE LiveSessionsStored'
    BY <1>4 DEF Expire
  <1>5. CASE CloseAll
    BY <1>5 DEF CloseAll, Close
  <1>6. CASE Restart
    BY <1>6 DEF Restart
  <1>7. CASE UNCHANGED <<store, closed, expired, phase>>
    BY <1>7
  <1> QED BY StoreFrame, <1>1, <1>2, <1>3, <1>4, <1>5, <1>6, <1>7

\* The set of calls the client has executed grows with its history.
LEMMA ExecutedAppend ==
  ASSUME hist \in Seq(Calls), NEW c \in Calls, hist' = Append(hist, c)
  PROVE  Executed' = Executed \cup {c}
  BY DEF Executed

\* The rest of the actions leave the variables of Reasons alone, or move a
\* callback without waking it.
LEMMA ReasonFrame ==
  ASSUME [Next]_vars
  PROVE  \/ \E r \in Requests : AskTurn(r) \/ PostResults(r) \/ Abandon(r) \/ Receive(r)
         \/ \E r \in Requests : DeliverResult(r)
         \/ \E c \in Calls : ExecuteTool(c) \/ PushTool(c) \/ WaitResult(c) \/ ToolTimeout(c)
         \/ \E n \in Runs, c \in Calls : Park(n, c)
         \/ \E n \in Runs : RunnerCloses(n)
         \/ CloseAll \/ Restart
         \/ UNCHANGED <<todo, result, tool, hist, closed, owner>>
  <1> USE DEF sessionVars, callVars, runVars, reqVars, clientVars, adminVars
  <1>1. ASSUME NEW r \in Requests, Handler(r)
        PROVE  DeliverResult(r) \/ UNCHANGED <<todo, result, tool, hist, closed, owner>>
    BY <1>1 DEF Handler, CheckKilled, ResumeRun, StartToolRun, StartText, CompleteText,
       WakeOnBatch, TakeBatch, PollExpires, CheckDone, Deadline
  <1>2. ASSUME NEW n \in Runs, Runner(n) \/ Expire(n)
        PROVE  RunnerCloses(n) \/ UNCHANGED <<todo, result, tool, hist, closed, owner>>
    BY <1>2 DEF Runner, RunFinishes, SignalDone, Expire
  <1>3. ASSUME SetKilled \/ Unkill \/ UNCHANGED vars
        PROVE  UNCHANGED <<todo, result, tool, hist, closed, owner>>
    BY <1>3 DEF SetKilled, Unkill, vars
  <1> QED BY <1>1, <1>2, <1>3 DEF Next, Client, ToolThread

\* A request carries what the client has executed when it is posted; results are
\* delivered from requests; a close marks the sessions whose calls it releases.
LEMMA ReasonStep ==
  ASSUME TypeOK, CallsOwned, Reasons, [Next]_vars PROVE Reasons'
  <1> USE DEF Reasons, ReturnsForAReason, sessionVars, callVars, runVars, reqVars, clientVars,
         adminVars
  <1>1. hist' = hist => Executed' = Executed
    BY DEF Executed
  <1>2. \A i \in DOMAIN hist : hist[i] \in Executed
    BY DEF Executed
  <1>3. ASSUME NEW r \in Requests, AskTurn(r) PROVE Reasons'
    BY <1>1, <1>2, <1>3 DEF AskTurn, Submit, TypeOK
  <1>4. ASSUME NEW r \in Requests, PostResults(r) PROVE Reasons'
    BY <1>1, <1>2, <1>4 DEF PostResults, Submit, TypeOK
  <1>5. ASSUME NEW r \in Requests, Abandon(r) PROVE Reasons'
    BY <1>1, <1>2, <1>5 DEF Abandon, Submit, TypeOK
  <1>6. ASSUME NEW r \in Requests, Receive(r) PROVE Reasons'
    BY <1>1, <1>6 DEF Receive, TypeOK
  <1>7. ASSUME NEW r \in Requests, DeliverResult(r) PROVE Reasons'
    BY <1>1, <1>7 DEF DeliverResult, TypeOK
  <1>8. ASSUME NEW c \in Calls, ExecuteTool(c) PROVE Reasons'
    <2>1. Executed' = Executed \cup {c}
      BY <1>8, ExecutedAppend DEF ExecuteTool, TypeOK
    <2> QED BY <1>8, <2>1 DEF ExecuteTool, TypeOK
  <1>9. ASSUME NEW c \in Calls, PushTool(c) PROVE Reasons'
    BY <1>1, <1>9 DEF PushTool, TypeOK
  <1>10. ASSUME NEW c \in Calls, WaitResult(c) PROVE Reasons'
    BY <1>1, <1>10 DEF WaitResult, TypeOK, Results
  <1>11. ASSUME NEW c \in Calls, ToolTimeout(c) PROVE Reasons'
    BY <1>1, <1>11 DEF ToolTimeout, TypeOK
  <1>12. ASSUME NEW n \in Runs, NEW c \in Calls, Park(n, c) PROVE Reasons'
    BY <1>1, <1>12 DEF Park, TypeOK, CallsOwned
  <1>13. ASSUME NEW n \in Runs, RunnerCloses(n) PROVE Reasons'
    <2>1. /\ \A c \in Calls : owner'[c] = owner[c] /\ tool'[c] = tool[c]
          /\ todo' = todo /\ Executed' = Executed
      BY <1>1, <1>13 DEF RunnerCloses
    <2>2. \A m \in Runs : closed'[m] <=> (closed[m] \/ m = n)
      BY <1>13 DEF RunnerCloses, Close, TypeOK
    <2>3. \A c \in Calls : \/ result'[c] = result[c]
                           \/ result'[c] = "closed" /\ owner[c] = n
      BY <1>13 DEF RunnerCloses, Close, TypeOK
    <2>4. \A c \in Calls : tool[c] = "closed" => owner[c] \in Runs
      BY DEF TypeOK, CallsOwned
    <2> QED BY <2>1, <2>2, <2>3, <2>4
  <1>14. CASE CloseAll
    BY <1>1, <1>14 DEF CloseAll, Close, TypeOK, CallsOwned
  <1>15. CASE Restart
    BY <1>1, <1>15 DEF Restart, TypeOK
  <1>16. CASE UNCHANGED <<todo, result, tool, hist, closed, owner>>
    BY <1>1, <1>16
  <1> QED
    BY ReasonFrame, <1>3, <1>4, <1>5, <1>6, <1>7, <1>8, <1>9, <1>10, <1>11, <1>12, <1>13, <1>14,
       <1>15, <1>16

\* A call moves from its run's batch to one answer, from there to the client, and
\* never back: the batch is cleared as it is taken, under batch_lock.
LEMMA OnceStep ==
  ASSUME TypeOK, ActiveRegistered, CallsOwned, BatchesOwned, Once, [Next]_vars PROVE Once'
  <1> USE DEF Once, OfferedOnce, OfferedIsRoutable, sessionVars, callVars, runVars, reqVars,
         clientVars, adminVars
  <1>1. hist' = hist => Executed' = Executed
    BY DEF Executed
  <1>2. hist' = hist /\ open' = open /\ handed' = handed => \A c \in Calls : Known(c)' <=> Known(c)
    BY <1>1 DEF Known
  <1>3. ASSUME NEW r \in Requests, Receive(r) PROVE Once'
    <2>1. \A q \in Requests : handed'[q] = IF q = r THEN {} ELSE handed[q]
      BY <1>3 DEF Receive, TypeOK
    <2>2. open' = open \/ open' = handed[r]
      BY <1>3 DEF Receive
    <2>3. Executed' = Executed /\ Registered' = Registered
      BY <1>1, <1>3 DEF Receive, Registered
    <2>4. \A c \in Calls : Known(c)' => Known(c)
      BY <2>1, <2>2, <2>3 DEF Known
    <2>5. UNCHANGED <<tool, owner, batch, callToRun>>
      BY <1>3 DEF Receive
    <2>6. OfferedOnce'
      BY <2>1, <2>2, <2>3, <2>4, <2>5 DEF TypeOK
    <2> QED BY <2>3, <2>4, <2>5, <2>6
  <1>4. ASSUME NEW r \in Requests, TakeBatch(r) PROVE Once'
    <2> DEFINE n == active[r]
    <2>1. n \in Runs /\ n \in Registered
      BY <1>4 DEF TakeBatch, TypeOK, ActiveRegistered, Waiting
    <2>2. \A m \in Runs : batch'[m] = IF m = n THEN {} ELSE batch[m]
      BY <1>4, <2>1 DEF TakeBatch, TakeFrom, TypeOK
    <2>3. \A c \in Calls : callToRun'[c] = IF c \in batch[n] THEN n ELSE callToRun[c]
      BY <1>4, <2>1 DEF TakeBatch, Route, TypeOK
    <2>4. \A q \in Requests : handed'[q] = IF q = r THEN batch[n] ELSE handed[q]
      BY <1>4, <2>1 DEF TakeBatch, TypeOK
    <2>5. /\ open' = open /\ Executed' = Executed /\ tool' = tool /\ owner' = owner
          /\ Registered' = Registered
      BY <1>1, <1>4 DEF TakeBatch, Registered
    <2>6. \A c \in Calls : Known(c)' => Known(c) \/ c \in batch[n]
      BY <2>4, <2>5 DEF Known
    <2>7. \A m \in Runs : batch[m] \subseteq Calls
      BY DEF TypeOK
    <2>8. \A m \in Runs : \A c \in batch[m] :
             owner[c] = m /\ tool[c] \notin {"idle", "parked"} /\ ~Known(c)
      BY DEF BatchesOwned
    <2> HIDE DEF n
    <2>9. \A m \in Runs : \A c \in batch'[m] : ~Known(c)' /\ callToRun'[c] = None
      BY <2>1, <2>2, <2>3, <2>6, <2>7, <2>8
    <2>10. \A q \in Requests : \A c \in handed'[q] : c \notin open' /\ c \notin Executed'
      BY <2>1, <2>4, <2>5, <2>8 DEF Known
    <2>11. \A r1, r2 \in Requests : \A c \in handed'[r1] : c \in handed'[r2] => r1 = r2
      BY <2>1, <2>4, <2>8 DEF Known
    <2>12. OfferedIsRoutable'
      BY <2>1, <2>3, <2>5, <2>6, <2>8
    <2>13. \A c \in Calls :
              tool'[c] \in {"idle", "parked"} => ~Known(c)' /\ callToRun'[c] = None
      BY <2>1, <2>3, <2>5, <2>6, <2>8
    <2> QED BY <2>5, <2>9, <2>10, <2>11, <2>12, <2>13
  <1>5. ASSUME NEW r \in Requests, NEW n \in Runs, StartToolRun(r, n) PROVE Once'
    <2>1. \A c \in Calls : Known(c)' <=> Known(c)
      BY <1>2, <1>5 DEF StartToolRun
    <2>2. \A c \in Calls : owner[c] # n
      BY <1>5 DEF StartToolRun, TypeOK, CallsOwned
    <2>3. \A m \in Registered' : m = n \/ m \in Registered
      BY <1>5 DEF StartToolRun, TypeOK, Registered
    <2>4. UNCHANGED <<batch, callToRun, owner, tool, open, handed, hist>>
      BY <1>5 DEF StartToolRun
    <2> QED BY <1>1, <2>1, <2>2, <2>3, <2>4 DEF TypeOK
  <1>6. ASSUME NEW c \in Calls, ExecuteTool(c) PROVE Once'
    <2>1. Executed' = Executed \cup {c} /\ open' = open \ {c} /\ c \in open /\ handed' = handed
      BY <1>6, ExecutedAppend DEF ExecuteTool, TypeOK
    <2>2. \A d \in Calls : Known(d)' <=> Known(d)
      BY <2>1 DEF Known
    <2>3. UNCHANGED <<batch, callToRun, owner, tool>> /\ Registered' = Registered
      BY <1>6 DEF ExecuteTool, Registered
    <2> QED BY <2>1, <2>2, <2>3 DEF TypeOK
  <1>7. ASSUME NEW c \in Calls, PushTool(c) PROVE Once'
    <2>1. owner[c] \in Runs /\ ~Known(c) /\ callToRun[c] = None
      BY <1>7 DEF PushTool, TypeOK, CallsOwned
    <2>2. \A m \in Runs : batch'[m] = IF m = owner[c] THEN batch[m] \cup {c} ELSE batch[m]
      BY <1>7, <2>1 DEF PushTool, PushOn, TypeOK
    <2>3. \A d \in Calls : d # c => tool'[d] = tool[d]
      BY <1>7 DEF PushTool, TypeOK
    <2>4. /\ UNCHANGED <<callToRun, owner, open, handed, hist>>
          /\ tool'[c] = "waiting" /\ Registered' = Registered
      BY <1>7 DEF PushTool, TypeOK, Registered
    <2>5. \A d \in Calls : Known(d)' <=> Known(d)
      BY <1>2, <2>4
    <2>6. \A m \in Runs : \A d \in batch'[m] : ~Known(d)' /\ callToRun'[d] = None
      <3> SUFFICES ASSUME NEW m \in Runs, NEW d \in batch'[m]
                   PROVE  ~Known(d) /\ callToRun[d] = None /\ d \in Calls
        BY <2>4, <2>5
      <3>1. d \in batch[m] \cup {c}
        BY <2>2
      <3>2. batch[m] \subseteq Calls
        BY DEF TypeOK
      <3> QED BY <2>1, <3>1, <3>2
    <2>7. /\ \A q \in Requests : \A d \in handed'[q] : d \notin open' /\ d \notin Executed'
          /\ \A r1, r2 \in Requests : \A d \in handed'[r1] : d \in handed'[r2] => r1 = r2
          /\ \A d \in open' : d \notin Executed'
      BY <1>1, <2>4
    <2>8. OfferedIsRoutable'
      BY <2>4, <2>5
    <2>9. \A d \in Calls : tool'[d] \in {"idle", "parked"} => ~Known(d)' /\ callToRun'[d] = None
      BY <2>3, <2>4, <2>5
    <2> QED BY <2>6, <2>7, <2>8, <2>9
  <1>8. ASSUME NEW c \in Calls, WaitResult(c) \/ ToolTimeout(c) PROVE Once'
    <2>1. /\ UNCHANGED <<callToRun, owner, open, handed, hist, batch>>
          /\ Registered' = Registered
      BY <1>8 DEF WaitResult, ToolTimeout, Registered
    <2>2. \A d \in Calls : tool'[d] \in {"idle", "parked"} => tool[d] \in {"idle", "parked"}
      BY <1>8 DEF WaitResult, ToolTimeout, TypeOK
    <2> QED BY <1>1, <1>2, <2>1, <2>2 DEF TypeOK
  <1>9. ASSUME NEW c \in Calls, NEW n \in Runs, Park(n, c) PROVE Once'
    <2>1. /\ UNCHANGED <<callToRun, open, handed, hist, batch>>
          /\ Registered' = Registered
      BY <1>9 DEF Park, Registered
    <2>2. \A d \in Calls : tool'[d] \in {"idle", "parked"} => tool[d] \in {"idle", "parked"}
      BY <1>9 DEF Park, TypeOK
    <2>3. \A d \in Calls : owner'[d] = owner[d] \/ ~Known(d)
      BY <1>9 DEF Park, TypeOK
    <2> QED BY <1>1, <1>2, <2>1, <2>2, <2>3 DEF TypeOK
  <1>10. ASSUME NEW n \in Runs, RunFinishes(n) \/ SignalDone(n) \/ RunnerCloses(n) PROVE Once'
    <2>1. Registered' = Registered
      BY <1>10 DEF RunFinishes, SignalDone, RunnerCloses, TypeOK, Registered
    <2>2. UNCHANGED <<callToRun, owner, open, handed, hist, batch, tool>>
      BY <1>10 DEF RunFinishes, SignalDone, RunnerCloses
    <2> QED BY <1>1, <1>2, <2>1, <2>2 DEF TypeOK
  <1>11. CASE Restart
    <2>1. Registered' = {}
      BY <1>11 DEF Restart, TypeOK, Registered
    <2>2. /\ UNCHANGED <<owner, open, handed, hist>>
          /\ \A n \in Runs : batch'[n] = {}
          /\ \A c \in Calls : callToRun'[c] = None
      BY <1>11 DEF Restart
    <2>3. \A c \in Calls : tool'[c] \in {"idle", "parked"} => tool[c] \in {"idle", "parked"}
      BY <1>11 DEF Restart
    <2> QED BY <1>1, <1>2, <2>1, <2>2, <2>3 DEF TypeOK
  <1>12. CASE UNCHANGED <<open, hist, handed, callToRun, batch, tool, owner, phase>>
    BY <1>1, <1>2, <1>12 DEF TypeOK, Registered
  <1> QED
    BY CallFrame, <1>3, <1>4, <1>5, <1>6, <1>7, <1>8, <1>9, <1>10, <1>11, <1>12

\* The inductive invariant.
IInv ==
    /\ TypeInv
    /\ BatchesOwned
    /\ NoLostWakeup
    /\ LiveSessionsStored
    /\ Reasons
    /\ Once

\* Initially nothing is registered, parked, batched, handed out or executed.
LEMMA InvInit == Init => IInv
  <1> SUFFICES ASSUME Init PROVE IInv
    OBVIOUS
  <1>1. Executed = {} /\ Registered = {}
    BY DEF Init, Executed, Registered
  <1>2. \A c \in Calls : ~Known(c)
    BY <1>1 DEF Init, Known
  <1>3. BatchesOwned /\ NoLostWakeup /\ LiveSessionsStored
    BY <1>1 DEF Init, BatchesOwned, NoLostWakeup, LiveSessionsStored
  <1>4. Reasons
    BY DEF Init, Reasons, ReturnsForAReason
  <1>5. Once
    BY <1>1, <1>2 DEF Init, Once, OfferedOnce, OfferedIsRoutable
  <1> QED BY TypeInit, <1>3, <1>4, <1>5 DEF IInv

\* Every step of the adapter preserves the inductive invariant.
LEMMA InvStep == IInv /\ [Next]_vars => IInv'
  BY TypeStep, ActiveStep, OwnedStep, BatchStep, WakeupStep, StoredStep, ReasonStep, OnceStep
     DEF IInv, TypeInv

\* The inductive invariant holds of every behaviour.
LEMMA Invariance == Spec => []IInv
  BY InvInit, InvStep, PTL DEF Spec

\* Every variable keeps its type, whatever the threads, the client, the SDK and
\* the operator do and however often.
THEOREM TypeCorrect == Spec => []TypeOK
  <1>1. IInv => TypeOK
    BY DEF IInv, TypeInv
  <1> QED BY <1>1, Invariance, PTL

\* No interleaving of push_tool, take_batch and the runner's final set() leaves
\* calls in a batch whose event is clear.
THEOREM NoWakeupIsLost == Spec => []NoLostWakeup
  <1>1. IInv => NoLostWakeup
    BY DEF IInv
  <1> QED BY <1>1, Invariance, PTL

\* Hermes is asked to execute a call at most once, with any number of handlers
\* that take batches of the same run, requests sent again, kills and restarts.
THEOREM CallsOfferedOnce == Spec => []OfferedOnce
  <1>1. IInv => OfferedOnce
    BY DEF IInv, Once
  <1> QED BY <1>1, Invariance, PTL

\* _call_to_run names the run of every call the client knows of, until the
\* process that holds the run is gone.
THEOREM OfferedCallsRoutable == Spec => []OfferedIsRoutable
  <1>1. IInv => OfferedIsRoutable
    BY DEF IInv, Once
  <1> QED BY <1>1, Invariance, PTL

\* A callback gets a result only of a call the client executed, and an error only
\* from the close of its own session.
THEOREM CallbacksReturnForAReason == Spec => []ReturnsForAReason
  <1>1. IInv => ReturnsForAReason
    BY DEF IInv, Reasons
  <1> QED BY <1>1, Invariance, PTL

\* close_all finds every session that is open and younger than the TTL.
THEOREM LiveSessionsAreStored == Spec => []LiveSessionsStored
  <1>1. IInv => LiveSessionsStored
    BY DEF IInv
  <1> QED BY <1>1, Invariance, PTL

\* A handler never waits on the events of a run that died with its process.
THEOREM HandlersWaitForRegisteredRuns == Spec => []WaitsForRegisteredRun
  <1>1. IInv => WaitsForRegisteredRun
    BY DEF IInv, TypeInv, ActiveRegistered, WaitsForRegisteredRun, Waiting
  <1> QED BY <1>1, Invariance, PTL

\* Only deliver_result and close write results, and a close leaves the ones that
\* are there alone.
LEMMA ResultFrame ==
  ASSUME [Next]_vars
  PROVE  \/ \E r \in Requests : DeliverResult(r)
         \/ \E n \in Runs : RunnerCloses(n)
         \/ CloseAll
         \/ UNCHANGED result
  BY DEF Next, vars, sessionVars, callVars, runVars, reqVars, clientVars, adminVars,
         Client, Handler, ToolThread, Runner, AskTurn, PostResults, Abandon, Receive,
         ExecuteTool, CheckKilled, ResumeRun, StartToolRun, StartText, CompleteText,
         WakeOnBatch, TakeBatch, PollExpires, CheckDone, Deadline, Park, PushTool, WaitResult,
         ToolTimeout, RunFinishes, SignalDone, Expire, SetKilled, Unkill, Restart

\* No close, of the kill switch or of the runner, overwrites the result the client
\* delivered to a call.
THEOREM DeliveredResultsStay == Spec => DeliveredResultStays
  <1>1. ASSUME TypeOK, [Next]_vars
        PROVE  [\A c \in Calls : result[c] = "result" => result'[c] = "result"]_result
    <2>1. ASSUME NEW r \in Requests, DeliverResult(r), NEW c \in Calls, result[c] = "result"
          PROVE  result'[c] = "result"
      BY <2>1 DEF DeliverResult, TypeOK
    <2>2. ASSUME NEW n \in Runs, RunnerCloses(n), NEW c \in Calls, result[c] = "result"
          PROVE  result'[c] = "result"
      BY <2>2 DEF RunnerCloses, Close
    <2>3. ASSUME CloseAll, NEW c \in Calls, result[c] = "result"
          PROVE  result'[c] = "result"
      BY <2>3 DEF CloseAll, Close
    <2>4. ASSUME UNCHANGED result, NEW c \in Calls, result[c] = "result"
          PROVE  result'[c] = "result"
      BY <2>4
    <2>5. \A c \in Calls : result[c] = "result" => result'[c] = "result"
      <3> SUFFICES ASSUME NEW c \in Calls, result[c] = "result" PROVE result'[c] = "result"
        OBVIOUS
      <3> QED BY <1>1, ResultFrame, <2>1, <2>2, <2>3, <2>4
    <2> QED BY <2>5
  <1> QED BY <1>1, TypeCorrect, PTL DEF Spec, DeliveredResultStays

-----------------------------------------------------------------------------
(* A client that sends no request twice, and a process that lives on.       *)

\* The client holds one request at a time, the calls it answers with are routed,
\* and a request of a turn that has a run carries the result of a call of it.
Orderly ==
    /\ \A r \in Requests : pc[r] # "idle" => cur = r /\ client = "awaiting" /\ reqTurn[r] = turn
    /\ client # "awaiting" => cur = None
    /\ client # "executing" => open = {}
    /\ \A n \in Runs : turnOf[n] <= turn
    /\ \A r \in Requests :
          /\ pc[r] # "replied" \/ reply[r] # "tools" => handed[r] = {}
          /\ pc[r] = "replied" /\ reply[r] = "tools" => handed[r] # {}
          /\ \A c \in handed[r] : callToRun[c] # None
    /\ client = "executing" => \E c \in open \cup Executed : callToRun[c] # None
    /\ \A r \in Requests :
          pc[r] \in {"posted", "admitted"} /\ (\E n \in Runs : turnOf[n] = turn) =>
              active[r] # None \/ \E i \in DOMAIN todo[r] : callToRun[todo[r][i]] # None

InRequest(c, r) == \E i \in DOMAIN todo[r] : todo[r][i] = c

\* The routed calls are those the client has or is given; in a turn that has a run
\* they are that run's, and so no request of the turn goes anywhere else.  What the
\* client has executed is delivered or in its request.
Directed ==
    /\ client = "awaiting" => cur # None
    /\ cur # None => pc[cur] # "idle"
    /\ client # "idle" => turn # 0
    /\ \A r \in Requests : pc[r] \notin {"idle", "posted", "admitted", "replied"} => todo[r] = <<>>
    /\ \A c \in Calls : callToRun[c] # None =>
          c \in open \cup Executed \/ (cur # None /\ c \in handed[cur])
    /\ \A c \in open \cup Executed : callToRun[c] # None
    /\ \A r \in Requests : pc[r] \in {"posted", "admitted"} =>
          \A c \in Calls : callToRun[c] # None => active[r] # None \/ InRequest(c, r)
    /\ \A r \in Requests : pc[r] \notin {"idle", "replied"} =>
          \A c \in Executed : result[c] # "none" \/ InRequest(c, r)
    /\ \A n \in Runs : turnOf[n] = turn /\ turn # 0 =>
          /\ \A c \in Calls : callToRun[c] \in {None, n}
          /\ \A r \in Requests : pc[r] \notin {"idle", "replied"} =>
                pc[r] # "texting" /\ active[r] \in {None, n}

Calm == abandons = 0 /\ restarts = 0 => Orderly /\ Directed

\* The call is in a batch, in an answer on its way, or with the client.
Responded(c) ==
    \/ c \in batch[owner[c]]
    \/ cur # None /\ c \in handed[cur]
    \/ c \in open \cup Executed

\* Initially there is no request and no run.
LEMMA CalmInit == Init => Orderly /\ Directed
  BY DEF Init, Orderly, Directed, Executed

\* A request sent again, and a restart, are remembered.
LEMMA CalmBefore ==
  ASSUME TypeOK, [Next]_vars, abandons' = 0, restarts' = 0
  PROVE  abandons = 0 /\ restarts = 0 /\ ~Restart /\ \A r \in Requests : ~Abandon(r)
  <1> USE DEF TypeOK
  <1>1. ASSUME NEW r \in Requests PROVE ~Abandon(r) BY DEF Abandon
  <1>2. ~Restart BY DEF Restart
  <1>3. UNCHANGED <<abandons, restarts>>
    BY <1>1, <1>2 DEF Next, vars, sessionVars, callVars, runVars, reqVars, clientVars, adminVars,
         Client, Handler, ToolThread, Runner, AskTurn, PostResults, Submit, Receive,
         ExecuteTool, CheckKilled, DeliverResult, ResumeRun, StartToolRun, StartText,
         CompleteText, WakeOnBatch, TakeBatch, PollExpires, CheckDone, Deadline, Park, PushTool,
         WaitResult, ToolTimeout, RunFinishes, SignalDone, RunnerCloses, Expire, SetKilled,
         CloseAll, Unkill
  <1> QED BY <1>1, <1>2, <1>3

\* The steps that the client, its request and the routes see.
LEMMA ClientFrame ==
  ASSUME [Next]_vars, ~Restart, \A r \in Requests : ~Abandon(r)
  PROVE  \/ \E r \in Requests :
               \/ AskTurn(r) \/ PostResults(r) \/ Receive(r)
               \/ DeliverResult(r) \/ TakeBatch(r) \/ \E n \in Runs : StartToolRun(r, n)
               \/ CheckKilled(r) \/ ResumeRun(r) \/ StartText(r) \/ CompleteText(r)
               \/ WakeOnBatch(r) \/ PollExpires(r) \/ CheckDone(r) \/ Deadline(r)
         \/ \E c \in Calls : ExecuteTool(c)
         \/ UNCHANGED <<turnOf, callToRun, reqVars, clientVars>>
  BY DEF Next, vars, sessionVars, callVars, runVars, reqVars, clientVars, adminVars,
         Client, Handler, ToolThread, Runner, Park, PushTool, WaitResult, ToolTimeout,
         RunFinishes, SignalDone, RunnerCloses, Expire, SetKilled, CloseAll, Unkill

LEMMA OrderlyStep ==
  ASSUME TypeOK, ActiveRegistered, Orderly, [Next]_vars, ~Restart, \A r \in Requests : ~Abandon(r)
  PROVE  Orderly'
  <1> USE DEF sessionVars, callVars, runVars, reqVars, clientVars, adminVars
  <1>1. ASSUME NEW r \in Requests, AskTurn(r) PROVE Orderly'
    <2>1. /\ turn' = turn + 1 /\ client = "idle" /\ client' = "awaiting" /\ cur' = r
          /\ pc' = [pc EXCEPT ![r] = "posted"] /\ reqTurn' = [reqTurn EXCEPT ![r] = turn + 1]
          /\ UNCHANGED <<open, hist, active, reply, handed, turnOf, callToRun>>
      BY <1>1 DEF AskTurn, Submit
    <2>2. \A q \in Requests : pc[q] = "idle" BY <2>1 DEF Orderly
    <2>3. \A n \in Runs : turnOf[n] <= turn' /\ turnOf[n] # turn'
      BY <2>1 DEF Orderly, TypeOK
    <2>4. reqTurn'[r] = turn' /\ \A q \in Requests : q # r => pc'[q] = "idle"
      BY <2>1, <2>2 DEF TypeOK
    <2> QED BY <2>1, <2>2, <2>3, <2>4 DEF Orderly, TypeOK
  <1>2. ASSUME NEW r \in Requests, PostResults(r) PROVE Orderly'
    <2>1. /\ turn' = turn /\ client = "executing" /\ client' = "awaiting" /\ cur' = r
          /\ open = {}
          /\ pc' = [pc EXCEPT ![r] = "posted"] /\ reqTurn' = [reqTurn EXCEPT ![r] = turn]
          /\ todo' = [todo EXCEPT ![r] = hist]
          /\ UNCHANGED <<open, hist, active, reply, handed, turnOf, callToRun>>
      BY <1>2 DEF PostResults, Submit
    <2>2. \A q \in Requests : pc[q] = "idle" BY <2>1 DEF Orderly
    <2>3. \E i \in DOMAIN hist : callToRun[hist[i]] # None
      BY <2>1 DEF Orderly, Executed
    <2>4. /\ reqTurn'[r] = turn' /\ todo'[r] = hist
          /\ \A q \in Requests : q # r => pc'[q] = "idle"
      BY <2>1, <2>2 DEF TypeOK
    <2> QED BY <2>1, <2>2, <2>3, <2>4 DEF Orderly, TypeOK
  <1>3. ASSUME NEW r \in Requests, Receive(r) PROVE Orderly'
    <2>1. /\ pc[r] = "replied" /\ cur = r /\ cur' = None
          /\ client' = IF reply[r] = "tools" THEN "executing" ELSE "idle"
          /\ open' = handed[r]
          /\ pc' = [pc EXCEPT ![r] = "idle"] /\ reply' = [reply EXCEPT ![r] = "none"]
          /\ handed' = [handed EXCEPT ![r] = {}]
          /\ UNCHANGED <<turn, hist, turnOf, callToRun>>
      BY <1>3 DEF Receive, Orderly
    <2>2. \A q \in Requests : pc'[q] = "idle" BY <2>1 DEF Orderly, TypeOK
    <2>3. \A q \in Requests : handed'[q] = {}
      BY <2>1 DEF Orderly, TypeOK
    <2>4. reply[r] = "tools" => \E c \in open' : callToRun[c] # None
      BY <2>1 DEF Orderly
    <2>5. reply[r] # "tools" => open' = {} BY <2>1 DEF Orderly
    <2> QED BY <2>1, <2>2, <2>3, <2>4, <2>5 DEF Orderly
  <1>4. ASSUME NEW r \in Requests, DeliverResult(r) PROVE Orderly'
    <2> DEFINE c == Head(todo[r])
    <2>1. /\ pc[r] = "admitted" /\ todo[r] # <<>>
          /\ active' = [active EXCEPT ![r] = IF RunFor(c) # None THEN RunFor(c) ELSE @]
          /\ todo' = [todo EXCEPT ![r] = Tail(@)]
          /\ UNCHANGED <<pc, reqTurn, reply, handed, clientVars, turnOf, callToRun>>
      BY <1>4 DEF DeliverResult
    <2>2. ASSUME active[r] # None \/ \E i \in DOMAIN todo[r] : callToRun[todo[r][i]] # None
          PROVE  active'[r] # None \/ \E i \in DOMAIN todo'[r] : callToRun[todo'[r][i]] # None
      <3>1. active'[r] = IF RunFor(c) # None THEN RunFor(c) ELSE active[r]
        BY <2>1 DEF TypeOK
      <3>2. callToRun[c] # None => RunFor(c) # None BY DEF RunFor
      <3> HIDE DEF c
      <3>3. CASE active[r] # None \/ callToRun[c] # None BY <3>1, <3>2, <3>3
      <3>4. ASSUME callToRun[c] = None, NEW i \in DOMAIN todo[r], callToRun[todo[r][i]] # None
            PROVE  \E k \in DOMAIN todo'[r] : callToRun[todo'[r][k]] # None
        <4>1. todo[r] \in Seq(Calls) /\ todo'[r] = Tail(todo[r]) BY <2>1 DEF TypeOK
        <4>2. i # 1 BY <3>4, <4>1 DEF c
        <4>3. DOMAIN todo[r] = 1..Len(todo[r]) /\ Len(todo[r]) \in Nat BY <4>1
        <4>4. i - 1 \in 1..(Len(todo[r]) - 1) BY <4>2, <4>3
        <4>5. DOMAIN Tail(todo[r]) = 1..(Len(todo[r]) - 1) BY <2>1, <4>1
        <4>6. Tail(todo[r])[i - 1] = todo[r][i - 1 + 1] BY <2>1, <4>1, <4>4
        <4>7. i - 1 + 1 = i BY <4>3
        <4> QED BY <3>4, <4>1, <4>4, <4>5, <4>6, <4>7
      <3> QED BY <2>2, <3>3, <3>4
    <2>3. \A q \in Requests : q # r => active'[q] = active[q] /\ todo'[q] = todo[q]
      BY <2>1 DEF TypeOK
    <2> QED BY <2>1, <2>2, <2>3 DEF Orderly, Executed
  <1>5. ASSUME NEW r \in Requests, TakeBatch(r) PROVE Orderly'
    <2> DEFINE n == active[r]
    <2>1. /\ pc[r] = "coalescing"
          /\ callToRun' = [c \in Calls |-> IF c \in batch[n] THEN n ELSE callToRun[c]]
          /\ handed' = [handed EXCEPT ![r] = batch[n]]
          /\ \/ /\ batch[n] # {} /\ pc' = [pc EXCEPT ![r] = "replied"]
                /\ reply' = [reply EXCEPT ![r] = "tools"]
             \/ /\ batch[n] = {} /\ pc' = [pc EXCEPT ![r] = "checking"] /\ reply' = reply
          /\ UNCHANGED <<turnOf, reqTurn, todo, active, clientVars>>
      BY <1>5 DEF TakeBatch, Route, Answer
    <2>2. n \in Runs /\ n # None BY <2>1 DEF ActiveRegistered, Waiting, TypeOK
    <2>3. \A c \in Calls : /\ callToRun[c] # None => callToRun'[c] # None
                           /\ c \in batch[n] => callToRun'[c] # None
      BY <2>1, <2>2
    <2>4. batch[n] \subseteq Calls BY <2>2 DEF TypeOK
    <2>5. \A q \in Requests : \A c \in handed'[q] : callToRun'[c] # None
      BY <2>1, <2>3, <2>4 DEF TypeOK, Orderly
    <2>6. \A q \in Requests : /\ pc'[q] # "replied" \/ reply'[q] # "tools" => handed'[q] = {}
                              /\ pc'[q] = "replied" /\ reply'[q] = "tools" => handed'[q] # {}
      BY <2>1 DEF TypeOK, Orderly
    <2>7. \A q \in Requests : q # r => pc'[q] = pc[q]
      BY <2>1 DEF TypeOK
    <2>8. pc'[r] \in {"replied", "checking"} BY <2>1 DEF TypeOK
    <2>9. client # "executing" BY <2>1 DEF Orderly
    <2>10. \A q \in Requests : q # r => pc[q] = "idle" BY <2>1 DEF Orderly
    <2> QED BY <2>1, <2>5, <2>6, <2>7, <2>8, <2>9, <2>10 DEF Orderly
  <1>6. ASSUME NEW r \in Requests, NEW n \in Runs, StartToolRun(r, n) PROVE Orderly'
    <2>1. /\ pc[r] = "admitted" /\ pc' = [pc EXCEPT ![r] = "waiting"]
          /\ turnOf' = [turnOf EXCEPT ![n] = reqTurn[r]]
          /\ UNCHANGED <<reqTurn, todo, reply, handed, clientVars, callToRun>>
      BY <1>6 DEF StartToolRun
    <2>2. reqTurn[r] = turn /\ \A q \in Requests : q # r => pc[q] = "idle"
      BY <2>1 DEF Orderly
    <2>3. \A q \in Requests : pc'[q] = IF q = r THEN "waiting" ELSE "idle"
      BY <2>1, <2>2 DEF TypeOK
    <2>4. \A m \in Runs : turnOf'[m] <= turn BY <2>1, <2>2 DEF Orderly, TypeOK
    <2> QED BY <2>1, <2>2, <2>3, <2>4 DEF Orderly, Executed
  <1>7. ASSUME NEW r \in Requests,
               \/ CheckKilled(r) \/ ResumeRun(r) \/ StartText(r) \/ CompleteText(r)
               \/ WakeOnBatch(r) \/ PollExpires(r) \/ CheckDone(r) \/ Deadline(r)
        PROVE  Orderly'
    <2>1. /\ pc[r] \notin {"idle", "replied"}
          /\ \/ reply' = reply /\ \E to \in PCs \ {"idle", "posted", "replied"} :
                                     /\ pc' = [pc EXCEPT ![r] = to]
                                     /\ to = "admitted" => pc[r] = "posted"
             \/ /\ pc' = [pc EXCEPT ![r] = "replied"]
                /\ \E kind \in Replies \ {"tools"} : reply' = [reply EXCEPT ![r] = kind]
          /\ UNCHANGED <<turnOf, reqTurn, todo, active, handed, clientVars, callToRun>>
      BY <1>7 DEF CheckKilled, ResumeRun, StartText, CompleteText, WakeOnBatch, PollExpires,
                  CheckDone, Deadline, Answer, Verdict, PCs, Replies
    <2>2. \A q \in Requests : q # r => pc'[q] = pc[q] /\ reply'[q] = reply[q]
      BY <2>1 DEF TypeOK
    <2>3. /\ pc'[r] # "replied" \/ reply'[r] # "tools"
          /\ pc'[r] \in {"posted", "admitted"} => pc[r] \in {"posted", "admitted"}
      BY <2>1 DEF TypeOK
    <2> QED BY <2>1, <2>2, <2>3 DEF Orderly, Executed
  <1>8. ASSUME NEW c \in Calls, ExecuteTool(c) PROVE Orderly'
    <2>1. /\ client = "executing" /\ open' = open \ {c} /\ hist' = Append(hist, c)
          /\ UNCHANGED <<client, turn, cur, turnOf, callToRun, reqVars>>
      BY <1>8 DEF ExecuteTool
    <2>2. Executed' = Executed \cup {c} BY <2>1, ExecutedAppend DEF TypeOK
    <2> QED BY <2>1, <2>2 DEF Orderly
  <1>9. CASE UNCHANGED <<turnOf, callToRun, reqVars, clientVars>>
    BY <1>9 DEF Orderly, Executed
  <1> QED BY ClientFrame, <1>1, <1>2, <1>3, <1>4, <1>5, <1>6, <1>7, <1>8, <1>9

\* Only a delivery takes a result to a call; nothing takes one away.
LEMMA ResultStays ==
  ASSUME TypeOK, [Next]_vars, NEW c \in Calls, result[c] # "none"
  PROVE  result'[c] # "none"
  <1>1. ASSUME NEW r \in Requests, DeliverResult(r) PROVE result'[c] # "none"
    BY <1>1 DEF DeliverResult, TypeOK
  <1>2. ASSUME CloseAll \/ \E n \in Runs : RunnerCloses(n) PROVE result'[c] # "none"
    BY <1>2 DEF CloseAll, RunnerCloses, Close
  <1> QED BY ResultFrame, <1>1, <1>2

\* The rest of a sequence has all its elements but the first.
LEMMA InTail ==
  ASSUME NEW s \in Seq(Calls), NEW i \in DOMAIN s, s[i] # Head(s)
  PROVE  \E k \in DOMAIN Tail(s) : Tail(s)[k] = s[i]
  <1>1. DOMAIN s = 1..Len(s) /\ Len(s) \in Nat OBVIOUS
  <1>2. i # 1 OBVIOUS
  <1>3. i - 1 \in 1..(Len(s) - 1) BY <1>1, <1>2
  <1>4. s # <<>> BY <1>1
  <1>5. DOMAIN Tail(s) = 1..(Len(s) - 1) BY <1>4
  <1>6. Tail(s)[i - 1] = s[i - 1 + 1] BY <1>3, <1>4
  <1>7. i - 1 + 1 = i BY <1>1
  <1> QED BY <1>3, <1>5, <1>6, <1>7

LEMMA DirectedStep ==
  ASSUME TypeOK, ActiveRegistered, Reasons, Orderly, Directed, [Next]_vars, ~Restart,
         \A r \in Requests : ~Abandon(r)
  PROVE  Directed'
  <1> USE DEF sessionVars, callVars, runVars, reqVars, clientVars, adminVars
  <1>0. \A c \in Calls : result[c] # "none" => result'[c] # "none" BY ResultStays
  <1>1. ASSUME NEW r \in Requests, AskTurn(r) PROVE Directed'
    <2>1. /\ turn' = turn + 1 /\ client = "idle" /\ client' = "awaiting" /\ cur' = r
          /\ pc' = [pc EXCEPT ![r] = "posted"] /\ todo' = [todo EXCEPT ![r] = hist]
          /\ UNCHANGED <<open, hist, active, reply, handed, turnOf, callToRun>>
      BY <1>1 DEF AskTurn, Submit
    <2>2. \A q \in Requests : pc[q] = "idle" BY <2>1 DEF Orderly
    <2>3. \A n \in Runs : turnOf[n] # turn' BY <2>1 DEF Orderly, TypeOK
    <2>4. pc'[r] = "posted" /\ todo'[r] = hist /\ \A q \in Requests : q # r => pc'[q] = "idle"
      BY <2>1, <2>2 DEF TypeOK
    <2>5. open = {} /\ cur = None BY <2>1 DEF Orderly
    <2>6. turn' # 0 BY <2>1 DEF TypeOK
    <2>7. Executed' = Executed BY <2>1 DEF Executed
    <2>8. \A c \in Executed : InRequest(c, r)' BY <2>4 DEF Executed, InRequest
    <2>9. r # None /\ r \in Requests OBVIOUS
    <2>10. \A c \in Calls : callToRun[c] # None => c \in Executed BY <2>5 DEF Directed
    <2>11. \A q \in Requests : pc'[q] # "idle" => q = r BY <2>4
    <2> QED BY <2>1, <2>3, <2>4, <2>5, <2>6, <2>7, <2>8, <2>9, <2>10, <2>11 DEF Directed
  <1>2. ASSUME NEW r \in Requests, PostResults(r) PROVE Directed'
    <2>1. /\ turn' = turn /\ client = "executing" /\ client' = "awaiting" /\ cur' = r
          /\ open = {} /\ pc[r] = "idle"
          /\ pc' = [pc EXCEPT ![r] = "posted"] /\ todo' = [todo EXCEPT ![r] = hist]
          /\ UNCHANGED <<open, hist, active, reply, handed, turnOf, callToRun>>
      BY <1>2 DEF PostResults, Submit
    <2>2. \A q \in Requests : pc[q] = "idle" BY <2>1 DEF Orderly
    <2>3. active[r] = None BY <2>1 DEF ActiveRegistered
    <2>4. pc'[r] = "posted" /\ todo'[r] = hist /\ \A q \in Requests : q # r => pc'[q] = "idle"
      BY <2>1, <2>2 DEF TypeOK
    <2>5. cur = None BY <2>1 DEF Orderly
    <2>7. Executed' = Executed BY <2>1 DEF Executed
    <2>8. \A c \in Executed : InRequest(c, r)' BY <2>4 DEF Executed, InRequest
    <2>9. r # None /\ r \in Requests OBVIOUS
    <2>10. \A c \in Calls : callToRun[c] # None => c \in Executed BY <2>1, <2>5 DEF Directed
    <2>11. \A q \in Requests : pc'[q] # "idle" => q = r BY <2>4
    <2> QED BY <2>1, <2>3, <2>4, <2>5, <2>7, <2>8, <2>9, <2>10, <2>11 DEF Directed
  <1>3. ASSUME NEW r \in Requests, Receive(r) PROVE Directed'
    <2>1. /\ pc[r] = "replied" /\ cur = r /\ cur' = None
          /\ client' = IF reply[r] = "tools" THEN "executing" ELSE "idle"
          /\ open' = handed[r]
          /\ pc' = [pc EXCEPT ![r] = "idle"]
          /\ UNCHANGED <<turn, hist, turnOf, callToRun>>
      BY <1>3 DEF Receive, Orderly
    <2>2. \A q \in Requests : pc'[q] = "idle" BY <2>1 DEF Orderly, TypeOK
    <2>3. open = {} /\ client = "awaiting" BY <2>1 DEF Orderly
    <2>4. \A c \in handed[r] : callToRun[c] # None BY DEF Orderly
    <2>5. Executed' = Executed BY <2>1 DEF Executed
    <2> QED BY <2>1, <2>2, <2>3, <2>4, <2>5 DEF Directed
  <1>4. ASSUME NEW r \in Requests, DeliverResult(r) PROVE Directed'
    <2> DEFINE c == Head(todo[r])
    <2>1. /\ pc[r] = "admitted" /\ todo[r] # <<>>
          /\ result' = IF RunFor(c) # None THEN [result EXCEPT ![c] = "result"] ELSE result
          /\ active' = [active EXCEPT ![r] = IF RunFor(c) # None THEN RunFor(c) ELSE @]
          /\ todo' = [todo EXCEPT ![r] = Tail(@)]
          /\ UNCHANGED <<pc, reqTurn, reply, handed, clientVars, turnOf, callToRun>>
      BY <1>4 DEF DeliverResult
    <2>2. todo[r] \in Seq(Calls) /\ todo'[r] = Tail(todo[r]) BY <2>1 DEF TypeOK
    <2>3. c = todo[r][1] /\ 1 \in DOMAIN todo[r] /\ c \in Calls BY <2>1, <2>2
    <2>4. c \in Executed BY <2>3 DEF Reasons
    <2>5. callToRun[c] # None BY <2>4 DEF Directed
    <2>6. RunFor(c) = callToRun[c] BY <2>5 DEF RunFor
    <2>7. active'[r] = callToRun[c] /\ result'[c] = "result"
      BY <2>1, <2>3, <2>5, <2>6 DEF TypeOK
    <2>8. ASSUME NEW d \in Calls, InRequest(d, r), d # c PROVE InRequest(d, r)'
      <3>1. PICK i \in DOMAIN todo[r] : todo[r][i] = d BY <2>8 DEF InRequest
      <3>2. todo[r][i] # Head(todo[r]) BY <2>8, <3>1
      <3>3. \E k \in DOMAIN Tail(todo[r]) : Tail(todo[r])[k] = todo[r][i]
        BY <2>2, <3>2, InTail
      <3> QED BY <2>2, <3>1, <3>3 DEF InRequest
    <2> HIDE DEF c
    <2>9. \A q \in Requests : q # r => active'[q] = active[q] /\ todo'[q] = todo[q]
      BY <2>1 DEF TypeOK
    <2>10. Executed' = Executed BY <2>1 DEF Executed
    <2>11. \A q \in Requests : pc[q] \notin {"idle", "posted", "admitted", "replied"} => q # r
      BY <2>1
    <2>12. \A q \in Requests : pc[q] # "idle" => q = r BY <2>1 DEF Orderly
    <2>13. \A d \in Executed : result'[d] # "none" \/ InRequest(d, r)'
      <3> SUFFICES ASSUME NEW d \in Executed, result'[d] = "none" PROVE InRequest(d, r)'
        OBVIOUS
      <3>1. d \in Calls BY DEF Executed, TypeOK
      <3>2. result[d] = "none" /\ d # c BY <1>0, <2>7, <3>1
      <3>3. InRequest(d, r) BY <2>1, <3>2 DEF Directed
      <3> QED BY <2>8, <3>1, <3>2, <3>3
    <2>14. \A n \in Runs : turnOf[n] = turn /\ turn # 0 => active'[r] \in {None, n}
      BY <2>3, <2>7 DEF Directed
    <2> QED BY <2>1, <2>5, <2>7, <2>9, <2>10, <2>11, <2>12, <2>13, <2>14 DEF Directed
  <1>5. ASSUME NEW r \in Requests, TakeBatch(r) PROVE Directed'
    <2> DEFINE n == active[r]
    <2>1. /\ pc[r] = "coalescing"
          /\ callToRun' = [c \in Calls |-> IF c \in batch[n] THEN n ELSE callToRun[c]]
          /\ handed' = [handed EXCEPT ![r] = batch[n]]
          /\ \/ pc' = [pc EXCEPT ![r] = "replied"]
             \/ pc' = [pc EXCEPT ![r] = "checking"]
          /\ UNCHANGED <<turnOf, reqTurn, todo, active, result, clientVars>>
      BY <1>5 DEF TakeBatch, Route, Answer
    <2>2. n \in Runs /\ n # None BY <2>1 DEF ActiveRegistered, Waiting, TypeOK
    <2>3. cur = r /\ cur # None /\ handed[r] = {} BY <2>1 DEF Orderly
    <2>4. pc'[r] \in {"replied", "checking"} /\ handed'[r] = batch[n] BY <2>1 DEF TypeOK
    <2>5. Executed' = Executed BY <2>1 DEF Executed
    <2>6. \A q \in Requests : pc[q] # "idle" => q = r BY <2>3 DEF Orderly
    <2>7. \A q \in Requests : pc'[q] # "idle" => q = r BY <2>1, <2>6 DEF TypeOK
    <2>8. ASSUME NEW c \in Calls
          PROVE  /\ callToRun[c] # None => callToRun'[c] # None
                 /\ callToRun'[c] # None => callToRun[c] # None \/ c \in batch[n]
                 /\ callToRun'[c] \in {callToRun[c], n}
      BY <2>1, <2>2
    <2>16. \A c \in Calls : callToRun[c] # None => c \in open \cup Executed
      BY <2>3 DEF Directed
    <2>9. ASSUME NEW c \in Calls, callToRun'[c] # None
          PROVE  c \in open \cup Executed \/ c \in handed'[r]
      <3>1. callToRun[c] # None \/ c \in batch[n] BY <2>8, <2>9
      <3> QED BY <2>4, <2>16, <3>1
    <2>10. \A c \in open \cup Executed : c \in Calls BY DEF TypeOK, Executed
    <2>11. todo[r] = <<>> /\ \A c \in Executed : InRequest(c, r)' <=> InRequest(c, r)
      BY <2>1 DEF Directed, InRequest
    <2>12. \A m \in Runs : turnOf[m] = turn /\ turn # 0 => n = m
      BY <2>1, <2>2 DEF Directed
    <2>13. \A c \in Executed : result[c] # "none" \/ InRequest(c, r)
      BY <2>1 DEF Directed
    <2> HIDE DEF n
    <2>14. ASSUME NEW m \in Runs, turnOf[m] = turn, turn # 0, NEW c \in Calls
           PROVE  callToRun'[c] \in {None, m}
      <3>1. callToRun[c] \in {None, m} BY <2>14 DEF Directed
      <3>2. n = m BY <2>12, <2>14
      <3> QED BY <2>8, <3>1, <3>2
    <2>15. active[r] = n BY DEF n
    <2>17. /\ \A c \in open \cup Executed : callToRun'[c] # None
           /\ client = "awaiting" => cur # None
           /\ client # "idle" => turn # 0
      BY <2>8, <2>10 DEF Directed
    <2>18. /\ client' = client /\ cur' = cur /\ turn' = turn /\ open' = open /\ turnOf' = turnOf
           /\ todo' = todo /\ active' = active /\ result' = result
      BY <2>1
    <2>19. pc'[cur] # "idle" BY <2>3, <2>4
    <2> HIDE DEF n
    <2> QED BY <2>3, <2>4, <2>5, <2>7, <2>9, <2>11, <2>12, <2>13, <2>14, <2>15, <2>17, <2>18, <2>19
            DEF Directed
  <1>6. ASSUME NEW r \in Requests, NEW n \in Runs, StartToolRun(r, n) PROVE Directed'
    <2>1. /\ pc[r] = "admitted" /\ todo[r] = <<>> /\ active[r] = None
          /\ pc' = [pc EXCEPT ![r] = "waiting"]
          /\ active' = [active EXCEPT ![r] = n]
          /\ turnOf' = [turnOf EXCEPT ![n] = reqTurn[r]]
          /\ UNCHANGED <<todo, result, handed, clientVars, callToRun>>
      BY <1>6 DEF StartToolRun
    <2>2. reqTurn[r] = turn /\ \A m \in Runs : turnOf[m] # turn BY <2>1 DEF Orderly
    <2>3. \A c \in Calls : callToRun[c] = None BY <2>1 DEF Directed, InRequest
    <2>4. \A q \in Requests : pc[q] # "idle" => q = r BY <2>1 DEF Orderly
    <2>5. pc'[r] = "waiting" /\ active'[r] = n /\ \A q \in Requests : pc'[q] # "idle" => q = r
      BY <2>1, <2>4 DEF TypeOK
    <2>6. \A m \in Runs : turnOf'[m] = turn => m = n BY <2>1, <2>2 DEF TypeOK
    <2>7. Executed' = Executed BY <2>1 DEF Executed
    <2>8. \A c \in Executed : InRequest(c, r)' <=> InRequest(c, r) BY <2>1 DEF InRequest
    <2> QED BY <2>1, <2>3, <2>5, <2>6, <2>7, <2>8 DEF Directed
  <1>7. ASSUME NEW r \in Requests,
               \/ CheckKilled(r) \/ ResumeRun(r) \/ StartText(r) \/ CompleteText(r)
               \/ WakeOnBatch(r) \/ PollExpires(r) \/ CheckDone(r) \/ Deadline(r)
        PROVE  Directed'
    <2>1. /\ pc[r] \notin {"idle", "replied"}
          /\ \E to \in PCs \ {"idle", "posted"} :
                /\ pc' = [pc EXCEPT ![r] = to]
                /\ to = "admitted" => pc[r] = "posted"
                /\ pc[r] \in {"posted", "admitted"} => to \in {"admitted", "replied"} \/ todo[r] = <<>>
                /\ to = "texting" => pc[r] = "admitted" /\ todo[r] = <<>> /\ active[r] = None
          /\ UNCHANGED <<turnOf, todo, active, result, handed, clientVars, callToRun>>
      BY <1>7 DEF CheckKilled, ResumeRun, StartText, CompleteText, WakeOnBatch, PollExpires,
                  CheckDone, Deadline, Answer, PCs
    <2>2. \A q \in Requests : q # r => pc'[q] = pc[q] BY <2>1 DEF TypeOK
    <2>3. /\ pc'[r] \notin {"idle", "posted"}
          /\ pc'[r] \in {"posted", "admitted"} => pc[r] \in {"posted", "admitted"}
          /\ pc'[r] \notin {"idle", "posted", "admitted", "replied"} => todo[r] = <<>>
          /\ pc'[r] = "texting" => pc[r] = "admitted" /\ todo[r] = <<>> /\ active[r] = None
      BY <2>1 DEF TypeOK, Directed
    <2>4. ASSUME pc'[r] = "texting", NEW n \in Runs, turnOf[n] = turn PROVE FALSE
      BY <2>3, <2>4 DEF Orderly
    <2>5. Executed' = Executed /\ \A c \in Calls, q \in Requests : InRequest(c, q)' <=> InRequest(c, q)
      BY <2>1 DEF Executed, InRequest
    <2>6. Executed \subseteq Calls BY DEF Executed, TypeOK
    <2>7. cur # None => pc'[cur] # "idle" BY <2>1, <2>2, <2>3 DEF Directed, TypeOK
    <2> QED BY <2>1, <2>2, <2>3, <2>4, <2>5, <2>6, <2>7 DEF Directed
  <1>8. ASSUME NEW c \in Calls, ExecuteTool(c) PROVE Directed'
    <2>1. /\ client = "executing" /\ c \in open
          /\ open' = open \ {c} /\ hist' = Append(hist, c)
          /\ UNCHANGED <<client, turn, cur, turnOf, callToRun, reqVars>>
      BY <1>8 DEF ExecuteTool
    <2>2. Executed' = Executed \cup {c} BY <2>1, ExecutedAppend DEF TypeOK
    <2>3. \A q \in Requests : pc[q] = "idle" BY <2>1 DEF Orderly
    <2>4. cur = None BY <2>1 DEF Orderly
    <2> QED BY <2>1, <2>2, <2>3, <2>4 DEF Directed
  <1>9. CASE UNCHANGED <<turnOf, callToRun, reqVars, clientVars>>
    <2>1. Executed' = Executed /\ \A c \in Calls, q \in Requests : InRequest(c, q)' <=> InRequest(c, q)
      BY <1>9 DEF Executed, InRequest
    <2>2. Executed \subseteq Calls BY DEF Executed, TypeOK
    <2> QED BY <1>0, <1>9, <2>1, <2>2 DEF Directed
  <1> QED BY ClientFrame, <1>1, <1>2, <1>3, <1>4, <1>5, <1>6, <1>7, <1>8, <1>9

\* A new run starts in a turn that has none.
LEMMA TurnStep ==
  ASSUME TypeOK, Orderly, [Next]_vars,
         \A n1, n2 \in Runs : turnOf[n1] = turnOf[n2] /\ turnOf[n1] # 0 => n1 = n2
  PROVE  \A n1, n2 \in Runs : turnOf'[n1] = turnOf'[n2] /\ turnOf'[n1] # 0 => n1 = n2
  <1>1. \/ UNCHANGED turnOf \/ \E r \in Requests, n \in Runs : StartToolRun(r, n)
    BY DEF Next, vars, sessionVars, callVars, runVars, reqVars, clientVars, adminVars,
         Client, Handler, ToolThread, Runner, AskTurn, PostResults, Abandon, Receive,
         ExecuteTool, CheckKilled, DeliverResult, ResumeRun, StartText,
         CompleteText, WakeOnBatch, TakeBatch, PollExpires, CheckDone, Deadline, Park, PushTool,
         WaitResult, ToolTimeout, RunFinishes, SignalDone, RunnerCloses, Expire, SetKilled,
         CloseAll, Unkill, Restart
  <1>2. ASSUME NEW r \in Requests, NEW n \in Runs, StartToolRun(r, n)
        PROVE  \A n1, n2 \in Runs : turnOf'[n1] = turnOf'[n2] /\ turnOf'[n1] # 0 => n1 = n2
    <2>1. /\ pc[r] = "admitted" /\ todo[r] = <<>> /\ active[r] = None
          /\ turnOf' = [turnOf EXCEPT ![n] = reqTurn[r]]
      BY <1>2 DEF StartToolRun
    <2>2. reqTurn[r] = turn /\ \A m \in Runs : turnOf[m] # turn BY <2>1 DEF Orderly
    <2> QED BY <2>1, <2>2 DEF TypeOK
  <1> QED BY <1>1, <1>2

\* A pushed call goes from the batch to the answer and on to the client.
LEMMA ResponderStep ==
  ASSUME TypeOK, ActiveRegistered, CallsOwned, Orderly, Orderly', [Next]_vars, ~Restart,
         \A r \in Requests : ~Abandon(r),
         NEW c \in Calls, tool'[c] = "waiting", result'[c] = "none",
         tool[c] = "waiting" /\ result[c] = "none" => Responded(c)
  PROVE  Responded(c)'
  <1> USE DEF sessionVars, callVars, runVars, reqVars, clientVars, adminVars, Responded
  <1>1. result[c] = "none"
    <2>1. ASSUME NEW r \in Requests, DeliverResult(r) PROVE result[c] = "none"
      BY <2>1 DEF DeliverResult, TypeOK
    <2>2. ASSUME CloseAll \/ \E n \in Runs : RunnerCloses(n) PROVE result[c] = "none"
      BY <2>2 DEF CloseAll, RunnerCloses, Close
    <2> QED BY ResultFrame, <2>1, <2>2
  <1>2. ASSUME NEW d \in Calls, PushTool(d)
        PROVE  Responded(c)'
    <2>1. /\ tool[d] = "parked" /\ tool' = [tool EXCEPT ![d] = "waiting"]
          /\ batch' = [batch EXCEPT ![owner[d]] = @ \cup {d}]
          /\ UNCHANGED <<owner, reqVars, clientVars>>
      BY <1>2 DEF PushTool, PushOn
    <2>2. owner[d] \in Runs BY <2>1 DEF CallsOwned, Registered
    <2>3. \A n \in Runs : batch[n] \subseteq batch'[n] BY <2>1, <2>2 DEF TypeOK
    <2>4. CASE c = d
      <3>1. d \in batch'[owner'[d]] BY <2>1, <2>2 DEF TypeOK
      <3> QED BY <2>4, <3>1
    <2>5. CASE c # d
      <3>1. tool[c] = "waiting" BY <2>1, <2>5 DEF TypeOK
      <3>2. owner[c] \in Runs BY <3>1 DEF CallsOwned, Registered
      <3> QED BY <1>1, <2>1, <2>3, <3>1, <3>2 DEF Executed
    <2> QED BY <2>4, <2>5
  <1>3. ASSUME NEW r \in Requests, TakeBatch(r)
        PROVE  Responded(c)'
    <2>1. /\ pc[r] = "coalescing" /\ batch' = [batch EXCEPT ![active[r]] = {}]
          /\ handed' = [handed EXCEPT ![r] = batch[active[r]]]
          /\ UNCHANGED <<owner, tool, clientVars>>
      BY <1>3 DEF TakeBatch, TakeFrom
    <2>2. cur = r /\ cur # None /\ handed[r] = {} BY <2>1 DEF Orderly
    <2>3. tool[c] = "waiting" BY <2>1
    <2>4. owner[c] \in Runs /\ active[r] \in Runs
      BY <2>1, <2>3 DEF CallsOwned, Registered, ActiveRegistered, Waiting, TypeOK
    <2> QED BY <1>1, <2>1, <2>2, <2>3, <2>4 DEF TypeOK, Executed
  <1>4. ASSUME NEW r \in Requests, Receive(r)
        PROVE  Responded(c)'
    <2>1. /\ pc[r] = "replied" /\ cur = r /\ open' = handed[r]
          /\ UNCHANGED <<owner, tool, batch, hist>>
      BY <1>4 DEF Receive, Orderly
    <2>2. open = {} BY <2>1 DEF Orderly
    <2> QED BY <1>1, <2>1, <2>2 DEF Executed
  <1>5. ASSUME NEW r \in Requests, AskTurn(r) \/ PostResults(r)
        PROVE  Responded(c)'
    <2>1. cur = None BY <1>5 DEF AskTurn, PostResults, Orderly
    <2>2. UNCHANGED <<open, hist, owner, tool, batch>>
      BY <1>5 DEF AskTurn, PostResults
    <2> QED BY <1>1, <2>1, <2>2 DEF Executed
  <1>6. ASSUME NEW d \in Calls, ExecuteTool(d)
        PROVE  Responded(c)'
    <2>1. /\ open' = open \ {d} /\ hist' = Append(hist, d)
          /\ UNCHANGED <<cur, handed, owner, tool, batch>>
      BY <1>6 DEF ExecuteTool
    <2>2. Executed' = Executed \cup {d} BY <2>1, ExecutedAppend DEF TypeOK
    <2> QED BY <1>1, <2>1, <2>2
  <1>7. ASSUME NEW n \in Runs, NEW d \in Calls, Park(n, d)
        PROVE  Responded(c)'
    <2>1. /\ tool' = [tool EXCEPT ![d] = "parked"] /\ owner' = [owner EXCEPT ![d] = n]
          /\ UNCHANGED <<batch, clientVars, reqVars>>
      BY <1>7 DEF Park
    <2>2. c # d /\ tool[c] = "waiting" /\ owner'[c] = owner[c] BY <2>1 DEF TypeOK
    <2> QED BY <1>1, <2>1, <2>2 DEF Executed
  <1>8. ASSUME NEW d \in Calls, WaitResult(d) \/ ToolTimeout(d)
        PROVE  Responded(c)'
    <2>1. tool[c] = "waiting"
      BY <1>8 DEF WaitResult, ToolTimeout, TypeOK
    <2>2. UNCHANGED <<owner, batch, reqVars, clientVars>>
      BY <1>8 DEF WaitResult, ToolTimeout
    <2> QED BY <1>1, <2>1, <2>2 DEF Executed
  <1>9. CASE UNCHANGED <<cur, open, hist, handed, batch, tool, owner>>
    BY <1>1, <1>9 DEF Executed
  <1> QED
    <2>1. \/ \E r \in Requests : AskTurn(r) \/ PostResults(r) \/ Receive(r)
          \/ UNCHANGED cur
      BY ClientFrame DEF DeliverResult, TakeBatch, StartToolRun, CheckKilled, ResumeRun, StartText,
         CompleteText, WakeOnBatch, PollExpires, CheckDone, Deadline, ExecuteTool
    <2>2. ASSUME \/ \E r \in Requests, n \in Runs : StartToolRun(r, n)
                 \/ \E n \in Runs : RunFinishes(n) \/ SignalDone(n) \/ RunnerCloses(n)
          PROVE  UNCHANGED <<open, hist, handed, batch, tool, owner>>
      BY <2>2 DEF StartToolRun, RunFinishes, SignalDone, RunnerCloses
    <2> QED BY CallFrame, <2>1, <2>2, <1>2, <1>3, <1>4, <1>5, <1>6, <1>7, <1>8, <1>9

\* A waiting call of a turn that goes on: where it is, and who comes for it.
LEMMA Responders ==
  ASSUME TypeOK, ActiveRegistered, CallsOwned, Reasons, Orderly, Directed,
         NEW c \in Calls, tool[c] = "waiting", result[c] = "none", Responded(c),
         TurnGoesOn(owner[c])
  PROVE  Attended(owner[c]) /\ (c \in batch[owner[c]] \/ Coming(c))
  <1> DEFINE n == owner[c]
  <1>1. n \in Runs /\ turnOf[n] = turn /\ turn # 0 /\ client # "idle"
    BY DEF CallsOwned, Registered, TurnGoesOn, Directed
  <1>2. cur # None => cur \in Requests /\ pc[cur] # "idle" BY DEF Directed, TypeOK
  <1>3. cur # None /\ pc[cur] = "replied" => reply[cur] = "tools" BY DEF TurnGoesOn
  <1>4. cur = None => client = "executing" BY <1>1 DEF TypeOK, Directed
  <1>5. cur # None => open = {} BY DEF Orderly
  <1> HIDE DEF n
  <1>6. ASSUME NEW d \in Calls, Coming(d) PROVE callToRun[d] = n
    <2>1. d \in open \cup Executed \/ (cur # None /\ (d \in handed[cur] \/ InRequest(d, cur)))
      BY <1>6 DEF Coming, InRequest
    <2>2. callToRun[d] # None
      <3>1. CASE d \in open \cup Executed BY <3>1 DEF Directed
      <3>2. CASE cur # None /\ d \in handed[cur] BY <1>2, <3>2 DEF Orderly
      <3>3. CASE cur # None /\ InRequest(d, cur)
        <4>1. d \in Executed BY <1>2, <3>3 DEF InRequest, Reasons
        <4> QED BY <4>1 DEF Directed
      <3> QED BY <2>1, <3>1, <3>2, <3>3
    <2> QED BY <1>1, <2>2 DEF Directed
  <1>7. \A d \in Calls : Coming(d) => RunFor(d) = n
    BY <1>1, <1>6 DEF RunFor
  <1>8. (\E d \in Calls : Coming(d)) \/ (cur # None /\ active[cur] = n)
    <2>1. CASE cur = None
      <3>1. PICK d \in open \cup Executed : callToRun[d] # None BY <1>4, <2>1 DEF Orderly
      <3>2. d \in Calls BY DEF Executed, TypeOK
      <3> QED BY <2>1, <3>1, <3>2 DEF Coming
    <2>2. CASE cur # None /\ pc[cur] = "replied"
      <3>1. PICK d \in handed[cur] : TRUE BY <1>2, <1>3, <2>2 DEF Orderly
      <3>2. d \in Calls BY <1>2, <2>2 DEF TypeOK
      <3> QED BY <2>2, <3>1, <3>2 DEF Coming
    <2>3. CASE cur # None /\ pc[cur] \in {"posted", "admitted"}
      <3>1. active[cur] # None \/ \E i \in DOMAIN todo[cur] : callToRun[todo[cur][i]] # None
        BY <1>1, <1>2, <2>3 DEF Orderly
      <3>2. active[cur] # None => active[cur] = n BY <1>1, <1>2, <2>3 DEF Directed
      <3>3. \A i \in DOMAIN todo[cur] : todo[cur][i] \in Calls /\ Coming(todo[cur][i])
        BY <1>2, <2>3 DEF Coming, TypeOK
      <3> QED BY <2>3, <3>1, <3>2, <3>3
    <2>4. CASE cur # None /\ Waiting(cur)
      BY <1>1, <1>2, <2>4 DEF ActiveRegistered, Directed, Waiting
    <2>5. cur # None => pc[cur] # "texting" BY <1>1, <1>2 DEF Directed
    <2> QED BY <1>2, <2>1, <2>2, <2>3, <2>4, <2>5 DEF Waiting, TypeOK, PCs
  <1>9. c \in batch[n] \/ Coming(c)
    <2>1. CASE c \in batch[n] BY <2>1
    <2>2. CASE cur # None /\ c \in handed[cur]
      <3>1. pc[cur] = "replied" BY <1>2, <2>2 DEF Orderly
      <3> QED BY <2>2, <3>1 DEF Coming
    <2>3. CASE c \in open \cup Executed
      <3>1. CASE cur = None BY <2>3, <3>1 DEF Coming
      <3>2. CASE cur # None /\ pc[cur] = "replied" BY <1>5, <2>3, <3>2 DEF Coming
      <3>3. CASE cur # None /\ pc[cur] # "replied"
        <4>1. c \in Executed BY <1>5, <2>3, <3>3
        <4>2. InRequest(c, cur) BY <1>2, <3>3, <4>1 DEF Directed
        <4>3. todo[cur] # <<>> BY <4>2 DEF InRequest
        <4>4. pc[cur] \in {"posted", "admitted"} BY <1>2, <3>3, <4>3 DEF Directed
        <4> QED BY <3>3, <4>2, <4>4 DEF Coming, InRequest
      <3> QED BY <3>1, <3>2, <3>3
    <2> QED BY <2>1, <2>2, <2>3 DEF Responded, n
  <1> QED BY <1>7, <1>8, <1>9 DEF Attended, n

Responding ==
    abandons = 0 /\ restarts = 0 =>
        \A c \in Calls : tool[c] = "waiting" /\ result[c] = "none" => Responded(c)

CalmInv == IInv /\ Calm /\ OneRunPerTurn /\ Responding

LEMMA CalmStep == CalmInv /\ [Next]_vars => CalmInv'
  <1> SUFFICES ASSUME CalmInv, [Next]_vars PROVE CalmInv'
    OBVIOUS
  <1>1. IInv' /\ TypeOK /\ ActiveRegistered /\ CallsOwned
    BY InvStep DEF CalmInv, IInv, TypeInv
  <1>2. ASSUME abandons' = 0, restarts' = 0
        PROVE  /\ abandons = 0 /\ restarts = 0 /\ ~Restart /\ \A r \in Requests : ~Abandon(r)
               /\ Orderly /\ Orderly' /\ Directed'
    BY <1>1, <1>2, CalmBefore, OrderlyStep, DirectedStep DEF CalmInv, Calm, IInv
  <1>3. Calm' BY <1>2 DEF Calm
  <1>4. OneRunPerTurn' BY <1>1, <1>2, TurnStep DEF OneRunPerTurn, CalmInv
  <1>5. Responding'
    <2> SUFFICES ASSUME (abandons = 0 /\ restarts = 0)', NEW c \in Calls,
                        (tool[c] = "waiting" /\ result[c] = "none")'
                 PROVE  Responded(c)'
      BY DEF Responding
    <2>1. tool[c] = "waiting" /\ result[c] = "none" => Responded(c)
      BY <1>2 DEF CalmInv, Responding
    <2> QED BY <1>1, <1>2, <2>1, ResponderStep
  <1> QED BY <1>1, <1>3, <1>4, <1>5 DEF CalmInv

LEMMA Calmness == Spec => []CalmInv
  <1>1. Init => CalmInv
    BY CalmInit, InvInit DEF CalmInv, Calm, Init, OneRunPerTurn, Responding
  <1> QED BY <1>1, CalmStep, PTL DEF Spec

\* However many tool round trips a turn takes, they share one run, as long as no
\* request is sent twice and the adapter lives on.
THEOREM TurnsHaveOneRun == Spec => []OneRunPerTurn
  <1>1. CalmInv => OneRunPerTurn
    BY DEF CalmInv
  <1> QED BY <1>1, Calmness, PTL

\* Under the same condition, no callback of a turn that goes on waits for a result that
\* nobody will bring: its run is the one that the client's requests come back to.
THEOREM WaitsHaveResponders == Spec => []EveryWaitHasResponder
  <1>1. CalmInv => EveryWaitHasResponder
    BY Responders DEF CalmInv, Calm, Responding, IInv, TypeInv, EveryWaitHasResponder
  <1> QED BY <1>1, Calmness, PTL

-----------------------------------------------------------------------------
(* The tool loop implements the contract.                                   *)

\* A call the client has, or is about to have, and has not executed.
Held(c) == c \in open \/ \E r \in Requests : c \in handed[r]
Gone(c) == callToRun[c] # None \/ (owner[c] # None /\ phase[owner[c]] = "dead")
Seen(c) ==
    IF c \in Executed THEN "executed" ELSE IF Held(c) THEN "offered"
    ELSE IF Gone(c) THEN "lost" ELSE "unseen"
Agent(c) ==
    IF tool[c] = "idle" THEN "idle" ELSE IF tool[c] \in {"parked", "waiting"} THEN "waiting"
    ELSE IF tool[c] = "answered" THEN "answered" ELSE "failed"

\* Only an answer holds calls.
HandedInAnswers == \A r \in Requests : handed[r] # {} => pc[r] = "replied"

LEMMA HandedStep ==
  ASSUME TypeOK, HandedInAnswers, [Next]_vars PROVE HandedInAnswers'
  <1> USE DEF sessionVars, callVars, runVars, reqVars, clientVars, adminVars, HandedInAnswers, TypeOK
  <1>1. ASSUME NEW r \in Requests, AskTurn(r) \/ PostResults(r) \/ Abandon(r) PROVE HandedInAnswers'
    BY <1>1 DEF AskTurn, PostResults, Abandon, Submit
  <1>2. ASSUME NEW r \in Requests, Receive(r) PROVE HandedInAnswers'
    BY <1>2 DEF Receive
  <1>3. ASSUME NEW r \in Requests, TakeBatch(r) PROVE HandedInAnswers'
    BY <1>3 DEF TakeBatch, Answer
  <1>4. ASSUME NEW r \in Requests, Handler(r), ~TakeBatch(r) PROVE HandedInAnswers'
    <2>1. handed' = handed /\ pc[r] # "replied"
      BY <1>4 DEF Handler, CheckKilled, DeliverResult, ResumeRun, StartToolRun, StartText,
         CompleteText, WakeOnBatch, PollExpires, CheckDone, Deadline
    <2>2. \A q \in Requests : q # r => pc'[q] = pc[q]
      <3>1. CASE CheckKilled(r) \/ CompleteText(r) \/ CheckDone(r) \/ Deadline(r)
        BY <3>1 DEF CheckKilled, CompleteText, CheckDone, Deadline, Answer
      <3>2. CASE DeliverResult(r) \/ ResumeRun(r) \/ StartText(r) \/ WakeOnBatch(r) \/ PollExpires(r)
        BY <3>2 DEF DeliverResult, ResumeRun, StartText, WakeOnBatch, PollExpires
      <3>3. CASE \E n \in Runs : StartToolRun(r, n)
        BY <3>3 DEF StartToolRun
      <3> QED BY <1>4, <3>1, <3>2, <3>3 DEF Handler
    <2> QED BY <2>1, <2>2
  <1>5. CASE Restart
    BY <1>5 DEF Restart
  <1>6. CASE UNCHANGED <<pc, handed>>
    BY <1>6
  <1>7. \/ \E r \in Requests : AskTurn(r) \/ PostResults(r) \/ Abandon(r) \/ Receive(r) \/ Handler(r)
        \/ Restart
        \/ UNCHANGED <<pc, handed>>
    BY DEF Next, vars, Client, ToolThread, Runner, ExecuteTool, Park, PushTool,
         WaitResult, ToolTimeout, RunFinishes, SignalDone, RunnerCloses, Expire, SetKilled,
         CloseAll, Unkill
  <1> QED BY <1>1, <1>2, <1>3, <1>4, <1>5, <1>6, <1>7

\* The two views, call by call.
LEMMA Views ==
  /\ AgentView = [c \in Calls |-> Agent(c)]
  /\ ClientView = [c \in Calls |-> Seen(c)]
  /\ AgentView' = [c \in Calls |-> Agent(c)']
  /\ ClientView' = [c \in Calls |-> Seen(c)']
  <1>1. ASSUME NEW c \in Calls
        PROVE  /\ AgentView[c] = Agent(c) /\ AgentView'[c] = Agent(c)'
               /\ ClientView[c] = Seen(c) /\ ClientView'[c] = Seen(c)'
    BY DEF AgentView, ClientView, Agent, Seen, Held, Gone
  <1> QED BY <1>1 DEF AgentView, ClientView

\* What the client knew of and lost, the views show as lost.
LEMMA KnownLost ==
  ASSUME IInv, NEW c \in Calls, Known(c) PROVE Gone(c) /\ owner[c] # None
  <1>1. tool[c] # "idle" BY DEF IInv, Once
  <1>2. owner[c] \in Runs /\ phase[owner[c]] # "free"
    BY <1>1 DEF IInv, TypeInv, TypeOK, CallsOwned
  <1>3. CASE owner[c] \in Registered BY <1>2, <1>3 DEF IInv, Once, OfferedIsRoutable, Gone
  <1>4. CASE owner[c] \notin Registered
    BY <1>2, <1>4 DEF Registered, Gone, IInv, TypeInv, TypeOK, Phases
  <1> QED BY <1>2, <1>3, <1>4

\* Every step is one of the contract, or changes neither view.
LEMMA Simulation ==
  ASSUME IInv, HandedInAnswers, [Next]_vars
  PROVE  [Contract!Next]_<<AgentView, ClientView>>
  <1> USE DEF sessionVars, callVars, runVars, reqVars, clientVars, adminVars
  <1>1. /\ TypeOK /\ CallsOwned /\ BatchesOwned /\ Once /\ Reasons
    BY DEF IInv, TypeInv
  \* When no call's place changes, the views stay.
  <1>2. ASSUME \A c \in Calls : Agent(c)' = Agent(c) /\ Seen(c)' = Seen(c)
        PROVE  UNCHANGED <<AgentView, ClientView>>
    BY <1>2, Views
  <1>3. ASSUME UNCHANGED <<open, hist, handed, callToRun, batch, tool, owner, phase>>
        PROVE  UNCHANGED <<AgentView, ClientView>>
    BY <1>2, <1>3 DEF Agent, Seen, Held, Gone, Executed
  <1>4. ASSUME NEW c \in Calls, ExecuteTool(c) PROVE Contract!Next
    <2>1. /\ c \in open /\ open' = open \ {c} /\ hist' = Append(hist, c)
          /\ UNCHANGED <<handed, callToRun, tool, owner, phase>>
      BY <1>4 DEF ExecuteTool
    <2>2. Executed' = Executed \cup {c} BY <1>1, <2>1, ExecutedAppend DEF TypeOK
    <2>3. c \notin Executed /\ Held(c) BY <1>1, <2>1 DEF Once, OfferedOnce, Held
    <2>4. \A d \in Calls : /\ Agent(d)' = Agent(d)
                           /\ Seen(d)' = IF d = c THEN "executed" ELSE Seen(d)
      BY <2>1, <2>2 DEF Agent, Seen, Held, Gone
    <2>5. AgentView' = AgentView /\ ClientView' = [ClientView EXCEPT ![c] = "executed"]
      BY <2>4, Views
    <2>6. ClientView[c] = "offered" BY <2>3, Views DEF Seen
    <2> QED BY <2>5, <2>6 DEF Contract!Next, Contract!Execute
  \* An answer that nobody receives, and one that the client takes.
  <1>5. ASSUME NEW r \in Requests, Receive(r) PROVE [Contract!Next]_<<AgentView, ClientView>>
    <2>1. /\ handed' = [handed EXCEPT ![r] = {}] /\ open' \in {open, handed[r]}
          /\ UNCHANGED <<hist, callToRun, tool, owner, phase>>
      BY <1>5 DEF Receive
    <2> DEFINE S == {c \in Calls : Seen(c) = "offered" /\ ~Held(c)'}
    <2>2. \A c \in Calls : Held(c)' => Held(c) BY <1>1, <2>1 DEF Held, TypeOK
    <2>3. \A c \in S : Gone(c) BY KnownLost DEF Seen, Held, Known
    <2>4. \A c \in Calls : /\ Agent(c)' = Agent(c)
                           /\ Seen(c)' = IF c \in S THEN "lost" ELSE Seen(c)
      <3>1. UNCHANGED Executed /\ \A c \in Calls : Gone(c)' = Gone(c) /\ Agent(c)' = Agent(c)
        BY <2>1 DEF Executed, Gone, Agent
      <3>2. \A c \in Calls : Seen(c)' = IF c \in S THEN "lost" ELSE Seen(c)
        BY <3>1, <2>2, <2>3 DEF Seen
      <3> QED BY <3>1, <3>2
    <2>5. AgentView' = AgentView /\ ClientView' = [c \in Calls |-> IF c \in S THEN "lost" ELSE ClientView[c]]
      BY <2>4, Views
    <2>6. \A c \in S : ClientView[c] = "offered" BY Views
    <2>7. S \subseteq Calls OBVIOUS
    <2> HIDE DEF S
    <2>8. CASE S = {} BY <1>2, <2>4, <2>8
    <2>9. CASE S # {} BY <2>5, <2>6, <2>7, <2>9 DEF Contract!Next, Contract!Lose
    <2> QED BY <2>8, <2>9
  <1>6. ASSUME NEW r \in Requests, TakeBatch(r) PROVE [Contract!Next]_<<AgentView, ClientView>>
    <2> DEFINE n == active[r]
               S == batch[n]
    <2>1. /\ pc[r] = "coalescing" /\ handed' = [handed EXCEPT ![r] = S]
          /\ callToRun' = [c \in Calls |-> IF c \in S THEN n ELSE callToRun[c]]
          /\ UNCHANGED <<open, hist, tool, owner, phase>>
      BY <1>6 DEF TakeBatch, Route
    <2>2. handed[r] = {} BY <2>1 DEF HandedInAnswers
    <2>3. n \in Runs /\ S \subseteq Calls
      BY <1>1, <2>1 DEF IInv, TypeInv, ActiveRegistered, Waiting, TypeOK
    <2> HIDE DEF n
    <2>4. \A c \in S : /\ Seen(c) = "unseen" /\ Agent(c) # "idle" /\ c \notin Executed
      <3> SUFFICES ASSUME NEW c \in S PROVE Seen(c) = "unseen" /\ Agent(c) # "idle" /\ c \notin Executed
        OBVIOUS
      <3>1. ~Known(c) /\ callToRun[c] = None BY <1>1, <2>3 DEF Once, OfferedOnce
      <3>2. owner[c] = n /\ n \in Registered /\ tool[c] # "idle" BY <1>1, <2>3 DEF BatchesOwned
      <3> QED BY <3>1, <3>2 DEF Known, Seen, Held, Gone, Registered, Agent
    <2>5. \A c \in Calls : Held(c)' <=> Held(c) \/ c \in S
      BY <1>1, <2>1, <2>2 DEF Held, TypeOK
    <2> HIDE DEF S
    <2>6. \A c \in Calls : /\ Agent(c)' = Agent(c)
                           /\ Seen(c)' = IF c \in S THEN "offered" ELSE Seen(c)
      <3>1. UNCHANGED Executed /\ \A c \in Calls : Agent(c)' = Agent(c)
        BY <2>1 DEF Executed, Agent
      <3>2. \A c \in Calls : c \notin S => Gone(c)' = Gone(c)
        BY <2>1 DEF Gone
      <3> QED BY <2>4, <2>5, <3>1, <3>2 DEF Seen
    <2>7. AgentView' = AgentView /\ ClientView' = [c \in Calls |-> IF c \in S THEN "offered" ELSE ClientView[c]]
      BY <2>6, Views
    <2>8. \A c \in S : ClientView[c] = "unseen" /\ AgentView[c] # "idle" BY <2>3, <2>4, Views
    <2>9. CASE S = {} BY <1>2, <2>6, <2>9
    <2>10. CASE S # {} BY <2>3, <2>7, <2>8, <2>10 DEF Contract!Next, Contract!Offer
    <2> QED BY <2>9, <2>10
  <1>7. ASSUME NEW c \in Calls, NEW n \in Runs, Park(n, c) PROVE Contract!Next
    <2>1. /\ phase[n] = "running" /\ tool[c] = "idle"
          /\ owner' = [owner EXCEPT ![c] = n] /\ tool' = [tool EXCEPT ![c] = "parked"]
          /\ UNCHANGED <<open, hist, handed, callToRun, phase>>
      BY <1>7 DEF Park
    <2>2. ~Known(c) /\ callToRun[c] = None /\ owner[c] = None
      BY <1>1, <2>1 DEF Once, CallsOwned
    <2>3. \A d \in Calls : /\ Agent(d)' = IF d = c THEN "waiting" ELSE Agent(d)
                           /\ Seen(d)' = Seen(d)
      <3>1. UNCHANGED Executed /\ \A d \in Calls : Held(d)' = Held(d)
        BY <2>1 DEF Executed, Held
      <3>2. \A d \in Calls : d # c => tool'[d] = tool[d] /\ owner'[d] = owner[d]
        BY <1>1, <2>1 DEF TypeOK
      <3>3. \A d \in Calls : Gone(d)' = Gone(d)
        <4>1. ~Gone(c)' /\ ~Gone(c) BY <1>1, <2>1, <2>2 DEF Gone, TypeOK
        <4> QED BY <2>1, <3>2, <4>1 DEF Gone
      <3>4. Agent(c)' = "waiting" BY <1>1, <2>1 DEF Agent, TypeOK
      <3> QED BY <3>1, <3>2, <3>3, <3>4 DEF Seen, Agent
    <2>4. AgentView' = [AgentView EXCEPT ![c] = "waiting"] /\ ClientView' = ClientView
      BY <2>3, Views
    <2>5. AgentView[c] = "idle" BY <2>1, Views DEF Agent
    <2> QED BY <2>4, <2>5 DEF Contract!Next, Contract!Invoke
  <1>8. ASSUME NEW c \in Calls, PushTool(c) PROVE UNCHANGED <<AgentView, ClientView>>
    <2>1. /\ tool[c] = "parked" /\ tool' = [tool EXCEPT ![c] = "waiting"]
          /\ UNCHANGED <<open, hist, handed, callToRun, owner, phase>>
      BY <1>8 DEF PushTool
    <2>2. \A d \in Calls : Agent(d)' = Agent(d) BY <1>1, <2>1 DEF Agent, TypeOK
    <2>3. \A d \in Calls : Seen(d)' = Seen(d) BY <2>1 DEF Seen, Held, Gone, Executed
    <2> QED BY <1>2, <2>2, <2>3
  <1>9. ASSUME NEW c \in Calls, WaitResult(c) \/ ToolTimeout(c) PROVE Contract!Next
    <2>1. PICK to \in {"answered", "closed", "timedout"} :
            /\ tool[c] = "waiting" /\ tool' = [tool EXCEPT ![c] = to]
            /\ to = "answered" => result[c] = "result"
            /\ UNCHANGED <<open, hist, handed, callToRun, owner, phase>>
      BY <1>9 DEF WaitResult, ToolTimeout
    <2> DEFINE a == IF to = "answered" THEN "answered" ELSE "failed"
    <2>2. \A d \in Calls : /\ Agent(d)' = IF d = c THEN a ELSE Agent(d)
                           /\ Seen(d)' = Seen(d)
      <3>1. \A d \in Calls : Seen(d)' = Seen(d) BY <2>1 DEF Seen, Held, Gone, Executed
      <3>2. \A d \in Calls : Agent(d)' = IF d = c THEN a ELSE Agent(d)
        BY <1>1, <2>1 DEF Agent, TypeOK
      <3> QED BY <3>1, <3>2
    <2>3. AgentView' = [AgentView EXCEPT ![c] = a] /\ ClientView' = ClientView
      BY <2>2, Views
    <2>4. AgentView[c] = "waiting" BY <2>1, Views DEF Agent
    <2>5. CASE to = "answered"
      <3>1. ClientView[c] = "executed" BY <1>1, <2>1, <2>5, Views DEF Reasons, Seen
      <3> QED BY <2>3, <2>4, <2>5, <3>1 DEF Contract!Next, Contract!Answer
    <2>6. CASE to # "answered" BY <2>3, <2>4, <2>6 DEF Contract!Next, Contract!Fail
    <2> QED BY <2>5, <2>6
  <1>10. ASSUME \/ \E n \in Runs : RunFinishes(n) \/ SignalDone(n) \/ RunnerCloses(n)
                \/ \E r \in Requests, n \in Runs : StartToolRun(r, n)
         PROVE  UNCHANGED <<AgentView, ClientView>>
    <2>1. PICK n \in Runs, to \in {"running", "finished", "signalled", "ended"} :
            /\ phase[n] # "dead" /\ phase' = [phase EXCEPT ![n] = to]
            /\ UNCHANGED <<open, hist, handed, callToRun, tool, owner>>
      BY <1>10 DEF RunFinishes, SignalDone, RunnerCloses, StartToolRun
    <2>2. \A m \in Runs : phase'[m] = "dead" <=> phase[m] = "dead"
      BY <1>1, <2>1 DEF TypeOK
    <2>3. \A c \in Calls : Gone(c)' = Gone(c) BY <1>1, <2>1, <2>2 DEF Gone, TypeOK
    <2>4. \A c \in Calls : Agent(c)' = Agent(c) /\ Seen(c)' = Seen(c)
      BY <2>1, <2>3 DEF Agent, Seen, Held, Executed
    <2> QED BY <1>2, <2>4
  <1>11. CASE Restart
    <2>1. /\ restarts < MaxRestarts
          /\ phase' = [n \in Runs |-> IF phase[n] = "free" THEN "free" ELSE "dead"]
          /\ tool' = [c \in Calls |-> IF tool[c] \in {"parked", "waiting"} THEN "lost" ELSE tool[c]]
          /\ callToRun' = [c \in Calls |-> None]
          /\ UNCHANGED <<open, hist, handed, owner>>
      BY <1>11 DEF Restart
    <2>2. MaxRestarts > 0 BY <1>1, <2>1 DEF TypeOK
    <2>3. \A c \in Calls : Agent(c)' = IF Agent(c) = "waiting" THEN "failed" ELSE Agent(c)
      BY <2>1 DEF Agent
    <2>4. UNCHANGED Executed /\ \A c \in Calls : Held(c)' = Held(c)
      BY <2>1 DEF Executed, Held
    <2>5. \A c \in Calls : Gone(c)' <=> owner[c] # None
      BY <1>1, <2>1 DEF Gone, CallsOwned, TypeOK
    <2>6. \A c \in Calls : Gone(c) => owner[c] # None
      BY <1>1 DEF Gone, CallsOwned
    <2>7. \A c \in Calls : Agent(c) # "idle" <=> owner[c] # None
      BY <1>1 DEF Agent, CallsOwned
    <2>8. \A c \in Calls : Seen(c)' = IF Seen(c) = "unseen" /\ Agent(c) # "idle" THEN "lost" ELSE Seen(c)
      BY <2>4, <2>5, <2>6, <2>7 DEF Seen
    <2>9. /\ AgentView' = [c \in Calls |-> IF AgentView[c] = "waiting" THEN "failed" ELSE AgentView[c]]
          /\ ClientView' = [c \in Calls |-> IF ClientView[c] = "unseen" /\ AgentView[c] # "idle"
                                            THEN "lost" ELSE ClientView[c]]
      BY <2>3, <2>8, Views
    <2> QED BY <2>2, <2>9 DEF Contract!Next, Contract!Crash
  <1> QED BY CallFrame, <1>3, <1>4, <1>5, <1>6, <1>7, <1>8, <1>9, <1>10, <1>11

\* The adapter keeps its contract towards the agent and the client, whatever the
\* threads, the kill switch, timeouts, retries and restarts do.
THEOREM AdapterKeepsContract == Spec => ImplementsContract
  <1>1. Init => HandedInAnswers BY DEF Init, HandedInAnswers
  <1>2. Init => Contract!Init
    <2> SUFFICES ASSUME Init PROVE Contract!Init
      OBVIOUS
    <2>1. Executed = {} BY DEF Init, Executed
    <2>2. \A c \in Calls : Agent(c) = "idle" /\ Seen(c) = "unseen"
      BY <2>1 DEF Init, Agent, Seen, Held, Gone
    <2> QED BY <2>2, Views DEF Contract!Init
  <1>3. IInv /\ HandedInAnswers /\ [Next]_vars => HandedInAnswers'
    BY HandedStep DEF IInv, TypeInv
  <1>4. IInv /\ HandedInAnswers /\ [Next]_vars => [Contract!Next]_<<AgentView, ClientView>>
    BY Simulation
  <1> QED BY <1>1, <1>2, <1>3, <1>4, Invariance, PTL DEF Spec, ImplementsContract, Contract!Spec
=============================================================================
