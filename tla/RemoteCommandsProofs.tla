------------------------ MODULE RemoteCommandsProofs ------------------------
(* What a command and its result can count on, for every number of         *)
(* commands and handlers and every number of faults.                       *)
EXTENDS RemoteCommands, TLAPS

(* A row that was handed out and saved. *)
Past(c) == row[c] \in {"running", "done"}

(* Only a handler that has read the table has found something. *)
EmptyHanded ==
  \A h \in Handlers : serving[h].step # "save" =>
    serving[h].found = {} /\ serving[h].unmarked = {}

(* What was handed out is saved before the answer, so what was started is  *)
(* no longer pending, and what the agent is about to get it does not have. *)
Marked ==
  ~unsaved =>
    /\ \A h \in Handlers : \A c \in serving[h].found : c \in serving[h].unmarked \/ Past(c)
    /\ \A c \in Commands : runs[c] # 0 \/ jobs[c] # 0 => Past(c)
    /\ \A c \in Plain : waits # None /\ c \in serving[waits].found => runs[c] = 0
    /\ \A c \in Plain : runs[c] <= 1

(* As long as no poll was given up the agent waits for the only handler,   *)
(* whose copies of the rows are up to date.                                *)
Fresh ==
  /\ ~gaveUp => \A h \in Handlers : serving[h].step # "idle" => waits = h
  /\ ~gaveUp /\ ~unsaved =>
       \A h \in Handlers : \A c \in serving[h].unmarked : row[c] = "pending"

CInv == TypeOK /\ EmptyHanded /\ Marked /\ Fresh

(* Plain and terminal commands differ. *)
LEMMA Kinds ==
  /\ Kind("plain") = Plain /\ Kind("terminal") = Terminal
  /\ \A k \in {"plain", "terminal"} : Open(k) \subseteq Commands
  /\ \A k \in {"plain", "terminal"} : \A c \in Open(k) :
       row[c] = "pending" \/ (row[c] = "running" /\ c \notin Plain)
BY CommandsAssumption DEF Kind, Open, Commands

(* The state of a handler. *)
LEMMA HandlerFields ==
  ASSUME TypeOK, NEW h \in Handlers
  PROVE  /\ serving[h] \in HandlerType
         /\ serving[h].step \in {"idle", "query", "save"}
         /\ serving[h].kind \in {"plain", "terminal"}
         /\ serving[h].found \subseteq Commands /\ serving[h].unmarked \subseteq Commands
         /\ Idle \in HandlerType
BY DEF TypeOK, HandlerType, Idle

(* Every step keeps the types. *)
LEMMA CommandsType ==
  ASSUME TypeOK, [Next]_vars
  PROVE  TypeOK'
<1> USE CommandsAssumption, HandlerFields DEF TypeOK, RowStatus
<1>0. Fault => faults' \in 0 .. MaxFaults
  BY DEF Fault
<1>1. ASSUME NEW c \in Commands, Create(c) PROVE TypeOK'
  BY <1>1 DEF Create
<1>2. ASSUME NEW c \in Commands, PostResult(c) \/ ResultLost(c) PROVE TypeOK'
  <2>1. jobs[c] - 1 \in 0 .. MaxJobs
    BY <1>2 DEF PostResult, ResultLost
  <2>. QED
    BY <1>0, <1>2, <2>1 DEF PostResult, ResultLost
<1>3. ASSUME NEW h \in Handlers, Query(h) PROVE TypeOK'
  <2>1. Open(serving[h].kind) \subseteq Commands /\ Mark(Open(serving[h].kind)) \subseteq Commands
    BY Kinds DEF Mark
  <2>2. [serving[h] EXCEPT !.step = "save", !.found = Open(serving[h].kind),
                           !.unmarked = Mark(Open(serving[h].kind))] \in HandlerType
    BY <2>1 DEF HandlerType
  <2>. QED
    BY <1>3, <2>2 DEF Query
<1>4. ASSUME NEW h \in Handlers, QueryFails(h) PROVE TypeOK'
  <2>1. [serving[h] EXCEPT !.step = "save"] \in HandlerType
    BY DEF HandlerType
  <2>. QED
    BY <1>0, <1>4, <2>1 DEF QueryFails
<1>5. ASSUME NEW h \in Handlers, SaveRow(h) PROVE TypeOK'
  <2>1. PICK c \in serving[h].unmarked :
          /\ serving' = [serving EXCEPT ![h].unmarked = @ \ {c}]
          /\ \/ row' = [row EXCEPT ![c] = "running"] /\ UNCHANGED <<unsaved, faults>>
             \/ unsaved' = TRUE /\ Fault /\ UNCHANGED row
          /\ UNCHANGED <<stage, waits, jobs, runs, gaveUp>>
    BY <1>5 DEF SaveRow
  <2>2. [serving[h] EXCEPT !.unmarked = @ \ {c}] \in HandlerType
    BY DEF HandlerType
  <2>3. serving' \in [Handlers -> HandlerType]
    BY <2>1, <2>2
  <2>. QED
    BY <1>0, <2>1, <2>3
<1>6. ASSUME NEW h \in Handlers, AnswerNobody(h) PROVE TypeOK'
  BY <1>6 DEF AnswerNobody
<1>7. ASSUME NEW h \in Handlers, Poll(h) PROVE TypeOK'
  <2>1. [Idle EXCEPT !.step = "query", !.kind = stage] \in HandlerType
    BY DEF HandlerType, Idle
  <2>. QED
    BY <1>7, <2>1 DEF Poll
<1>8. ASSUME NEW h \in Handlers, Receive(h) PROVE TypeOK'
  <2>1. jobs' \in [Commands -> 0 .. MaxJobs]
    BY <1>8 DEF Receive, Started, StartOf
  <2>2. runs' \in [Commands -> 0 .. 2]
    BY <1>8 DEF Receive, Started, StartOf
  <2>. QED
    BY <1>8, <2>1, <2>2 DEF Receive, NextStage
<1>9. ASSUME NEW h \in Handlers, GiveUp(h) PROVE TypeOK'
  BY <1>0, <1>9 DEF GiveUp, NextStage
<1>10. CASE Restart
  <2>1. jobs' \in [Commands -> 0 .. MaxJobs]
    BY <1>10 DEF Restart
  <2>. QED
    BY <1>0, <1>10, <2>1 DEF Restart
<1>11. CASE UNCHANGED vars
  BY <1>11 DEF vars
<1>. QED
  BY <1>1, <1>2, <1>3, <1>4, <1>5, <1>6, <1>7, <1>8, <1>9, <1>10, <1>11 DEF Next


(* A handler finds nothing before it has read the table. *)
LEMMA EmptyHandedStep ==
  ASSUME TypeOK, EmptyHanded, [Next]_vars
  PROVE  EmptyHanded'
<1> USE HandlerFields DEF TypeOK, EmptyHanded, Idle
<1>1. ASSUME NEW h \in Handlers, Query(h) \/ QueryFails(h) PROVE EmptyHanded'
  <2>1. serving'[h].step = "save"
    <3>1. ASSUME Query(h) PROVE serving'[h].step = "save"
      BY <3>1 DEF Query, HandlerType
    <3>2. ASSUME QueryFails(h) PROVE serving'[h].step = "save"
      BY <3>2 DEF QueryFails
    <3>. QED
      BY <1>1, <3>1, <3>2
  <2>2. \A g \in Handlers : g # h => serving'[g] = serving[g]
    BY <1>1 DEF Query, QueryFails
  <2>. QED
    BY <2>1, <2>2
<1>2. ASSUME NEW h \in Handlers, SaveRow(h) PROVE EmptyHanded'
  <2>1. PICK c \in serving[h].unmarked :
          serving[h].step = "save" /\ serving' = [serving EXCEPT ![h].unmarked = @ \ {c}]
    BY <1>2 DEF SaveRow
  <2>2. serving'[h].step = "save" /\ \A g \in Handlers : g # h => serving'[g] = serving[g]
    BY <2>1
  <2>. QED
    BY <2>2
<1>3. ASSUME NEW h \in Handlers, AnswerNobody(h) \/ Poll(h) \/ Receive(h) PROVE EmptyHanded'
  <2>1. serving'[h].found = {} /\ serving'[h].unmarked = {}
    <3>1. ASSUME Poll(h) PROVE serving'[h].found = {} /\ serving'[h].unmarked = {}
      BY <3>1 DEF Poll
    <3>2. ASSUME AnswerNobody(h) \/ Receive(h) PROVE serving'[h] = Idle
      BY <3>2 DEF AnswerNobody, Receive
    <3>. QED
      BY <1>3, <3>1, <3>2
  <2>2. \A g \in Handlers : g # h => serving'[g] = serving[g]
    BY <1>3 DEF AnswerNobody, Poll, Receive
  <2>. QED
    BY <2>1, <2>2
<1>4. ASSUME NEW h \in Handlers, GiveUp(h) PROVE EmptyHanded'
  <2>1. \/ UNCHANGED serving
        \/ serving' = [serving EXCEPT ![h] = Idle]
    BY <1>4 DEF GiveUp
  <2>. QED
    BY <2>1
<1>5. ASSUME NEW c \in Commands, Create(c) \/ PostResult(c) \/ ResultLost(c) PROVE EmptyHanded'
  BY <1>5 DEF Create, PostResult, ResultLost
<1>6. CASE Restart \/ UNCHANGED vars
  BY <1>6 DEF Restart, vars
<1>. QED
  BY <1>1, <1>2, <1>3, <1>4, <1>5, <1>6 DEF Next

(* Nothing is started before it is saved, nor a plain command twice. *)
LEMMA MarkedStep ==
  ASSUME CInv, [Next]_vars
  PROVE  Marked'
<1> SUFFICES ASSUME ~unsaved' PROVE Marked'
  BY DEF Marked
<1> USE HandlerFields, CommandsAssumption DEF CInv, TypeOK
<1>a. ~unsaved
  <2>1. ASSUME NEW h \in Handlers, SaveRow(h) PROVE ~unsaved
    BY <2>1 DEF SaveRow
  <2>. QED
    BY <2>1 DEF Next, vars, Create, PostResult, ResultLost, Query, QueryFails, AnswerNobody,
       Poll, Receive, GiveUp, Restart
<1>b. /\ \A h \in Handlers : \A c \in serving[h].found : c \in serving[h].unmarked \/ Past(c)
      /\ \A c \in Commands : runs[c] # 0 \/ jobs[c] # 0 => Past(c)
      /\ \A c \in Plain : waits # None /\ c \in serving[waits].found => runs[c] = 0
      /\ \A c \in Plain : runs[c] <= 1
  BY <1>a DEF Marked
<1>1. ASSUME NEW c \in Commands, Create(c) \/ PostResult(c) \/ ResultLost(c) PROVE Marked'
  <2>1. \A d \in Commands : Past(d) => Past(d)'
    BY <1>1 DEF Create, PostResult, ResultLost, Past
  <2>2. UNCHANGED <<serving, waits, runs>> /\ \A d \in Commands : jobs'[d] # 0 => jobs[d] # 0
    BY <1>1 DEF Create, PostResult, ResultLost
  <2>. QED
    BY <1>b, <2>1, <2>2 DEF Marked, Commands
<1>2. ASSUME NEW h \in Handlers, Query(h) PROVE Marked'
  <2>1. UNCHANGED <<row, waits, jobs, runs>>
    BY <1>2 DEF Query
  <2>2. /\ serving'[h].found = Open(serving[h].kind)
        /\ serving'[h].unmarked = Mark(Open(serving[h].kind))
        /\ \A g \in Handlers : g # h => serving'[g] = serving[g]
    BY <1>2 DEF Query
  <2>3. \A c \in serving'[h].found : c \in Commands /\ (c \in serving'[h].unmarked \/ Past(c))
    BY <2>2, Kinds DEF Mark, Past
  <2>4. \A c \in Plain : c \in serving'[h].found => runs[c] = 0
    BY <1>b, <2>2, Kinds DEF Past, Commands
  <2>. QED
    BY <1>b, <2>1, <2>2, <2>3, <2>4 DEF Marked, Past
<1>3. ASSUME NEW h \in Handlers, QueryFails(h) PROVE Marked'
  <2>1. UNCHANGED <<row, waits, jobs, runs>>
    BY <1>3 DEF QueryFails
  <2>2. \A g \in Handlers : serving'[g].found = serving[g].found /\ serving'[g].unmarked = serving[g].unmarked
    BY <1>3 DEF QueryFails
  <2>. QED
    BY <1>b, <2>1, <2>2 DEF Marked, Past
<1>4. ASSUME NEW h \in Handlers, SaveRow(h) PROVE Marked'
  <2>1. PICK c \in serving[h].unmarked :
          /\ serving' = [serving EXCEPT ![h].unmarked = @ \ {c}]
          /\ row' = [row EXCEPT ![c] = "running"]
          /\ UNCHANGED <<waits, jobs, runs>>
    BY <1>4, <1>a DEF SaveRow
  <2>2. \A d \in Commands : (Past(d) => Past(d)') /\ (d = c => Past(d)')
    BY <2>1 DEF Past
  <2>3. \A g \in Handlers : /\ serving'[g].found = serving[g].found
                            /\ \A d \in serving[g].unmarked : d # c => d \in serving'[g].unmarked
    BY <2>1
  <2>. QED
    BY <1>b, <2>1, <2>2, <2>3 DEF Marked
<1>5. ASSUME NEW h \in Handlers, AnswerNobody(h) PROVE Marked'
  <2>1. UNCHANGED <<row, waits, jobs, runs>> /\ serving'[h].found = {}
        /\ \A g \in Handlers : g # h => serving'[g] = serving[g]
    BY <1>5 DEF AnswerNobody, Idle
  <2>. QED
    BY <1>b, <2>1 DEF Marked, Past
<1>6. ASSUME NEW h \in Handlers, Poll(h) PROVE Marked'
  <2>1. UNCHANGED <<row, jobs, runs>> /\ waits' = h /\ serving'[h].found = {}
        /\ \A g \in Handlers : g # h => serving'[g] = serving[g]
    BY <1>6 DEF Poll, Idle
  <2>. QED
    BY <1>b, <2>1 DEF Marked, Past
<1>7. ASSUME NEW h \in Handlers, Receive(h) PROVE Marked'
  <2>1. UNCHANGED row /\ waits' = None /\ waits = h /\ serving[h].unmarked = {} /\ h # None
    BY <1>7 DEF Receive, Ready
  <2>2. serving'[h].found = {} /\ \A g \in Handlers : g # h => serving'[g] = serving[g]
    BY <1>7 DEF Receive, Idle
  <2>3. \A c \in serving[h].found : Past(c)'
    BY <1>b, <2>1 DEF Past
  <2>4. \A c \in Commands : c \notin serving[h].found => runs'[c] = runs[c] /\ jobs'[c] = jobs[c]
    BY <1>7 DEF Receive, Started, StartOf
  <2>5. \A c \in Plain : c \in serving[h].found => runs'[c] = 1
    BY <1>7, <1>b, <2>1 DEF Receive, Started, StartOf, Commands
  <2>6. \A c \in Commands : runs'[c] # 0 \/ jobs'[c] # 0 => Past(c)'
    BY <1>b, <2>1, <2>3, <2>4 DEF Past
  <2>7. \A c \in Plain : runs'[c] <= 1
    BY <1>b, <2>4, <2>5 DEF Commands
  <2>8. \A g \in Handlers : \A c \in serving'[g].found : c \in serving'[g].unmarked \/ Past(c)'
    BY <1>b, <2>1, <2>2 DEF Past
  <2>. QED
    BY <2>1, <2>6, <2>7, <2>8 DEF Marked
<1>8. ASSUME NEW h \in Handlers, GiveUp(h) PROVE Marked'
  <2>1. UNCHANGED <<row, jobs, runs>> /\ waits' = None
    BY <1>8 DEF GiveUp
  <2>2. \A g \in Handlers : serving'[g].found = {} \/ serving'[g] = serving[g]
    BY <1>8 DEF GiveUp, Idle
  <2>. QED
    BY <1>b, <2>1, <2>2 DEF Marked, Past
<1>9. CASE Restart
  <2>1. UNCHANGED <<row, serving, runs>> /\ waits' = None /\ \A c \in Commands : jobs'[c] = 0
    BY <1>9 DEF Restart
  <2>. QED
    BY <1>b, <2>1 DEF Marked, Past
<1>10. CASE UNCHANGED vars
  BY <1>10, <1>b DEF vars, Marked, Past
<1>. QED
  BY <1>1, <1>2, <1>3, <1>4, <1>5, <1>6, <1>7, <1>8, <1>9, <1>10 DEF Next

(* A second handler, and with it an old copy of a row, takes a poll that   *)
(* was given up.                                                           *)
LEMMA FreshStep ==
  ASSUME CInv, [Next]_vars
  PROVE  Fresh'
<1> SUFFICES ASSUME ~gaveUp'
             PROVE  /\ \A h \in Handlers : serving'[h].step # "idle" => waits' = h
                    /\ ~unsaved' => \A h \in Handlers : \A c \in serving'[h].unmarked :
                         row'[c] = "pending"
  BY DEF Fresh
<1> DEFINE Goal == /\ \A h \in Handlers : serving'[h].step # "idle" => waits' = h
                   /\ ~unsaved' => \A h \in Handlers : \A c \in serving'[h].unmarked :
                        row'[c] = "pending"
<1> USE HandlerFields, CommandsAssumption DEF CInv, TypeOK
<1>a. ~gaveUp
  <2>1. ASSUME NEW h \in Handlers, SaveRow(h) PROVE ~gaveUp
    BY <2>1 DEF SaveRow
  <2>. QED
    BY <2>1 DEF Next, vars, Create, PostResult, ResultLost, Query, QueryFails, AnswerNobody,
       Poll, Receive, GiveUp, Restart
<1>b. \A h \in Handlers : serving[h].step # "idle" => waits = h
  BY <1>a DEF Fresh
<1>c. ~unsaved => \A h \in Handlers : \A c \in serving[h].unmarked : row[c] = "pending"
  BY <1>a DEF Fresh
<1>d. ~unsaved => \A c \in Commands : jobs[c] # 0 => row[c] # "pending"
  BY DEF Marked, Past
<1>1. ASSUME NEW c \in Commands, Create(c) \/ PostResult(c) \/ ResultLost(c) PROVE Goal
  <2>1. UNCHANGED <<serving, waits, unsaved>>
    BY <1>1 DEF Create, PostResult, ResultLost
  <2>2. ~unsaved => \A d \in Commands : row[d] = "pending" => row'[d] = "pending"
    BY <1>1, <1>d DEF Create, PostResult, ResultLost
  <2>. QED
    BY <1>b, <1>c, <2>1, <2>2
<1>2. ASSUME NEW h \in Handlers, Query(h) PROVE Goal
  <2>1. UNCHANGED <<row, waits, unsaved>> /\ serving[h].step = "query"
    BY <1>2 DEF Query
  <2>2. /\ serving'[h].unmarked = Mark(Open(serving[h].kind))
        /\ \A g \in Handlers : g # h => serving'[g] = serving[g]
    BY <1>2 DEF Query
  <2>3. \A c \in serving'[h].unmarked : row[c] = "pending"
    BY <2>2 DEF Mark
  <2>. QED
    BY <1>b, <1>c, <2>1, <2>2, <2>3
<1>3. ASSUME NEW h \in Handlers, QueryFails(h) PROVE Goal
  <2>1. UNCHANGED <<row, waits, unsaved>> /\ serving[h].step = "query"
    BY <1>3 DEF QueryFails
  <2>2. \A g \in Handlers : serving'[g].unmarked = serving[g].unmarked /\ (g # h => serving'[g] = serving[g])
    BY <1>3 DEF QueryFails
  <2>. QED
    BY <1>b, <1>c, <2>1, <2>2
<1>4. ASSUME NEW h \in Handlers, SaveRow(h) PROVE Goal
  <2>1. PICK c \in serving[h].unmarked :
          /\ serving[h].step = "save"
          /\ serving' = [serving EXCEPT ![h].unmarked = @ \ {c}]
          /\ (row' = [row EXCEPT ![c] = "running"] /\ UNCHANGED unsaved) \/ unsaved' = TRUE
          /\ UNCHANGED waits
    BY <1>4 DEF SaveRow
  <2>2. \A g \in Handlers : g # h => serving[g].step = "idle"
    BY <1>b, <2>1
  <2>3. \A g \in Handlers : g # h => serving[g].unmarked = {}
    BY <2>2 DEF EmptyHanded
  <2>4. \A g \in Handlers : g # h => serving'[g] = serving[g]
    BY <2>1
  <2>5. serving'[h].unmarked = serving[h].unmarked \ {c} /\ serving'[h].step = "save"
    BY <2>1
  <2>6. \A d \in Commands : d # c /\ ~unsaved' => row'[d] = row[d]
    BY <2>1
  <2>. QED
    BY <1>b, <1>c, <2>1, <2>3, <2>4, <2>5, <2>6
<1>5. ASSUME NEW h \in Handlers, AnswerNobody(h) PROVE Goal
  BY <1>5, <1>b, <1>c DEF AnswerNobody, Idle
<1>6. ASSUME NEW h \in Handlers, Poll(h) PROVE Goal
  BY <1>6, <1>b, <1>c DEF Poll, Idle
<1>7. ASSUME NEW h \in Handlers, Receive(h) PROVE Goal
  BY <1>7, <1>b, <1>c DEF Receive, Idle
<1>8. ASSUME NEW h \in Handlers, GiveUp(h) PROVE Goal
  BY <1>8 DEF GiveUp
<1>9. CASE Restart
  <2>1. waits = None /\ UNCHANGED <<serving, row, unsaved>>
    BY <1>9 DEF Restart
  <2>2. \A h \in Handlers : serving[h].step = "idle"
    BY <1>b, <2>1
  <2>. QED
    BY <1>c, <2>1, <2>2
<1>10. CASE UNCHANGED vars
  BY <1>10, <1>b, <1>c DEF vars
<1>. QED
  BY <1>1, <1>2, <1>3, <1>4, <1>5, <1>6, <1>7, <1>8, <1>9, <1>10 DEF Next

-----------------------------------------------------------------------------
(* The invariant holds when the tables are empty and is inductive. *)
LEMMA CommandsInit == Init => CInv
<1> SUFFICES ASSUME Init PROVE CInv
  OBVIOUS
<1>1. Idle \in HandlerType /\ \A h \in Handlers : serving[h] = Idle
  BY DEF Init, Idle, HandlerType
<1>2. TypeOK
  <2>1. row \in [Commands -> RowStatus] /\ serving \in [Handlers -> HandlerType]
    BY <1>1 DEF Init, RowStatus
  <2>2. jobs \in [Commands -> 0 .. MaxJobs] /\ runs \in [Commands -> 0 .. 2] /\ faults \in 0 .. MaxFaults
    BY CommandsAssumption DEF Init
  <2>. QED
    BY <2>1, <2>2 DEF Init, TypeOK
<1>3. EmptyHanded /\ Fresh
  BY <1>1 DEF EmptyHanded, Fresh, Idle
<1>4. Marked
  BY <1>1, CommandsAssumption DEF Init, Marked, Idle, Commands
<1>. QED
  BY <1>2, <1>3, <1>4 DEF CInv

(* The invariant is inductive. *)
LEMMA CommandsStep == CInv /\ [Next]_vars => CInv'
BY CommandsType, EmptyHandedStep, MarkedStep, FreshStep DEF CInv

(* In every behaviour what was handed out was saved, or a save failed.     *)
THEOREM CommandsInvariance == Spec => []CInv
BY CommandsInit, CommandsStep, PTL DEF Spec

(* Types, whatever overlaps and fails. *)
THEOREM CommandsTypeCorrect == Spec => []TypeOK
<1>1. CInv => TypeOK
  BY DEF CInv
<1>. QED
  BY <1>1, CommandsInvariance, PTL

(* A plain command starts at most once unless a save fails: the save that  *)
(* precedes the answer is enough, however many handlers overlap.           *)
THEOREM StartedOnce == Spec => []PlainStartedOnce
<1>1. CInv => PlainStartedOnce
  BY DEF CInv, Marked, PlainStartedOnce
<1>. QED
  BY <1>1, CommandsInvariance, PTL

(* No step takes a result away unless a poll was given up or a save        *)
(* failed.                                                                 *)
THEOREM ResultKept == Spec => ResultStays
<1>1. ASSUME CInv, [Next]_vars
      PROVE  [\A c \in Commands : row[c] = "done" => row'[c] = "done" \/ gaveUp \/ unsaved]_vars
  <2> SUFFICES ASSUME NEW c \in Commands, row[c] = "done", ~gaveUp, ~unsaved
               PROVE  row'[c] = "done"
    OBVIOUS
  <2> USE <1>1 DEF CInv, TypeOK
  <2>1. ASSUME NEW h \in Handlers, SaveRow(h) PROVE row'[c] = "done"
    <3>1. PICK d \in serving[h].unmarked : row' = [row EXCEPT ![d] = "running"] \/ UNCHANGED row
      BY <2>1 DEF SaveRow
    <3>2. row[d] = "pending"
      BY <3>1 DEF Fresh
    <3>. QED
      BY <3>1, <3>2
  <2>2. ASSUME NEW d \in Commands, Create(d) \/ PostResult(d) \/ ResultLost(d) PROVE row'[c] = "done"
    BY <2>2 DEF Create, PostResult, ResultLost
  <2>. QED
    BY <2>1, <2>2 DEF Next, vars, Query, QueryFails, AnswerNobody, Poll, Receive, GiveUp, Restart
<1>. QED
  BY <1>1, CommandsInvariance, PTL DEF Spec, ResultStays

=============================================================================
