------------------------- MODULE KeywordSerpProofs -------------------------
(***************************************************************************)
(* Theorems about KeywordSerpCollection, for every list of keywords, every *)
(* number of workers, attempts and executions and every set of modes.      *)
(***************************************************************************)
EXTENDS KeywordSerpCollection, FiniteSetTheorems, TLAPS

(***************************************************************************)
(* The inductive invariant.  The tasks a script is to collect are fixed    *)
(* when it turns to collecting, so what the result will hold is known from *)
(* then on; and while the pool of a resumed script asks, it knows the good *)
(* answers of the file, which nobody else changes.                         *)
(***************************************************************************)
CollectingInv ==
  run.pc = "collecting" =>
    /\ run.completed \subseteq run.tasks
    /\ run.completed \subseteq raw
    /\ (run.mode = "recover" => QueuedOnce) => OneAnswerEach(run.tasks)

ResumeInv ==
  run.pc = "asking" /\ run.mode = "resume" =>
    /\ live_response \notin {None, Torn}
    /\ \A k \in Keywords :
         IsAnswered(live_response[k]) =>
           run.liveResponses[k] = live_response[k] /\ run.attempt[k] = 0

AskingInv ==
  run.pc = "asking" =>
    /\ run.mode \in {"live", "resume"}
    /\ run.completed = {}
    /\ \A k \in Keywords :
         /\ run.attempt[k] > 0 => bought[k] # <<>>
         /\ k \in run.todo \/ run.attempt[k] > 0 \/ run.liveResponses[k] # None

IInv == TypeOK /\ CollectingInv /\ ResumeInv /\ AskingInv

(***************************************************************************)
(* What recovery relies on: tasks of different keywords, as many as there  *)
(* are keywords, answer each of them.                                      *)
(***************************************************************************)
LEMMA AsManyAnswersAsKeywords ==
  ASSUME NEW S \in SUBSET Task,
         \A t, u \in S : t[1] = u[1] => t = u,
         Cardinality(S) = Cardinality(Keywords)
  PROVE  OneAnswerEach(S)
<1> DEFINE keyword == [t \in S |-> t[1]]
<1>1. keyword \in Injection(S, Keywords)
  BY DEF Injection, IsInjective, Task
<1>2. keyword \in Surjection(S, Keywords)
  <2> HIDE DEF keyword
  <2> QED BY <1>1, FS_Injection, CollectionAssumption
<1>3. \A k \in Keywords : \E t \in S : t[1] = k
  BY <1>2 DEF Surjection
<1> QED
  BY <1>3 DEF OneAnswerEach

\* A keyword that was queued once has at most one task that is not live.
LEMMA FinishedAreDistinct ==
  ASSUME TypeOK, QueuedOnce
  PROVE  /\ InState("finished") \in SUBSET Task
         /\ \A t, u \in InState("finished") : t[1] = u[1] => t = u
<1>1. \A t \in InState("finished") :
        /\ t \in Task
        /\ t = <<t[1], t[2]>>
        /\ t[1] \in Keywords
        /\ t[2] \in DOMAIN bought[t[1]]
        /\ bought[t[1]][t[2]] # "live"
  BY DEF InState, Tasks, Task, TypeOK
<1> QED
  BY <1>1 DEF QueuedOnce

\* One task for each keyword answers each of them.
LEMMA OneTaskEach ==
  ASSUME NEW n \in [Keywords -> Nat \ {0}]
  PROVE  /\ {<<k, n[k]>> : k \in Keywords} \in SUBSET Task
         /\ OneAnswerEach({<<k, n[k]>> : k \in Keywords})
<1> DEFINE S == {<<k, n[k]>> : k \in Keywords}
<1>1. S \in SUBSET Task
  BY DEF Task
<1>2. ASSUME NEW k \in Keywords
      PROVE  \E t \in S : t[1] = k /\ \A u \in S : u[1] = k => u = t
  <2>1. <<k, n[k]>> \in S /\ <<k, n[k]>>[1] = k
    OBVIOUS
  <2>2. \A u \in S : u[1] = k => u = <<k, n[k]>>
    OBVIOUS
  <2> QED
    BY <2>1, <2>2
<1> QED
  BY <1>1, <1>2 DEF OneAnswerEach

(***************************************************************************)
(* The inductive invariant holds initially, and each action preserves it.  *)
(***************************************************************************)
LEMMA IdleIsRun == Idle \in Run
BY CollectionAssumption DEF Idle, Run, AllModes, NoAnswers

LEMMA InitIInv == Init => IInv
<1> SUFFICES ASSUME Init PROVE IInv
  OBVIOUS
<1>1. TypeOK
  BY IdleIsRun DEF Init, TypeOK
<1> QED
  BY <1>1 DEF Init, IInv, CollectingInv, ResumeInv, AskingInv, Idle

\* A script that has ended, whatever became of the files, owes nothing.
LEMMA IdleIInv ==
  ASSUME TypeOK', run' = Idle
  PROVE  IInv'
BY DEF IInv, CollectingInv, ResumeInv, AskingInv, Idle

LEMMA StartLiveIInv ==
  ASSUME IInv, NEW mode \in {"live", "resume"}, StartLive(mode)
  PROVE  IInv'
<1> USE DEF IInv, StartLive, Starts, files
<1>1. Resumed(mode) \in [Keywords -> Answer \cup {None}]
  BY DEF Resumed, IsAnswered, TypeOK
<1>2. run' \in Run
  <2>1. [k \in Keywords |-> 0] \in [Keywords -> 0..Attempts]
    BY CollectionAssumption
  <2> QED
    BY <1>1, <2>1 DEF Idle, Run, AllModes
<1>3. /\ run'.pc = "asking"
      /\ run'.mode = mode
      /\ run'.todo = Keywords
      /\ run'.completed = {}
      /\ \A k \in Keywords : run'.attempt[k] = 0
  BY DEF Idle
<1>a. TypeOK'
  BY <1>2 DEF TypeOK
<1>4. ResumeInv'
  <2> SUFFICES ASSUME mode = "resume"
               PROVE  /\ live_response \notin {None, Torn}
                      /\ \A k \in Keywords :
                           IsAnswered(live_response[k]) =>
                             run'.liveResponses[k] = live_response[k] /\ run'.attempt[k] = 0
    BY <1>3 DEF ResumeInv
  <2> QED
    BY DEF Resumed, Idle
<1> QED
  BY <1>a, <1>3, <1>4 DEF CollectingInv, AskingInv

LEMMA SkipAnsweredIInv ==
  ASSUME IInv, NEW k \in Keywords, SkipAnswered(k)
  PROVE  IInv'
<1> USE DEF IInv, SkipAnswered, files
<1>1. TypeOK'
  BY DEF TypeOK, Run
<1> QED
  BY <1>1 DEF CollectingInv, ResumeInv, AskingInv, TypeOK, Run

LEMMA AskIInv ==
  ASSUME IInv, NEW k \in Keywords, Ask(k)
  PROVE  IInv'
<1> USE DEF IInv, Ask, files
<1>1. run' \in Run
  <2>1. [run.attempt EXCEPT ![k] = 1] \in [Keywords -> 0..Attempts]
    BY CollectionAssumption DEF TypeOK, Run
  <2>2. run' = [run EXCEPT !.todo = run.todo \ {k}, !.attempt = [run.attempt EXCEPT ![k] = 1]]
    BY DEF TypeOK, Run
  <2>3. run \in Run
    BY DEF TypeOK
  <2> QED
    BY <2>1, <2>2, <2>3 DEF Run
<1>2. bought' \in [Keywords -> Seq(TaskStates)]
  BY DEF TypeOK, TaskStates
<1>3. TypeOK'
  BY <1>1, <1>2 DEF TypeOK
<1>4. /\ run'.pc = "asking"
      /\ run'.mode = run.mode
      /\ run'.completed = run.completed
      /\ run'.todo = run.todo \ {k}
      /\ run'.attempt[k] = 1
      /\ run'.liveResponses = run.liveResponses
      /\ \A j \in Keywords : j # k => run'.attempt[j] = run.attempt[j] /\ bought'[j] = bought[j]
  BY DEF TypeOK, Run
<1>5. bought'[k] # <<>>
  BY DEF TypeOK, TaskStates
<1>6. ResumeInv'
  BY <1>4 DEF ResumeInv, IsAnswered
<1>7. AskingInv'
  BY <1>4, <1>5 DEF AskingInv
<1> QED
  BY <1>3, <1>4, <1>6, <1>7 DEF CollectingInv

LEMMA AnsweredIInv ==
  ASSUME IInv, NEW k \in Keywords, NEW ok \in BOOLEAN, Answered(k, ok)
  PROVE  IInv'
<1> USE DEF IInv, Answered, files
<1> DEFINE again == ~ok /\ run.attempt[k] < Attempts
           answer == [n |-> Len(bought[k]), ok |-> ok]
<1>1. run.attempt[k] \in 1..Attempts /\ bought[k] \in Seq(TaskStates) /\ bought[k] # <<>>
  BY DEF TypeOK, Run, InFlight, AskingInv
<1>2. answer \in Answer
  BY <1>1 DEF Answer
<1>3. (IF again THEN run.attempt[k] + 1 ELSE 0) \in 0..Attempts
  BY <1>1, CollectionAssumption
<1>4. run' \in Run
  <2> DEFINE attempt == [run.attempt EXCEPT ![k] = IF again THEN run.attempt[k] + 1 ELSE 0]
             answers == [run.liveResponses EXCEPT ![k] = answer]
  <2>1. run \in Run
    BY DEF TypeOK
  <2>2. attempt \in [Keywords -> 0..Attempts]
    BY <1>3, <2>1 DEF Run
  <2>3. answers \in [Keywords -> Answer \cup {None}]
    BY <1>2, <2>1 DEF Run
  <2>4. run' = [run EXCEPT !.attempt = attempt, !.liveResponses = answers]
    BY <2>1 DEF Run
  <2> HIDE DEF attempt, answers
  <2> QED
    BY <2>1, <2>2, <2>3, <2>4 DEF Run
<1>5. bought' \in [Keywords -> Seq(TaskStates)] /\ bought'[k] # <<>>
  <2>1. CASE again
    <3>1. Append(bought[k], "live") \in Seq(TaskStates) /\ Append(bought[k], "live") # <<>>
      BY <1>1 DEF TaskStates
    <3> QED
      BY <2>1, <3>1 DEF TypeOK
  <2>2. CASE ~again
    BY <1>1, <2>2 DEF TypeOK
  <2> QED
    BY <2>1, <2>2
<1>6. TypeOK'
  BY <1>4, <1>5 DEF TypeOK
<1>7. /\ run'.pc = "asking"
      /\ run'.mode = run.mode
      /\ run'.completed = run.completed
      /\ run'.todo = run.todo
      /\ run'.liveResponses[k] = answer
      /\ \A j \in Keywords : j # k => /\ run'.attempt[j] = run.attempt[j]
                                      /\ run'.liveResponses[j] = run.liveResponses[j]
                                      /\ bought'[j] = bought[j]
  BY DEF TypeOK, Run
<1>8. ResumeInv'
  BY <1>1, <1>7 DEF ResumeInv
<1>9. AskingInv'
  BY <1>2, <1>5, <1>7, SentinelAssumption DEF AskingInv
<1> QED
  BY <1>6, <1>7, <1>8, <1>9 DEF CollectingInv

LEMMA WriteLiveResponseIInv ==
  ASSUME IInv, WriteLiveResponse
  PROVE  IInv'
<1> USE DEF IInv, WriteLiveResponse, PoolDone
<1>1. run.liveResponses \in [Keywords -> Answer]
  BY DEF TypeOK, Run, AskingInv, InFlight
<1>2. CASE \A k \in Keywords : IsAnswered(run.liveResponses[k])
  <2> DEFINE n == [k \in Keywords |-> run.liveResponses[k].n]
             tasks == {<<k, n[k]>> : k \in Keywords}
  <2>1. n \in [Keywords -> Nat \ {0}]
    BY <1>1 DEF Answer
  <2>2. tasks \in SUBSET Task /\ OneAnswerEach(tasks)
    <3> HIDE DEF n
    <3> QED BY <2>1, OneTaskEach
  <2>3. run' = [run EXCEPT !.pc = "collecting", !.tasks = tasks]
    BY <1>2
  <2> HIDE DEF tasks
  <2>4. TypeOK'
    BY <1>1, <2>2, <2>3 DEF TypeOK, Run
  <2>5. run'.pc = "collecting" /\ run'.tasks = tasks /\ run'.completed = {}
    BY <2>3 DEF TypeOK, Run, AskingInv
  <2> QED
    BY <2>2, <2>4, <2>5 DEF CollectingInv, ResumeInv, AskingInv
<1>3. CASE ~ \A k \in Keywords : IsAnswered(run.liveResponses[k])
  <2>1. run' = Idle
    BY <1>3
  <2>2. TypeOK'
    BY <1>1, <2>1, IdleIsRun DEF TypeOK
  <2> QED
    BY <2>1, <2>2, IdleIInv
<1> QED
  BY <1>2, <1>3

LEMMA SaveLiveRawIInv ==
  ASSUME IInv, NEW t \in run.tasks, SaveLiveRaw(t)
  PROVE  IInv'
<1> USE DEF IInv, SaveLiveRaw
<1>1. run' \in Run /\ run'.pc = "collecting" /\ run'.mode = run.mode
        /\ run'.tasks = run.tasks /\ run'.completed = run.completed \cup {t}
  BY DEF TypeOK, Run
<1>2. TypeOK'
  BY <1>1 DEF TypeOK, Run
<1>3. CollectingInv'
  BY <1>1 DEF CollectingInv, QueuedOnce, OneAnswerEach
<1> QED
  BY <1>1, <1>2, <1>3 DEF ResumeInv, AskingInv

\* What is queued does not change when the state of a queued task does.
LEMMA QueuedOnceStays ==
  ASSUME TypeOK, NEW s \in {"queued", "finished"}, NEW t \in InState(s),
         NEW new \in {"finished", "collected"},
         bought' = [bought EXCEPT ![t[1]][t[2]] = new]
  PROVE  /\ bought' \in [Keywords -> Seq(TaskStates)]
         /\ QueuedOnce' => QueuedOnce
         /\ \A k \in Keywords : Len(bought'[k]) = Len(bought[k])
<1>1. t[1] \in Keywords /\ t[2] \in DOMAIN bought[t[1]] /\ bought[t[1]][t[2]] # "live"
  BY DEF InState, Tasks
<1>2. bought \in [Keywords -> Seq(TaskStates)] /\ new \in TaskStates
  BY DEF TypeOK, TaskStates
<1> DEFINE tasks == [bought[t[1]] EXCEPT ![t[2]] = new]
<1>3. /\ tasks \in Seq(TaskStates)
      /\ Len(tasks) = Len(bought[t[1]])
      /\ DOMAIN tasks = DOMAIN bought[t[1]]
      /\ \A n \in DOMAIN tasks : tasks[n] = IF n = t[2] THEN new ELSE bought[t[1]][n]
  BY <1>1, <1>2
<1>4. bought' = [bought EXCEPT ![t[1]] = tasks]
  BY <1>1, <1>2
<1> HIDE DEF tasks
<1>5. \A k \in Keywords : bought'[k] = IF k = t[1] THEN tasks ELSE bought[k]
  BY <1>1, <1>2, <1>4
<1>6. bought' \in [Keywords -> Seq(TaskStates)]
  BY <1>2, <1>3, <1>4
<1>7. \A k \in Keywords : Len(bought'[k]) = Len(bought[k]) /\ DOMAIN bought'[k] = DOMAIN bought[k]
  BY <1>3, <1>5
<1>8. \A k \in Keywords : \A n \in DOMAIN bought[k] :
        bought[k][n] # "live" => bought'[k][n] # "live"
  BY <1>3, <1>5
<1> QED
  BY <1>6, <1>7, <1>8 DEF QueuedOnce

LEMMA StartStandardIInv ==
  ASSUME IInv, NEW rejected \in SUBSET Keywords, StartStandard(rejected)
  PROVE  IInv'
<1> USE DEF IInv, StartStandard, Starts, files
<1>1. /\ bought' \in [Keywords -> Seq(TaskStates)]
      /\ \A k \in Keywords \ rejected : Len(bought'[k]) \in Nat \ {0}
  BY DEF TypeOK, TaskStates
<1>2. CASE rejected = {}
  <2> DEFINE n == [k \in Keywords |-> Len(bought'[k])]
             tasks == {<<k, n[k]>> : k \in Keywords}
  <2>1. n \in [Keywords -> Nat \ {0}]
    BY <1>1, <1>2
  <2>2. tasks \in SUBSET Task /\ OneAnswerEach(tasks)
    <3> HIDE DEF n
    <3> QED BY <2>1, OneTaskEach
  <2>3. run' = [Idle EXCEPT !.pc = "collecting", !.mode = "standard", !.tasks = tasks]
    BY <1>2
  <2> HIDE DEF tasks
  <2>4. run' \in Run
    BY <2>2, <2>3, IdleIsRun DEF Run, AllModes
  <2>5. run'.pc = "collecting" /\ run'.tasks = tasks /\ run'.completed = {}
    BY <2>3 DEF Idle
  <2>6. TypeOK'
    BY <1>1, <2>4 DEF TypeOK
  <2> QED
    BY <2>2, <2>5, <2>6 DEF CollectingInv, ResumeInv, AskingInv
<1>3. CASE rejected # {}
  <2>1. TypeOK'
    BY <1>1, <1>3, IdleIsRun DEF TypeOK
  <2> QED
    BY <1>3, <2>1, IdleIInv
<1> QED
  BY <1>2, <1>3

LEMMA StartRecoverIInv ==
  ASSUME IInv, StartRecover
  PROVE  IInv'
<1> USE DEF IInv, StartRecover, Starts, files
<1> DEFINE tasks == InState("finished")
<1>1. tasks \in SUBSET Task
  BY DEF InState, Tasks, Task, TypeOK
<1>2. QueuedOnce => OneAnswerEach(tasks)
  BY <1>1, FinishedAreDistinct, AsManyAnswersAsKeywords
<1>3. run' = [Idle EXCEPT !.pc = "collecting", !.mode = "recover", !.tasks = tasks]
  OBVIOUS
<1> HIDE DEF tasks
<1>4. run' \in Run
  BY <1>1, <1>3, IdleIsRun DEF Run, AllModes
<1>5. run'.pc = "collecting" /\ run'.tasks = tasks /\ run'.completed = {}
  BY <1>3 DEF Idle
<1>6. TypeOK'
  BY <1>4 DEF TypeOK
<1>7. QueuedOnce' => QueuedOnce
  BY DEF QueuedOnce
<1> QED
  BY <1>2, <1>5, <1>6, <1>7 DEF CollectingInv, ResumeInv, AskingInv, OneAnswerEach

LEMMA CollectResultIInv ==
  ASSUME IInv, NEW t \in run.tasks, CollectResult(t)
  PROVE  IInv'
<1> USE DEF IInv
<1>1. bought' \in [Keywords -> Seq(TaskStates)] /\ (QueuedOnce' => QueuedOnce)
  BY QueuedOnceStays DEF CollectResult
<1>2. run' \in Run /\ run'.pc = "collecting" /\ run'.mode = run.mode
        /\ run'.tasks = run.tasks /\ run'.completed = run.completed \cup {t}
  BY DEF TypeOK, Run, CollectResult, Polling
<1>3. TypeOK'
  BY <1>1, <1>2 DEF TypeOK, Run, CollectResult
<1>4. CollectingInv'
  BY <1>1, <1>2 DEF CollectingInv, OneAnswerEach, CollectResult, Polling
<1> QED
  BY <1>2, <1>3, <1>4 DEF ResumeInv, AskingInv

LEMMA ProviderFinishesIInv ==
  ASSUME IInv, NEW t \in InState("queued"), ProviderFinishes(t)
  PROVE  IInv'
<1> USE DEF IInv, ProviderFinishes, files
<1>1. /\ bought' \in [Keywords -> Seq(TaskStates)]
      /\ QueuedOnce' => QueuedOnce
      /\ \A k \in Keywords : Len(bought'[k]) = Len(bought[k])
  BY QueuedOnceStays
<1>2. TypeOK'
  BY <1>1 DEF TypeOK
<1>3. CollectingInv'
  BY <1>1 DEF CollectingInv, OneAnswerEach
<1>4. AskingInv'
  BY <1>1 DEF AskingInv, TypeOK
<1> QED
  BY <1>2, <1>3, <1>4 DEF ResumeInv

\* The steps that end the script.
LEMMA EndIInv ==
  ASSUME IInv, DeadlinePasses \/ WriteResult \/ RequestFails \/ Crash
  PROVE  IInv'
<1> USE DEF IInv
<1>1. run' = Idle
  BY DEF DeadlinePasses, WriteResult, RequestFails, Crash
<1>2. TypeOK'
  BY <1>1, IdleIsRun
  DEF TypeOK, Run, DeadlinePasses, WriteResult, RequestFails, Crash, files
<1> QED
  BY <1>1, <1>2, IdleIInv

LEMMA NextIInv == IInv /\ [Next]_vars => IInv'
<1> SUFFICES ASSUME IInv, [Next]_vars PROVE IInv'
  OBVIOUS
<1>1. ASSUME NEW mode \in {"live", "resume"}, StartLive(mode) PROVE IInv'
  BY <1>1, StartLiveIInv
<1>2. ASSUME NEW rejected \in SUBSET Keywords, StartStandard(rejected) PROVE IInv'
  BY <1>2, StartStandardIInv
<1>3. CASE StartRecover
  BY <1>3, StartRecoverIInv
<1>4. CASE RunStep
  <2>1. ASSUME NEW k \in Keywords,
               SkipAnswered(k) \/ Ask(k) \/ (\E ok \in BOOLEAN : Answered(k, ok))
        PROVE  IInv'
    BY <2>1, SkipAnsweredIInv, AskIInv, AnsweredIInv
  <2>2. ASSUME NEW t \in run.tasks, SaveLiveRaw(t) \/ CollectResult(t) PROVE IInv'
    BY <2>2, SaveLiveRawIInv, CollectResultIInv
  <2> QED
    BY <1>4, <2>1, <2>2, WriteLiveResponseIInv, EndIInv DEF RunStep
<1>5. CASE RequestFails \/ Crash
  BY <1>5, EndIInv
<1>6. ASSUME NEW t \in InState("queued"), ProviderFinishes(t) PROVE IInv'
  BY <1>6, ProviderFinishesIInv
<1>7. CASE UNCHANGED vars
  BY <1>7 DEF vars, files, IInv, TypeOK, CollectingInv, ResumeInv, AskingInv, QueuedOnce,
              OneAnswerEach
<1> QED
  BY <1>1, <1>2, <1>3, <1>4, <1>5, <1>6, <1>7 DEF Next

LEMMA Inductive == Spec => []IInv
BY InitIInv, NextIInv, PTL DEF Spec

\* The provider, the files and the script keep their shape.
THEOREM CollectionTypeCorrect == Spec => []TypeOK
<1>1. IInv => TypeOK
  BY DEF IInv
<1> QED
  BY <1>1, Inductive, PTL

(***************************************************************************)
(* A result is written only by WriteResult, from what was collected.       *)
(***************************************************************************)
LEMMA ResultStep ==
  ASSUME IInv, [Next]_vars, result' \notin {result, Torn}
  PROVE  /\ run.pc = "collecting"
         /\ result' \subseteq raw'
         /\ (run.mode = "recover" => QueuedOnce) => OneAnswerEach(result')
<1>1. WriteResult
  BY DEF Next, RunStep, StartLive, StartStandard, StartRecover, SkipAnswered, Ask, Answered,
         WriteLiveResponse, SaveLiveRaw, CollectResult, DeadlinePasses, RequestFails, Crash,
         ProviderFinishes, files, vars
<1> QED
  BY <1>1 DEF IInv, CollectingInv, WriteResult

\* A result names one answer with a raw file for each keyword, whatever the
\* provider answered and wherever earlier executions were cut off.
THEOREM ResultsWhole == Spec => ResultsAreWhole
<1>1. IInv /\ [Next]_vars =>
        (result' \notin {result, Torn} =>
           /\ result' \subseteq raw'
           /\ (run.mode = "recover" => QueuedOnce) => OneAnswerEach(result'))
  BY ResultStep
<1> QED
  BY <1>1, Inductive, PTL DEF Spec, ResultsAreWhole

(***************************************************************************)
(* Steps of a resumed script, for an answer the file holds.                *)
(***************************************************************************)
LEMMA ResumeStep ==
  ASSUME IInv, [Next]_vars, NEW k \in Keywords,
         run.mode = "resume", run.pc # "idle",
         live_response \notin {None, Torn}, IsAnswered(live_response[k])
  PROVE  /\ Len(bought'[k]) = Len(bought[k])
         /\ live_response' = Torn \/ live_response'[k] = live_response[k]
<1> USE DEF IInv
<1>1. run.pc = "asking" => run.liveResponses[k] = live_response[k] /\ run.attempt[k] = 0
  BY DEF ResumeInv
<1>2. CASE \/ \E j \in Keywords : SkipAnswered(j)
           \/ \E t \in run.tasks : SaveLiveRaw(t)
           \/ DeadlinePasses \/ WriteResult \/ RequestFails \/ Crash \/ UNCHANGED vars
  BY <1>2 DEF SkipAnswered, SaveLiveRaw, DeadlinePasses, WriteResult, RequestFails, Crash,
              vars, files
<1>3. ASSUME NEW j \in Keywords, Ask(j) PROVE j # k
  BY <1>1, <1>3 DEF Ask, IsAnswered
<1>4. ASSUME NEW j \in Keywords, NEW ok \in BOOLEAN, Answered(j, ok) PROVE j # k
  BY <1>1, <1>4 DEF Answered, InFlight
<1>5. CASE \E j \in Keywords : Ask(j) \/ \E ok \in BOOLEAN : Answered(j, ok)
  BY <1>3, <1>4, <1>5 DEF Ask, Answered, files, TypeOK
<1>6. CASE WriteLiveResponse
  BY <1>1, <1>6 DEF WriteLiveResponse, PoolDone
<1>7. ASSUME NEW t \in InState("queued"), ProviderFinishes(t)
      PROVE  live_response' = live_response /\ Len(bought'[k]) = Len(bought[k])
  BY <1>7, QueuedOnceStays DEF ProviderFinishes, files
<1>8. ~StartRecover /\ \A t \in run.tasks : ~CollectResult(t)
  BY DEF StartRecover, Starts, CollectResult, Polling
<1>9. /\ \A mode \in {"live", "resume"} : ~StartLive(mode)
      /\ \A rejected \in SUBSET Keywords : ~StartStandard(rejected)
  BY DEF StartLive, StartStandard, Starts
<1> QED
  BY <1>2, <1>5, <1>6, <1>7, <1>8, <1>9 DEF Next, RunStep

\* A resume pays for no answer the file holds and does not lose it.
THEOREM ResumeKeeps == Spec => ResumeKeepsWhatWasBought
<1> DEFINE Kept ==
      \A k \in Keywords :
        (/\ run.mode = "resume" /\ run.pc # "idle"
         /\ live_response \notin {None, Torn} /\ IsAnswered(live_response[k])) =>
          /\ Len(bought'[k]) = Len(bought[k])
          /\ live_response' = Torn \/ live_response'[k] = live_response[k]
<1>1. IInv /\ [Next]_vars => Kept
  BY ResumeStep
<1> QED
  BY <1>1, Inductive, PTL DEF Spec, ResumeKeepsWhatWasBought

(***************************************************************************)
(* Without recovery the result is unique in each keyword (with it, it need *)
(* not be).                                                                *)
(***************************************************************************)
ModeInv == run.pc # "idle" => run.mode \in Modes

LEMMA ModeStep == ModeInv /\ IInv /\ [Next]_vars => ModeInv'
<1> SUFFICES ASSUME ModeInv, IInv, [Next]_vars PROVE ModeInv'
  OBVIOUS
<1> USE DEF ModeInv, IInv, TypeOK, Run
<1>1. ASSUME NEW mode \in {"live", "resume"}, StartLive(mode) PROVE ModeInv'
  BY <1>1 DEF StartLive, Starts, Idle
<1>2. ASSUME NEW rejected \in SUBSET Keywords, StartStandard(rejected) PROVE ModeInv'
  BY <1>2 DEF StartStandard, Starts, Idle
<1>3. CASE StartRecover
  BY <1>3 DEF StartRecover, Starts, Idle
<1>4. ASSUME NEW k \in Keywords,
             SkipAnswered(k) \/ Ask(k) \/ (\E ok \in BOOLEAN : Answered(k, ok))
      PROVE  ModeInv'
  BY <1>4 DEF SkipAnswered, Ask, Answered
<1>5. CASE WriteLiveResponse
  BY <1>5 DEF WriteLiveResponse, PoolDone, Idle
<1>6. ASSUME NEW t \in run.tasks, SaveLiveRaw(t) \/ CollectResult(t) PROVE ModeInv'
  BY <1>6 DEF SaveLiveRaw, CollectResult, Polling
<1>7. CASE DeadlinePasses \/ WriteResult \/ RequestFails \/ Crash
  BY <1>7 DEF DeadlinePasses, WriteResult, RequestFails, Crash, Idle
<1>8. ASSUME NEW t \in InState("queued"), ProviderFinishes(t) PROVE ModeInv'
  BY <1>8 DEF ProviderFinishes
<1>9. CASE UNCHANGED vars
  BY <1>9 DEF vars
<1> QED
  BY <1>1, <1>2, <1>3, <1>4, <1>5, <1>6, <1>7, <1>8, <1>9 DEF Next, RunStep

\* Where no execution recovers, each keyword is reported exactly once.
THEOREM UniqueWithoutRecovery ==
  ASSUME "recover" \notin Modes
  PROVE  Spec => []OneResultPerKeyword
<1> DEFINE Inv == ModeInv /\ OneResultPerKeyword
<1>1. Init => Inv
  BY DEF Init, ModeInv, Idle, OneResultPerKeyword
<1>2. IInv /\ Inv /\ [Next]_vars => Inv'
  <2> SUFFICES ASSUME IInv, Inv, [Next]_vars PROVE Inv'
    OBVIOUS
  <2>1. ModeInv'
    BY ModeStep
  <2>2. CASE result' \in {result, Torn}
    BY <2>1, <2>2 DEF OneResultPerKeyword, OneAnswerEach
  <2>3. CASE result' \notin {result, Torn}
    <3>1. run.mode # "recover"
      BY <2>3, ResultStep DEF ModeInv
    <3> QED
      BY <2>1, <2>3, <3>1, ResultStep DEF OneResultPerKeyword, OneAnswerEach
  <2> QED
    BY <2>2, <2>3
<1>3. Inv => OneResultPerKeyword
  OBVIOUS
<1> QED
  BY <1>1, <1>2, <1>3, Inductive, PTL DEF Spec
=============================================================================
