----------------------- MODULE KeywordSerpCollection -----------------------
(***************************************************************************)
(* The collection of search results for a list of keywords,                *)
(* scripts/poc-keyword-serp.mjs: one script, started again and again on    *)
(* one output directory, in one of four modes.                             *)
(*                                                                         *)
(*   live      a pool of workers asks for each keyword, up to three times  *)
(*   resume    the same, starting from the answers of live-response.json   *)
(*   standard  one POST queues all keywords, then the results are polled   *)
(*   recover   the finished tasks of earlier POSTs are polled              *)
(*                                                                         *)
(* The provider is external.  It keeps a task for every keyword it was     *)
(* asked for and charges each; what a task cost goes wherever its id goes, *)
(* so a charge is known by its task.  A task is <<keyword, n>>, the n-th   *)
(* that was ever bought for the keyword.  task-post.json and               *)
(* task-manifest.json are written and never read.                          *)
(***************************************************************************)
EXTENDS Naturals, Sequences, FiniteSets

CONSTANTS
  Keywords,          \* the input: source_keyword_id of each row
  Workers,           \* min(10, input.length)
  Attempts,          \* requests per keyword in one execution: 3
  Modes,             \* the modes the script is started in
  MaxStarts,         \* bound on the executions
  None, Torn

AllModes == {"live", "resume", "standard", "recover"}

ASSUME CollectionAssumption ==
  /\ IsFiniteSet(Keywords) /\ Keywords # {}
  /\ Workers \in Nat \ {0}
  /\ Attempts \in Nat \ {0}
  /\ Modes \subseteq AllModes

VARIABLES
  bought,            \* the provider's tasks for each keyword, in order
  live_response,     \* live-response.json: the answers of the last live pool
  raw,               \* the tasks with a readable file raw/<task id>.json
  result,            \* result.json: the tasks it reports
  run,               \* the script
  starts             \* how often it was started

files == <<live_response, raw, result>>
vars == <<bought, files, run, starts>>

Task == Keywords \X (Nat \ {0})
TaskStates == {"live", "queued", "finished", "collected"}
Answer == [n : Nat \ {0}, ok : BOOLEAN]
Run == [pc : {"idle", "asking", "collecting"}, mode : AllModes, todo : SUBSET Keywords,
        attempt : [Keywords -> 0..Attempts], liveResponses : [Keywords -> Answer \cup {None}],
        tasks : SUBSET Task, completed : SUBSET Task]

ASSUME SentinelAssumption == None \notin Answer

NoAnswers == [k \in Keywords |-> None]
Idle == [pc |-> "idle", mode |-> "live", todo |-> {}, attempt |-> [k \in Keywords |-> 0],
         liveResponses |-> NoAnswers, tasks |-> {}, completed |-> {}]

Init ==
  /\ bought = [k \in Keywords |-> <<>>]
  /\ live_response = None
  /\ raw = {}
  /\ result = None
  /\ run = Idle
  /\ starts = 0

\* The provider's tasks, and those in one state.
Tasks == UNION {{k} \X DOMAIN bought[k] : k \in Keywords}
InState(s) == {t \in Tasks : bought[t[1]][t[2]] = s}
IsAnswered(answer) == answer # None /\ answer.ok

Starts(mode) ==
  /\ run.pc = "idle"
  /\ mode \in Modes
  /\ starts < MaxStarts
  /\ starts' = starts + 1

-----------------------------------------------------------------------------
(* Live: the pool                                                          *)

\* Faulty variant: the file is read and then not used.
ResumedNothing(mode) == NoAnswers

\* Of an earlier pool only the answers with status 20000 are taken over.
Resumed(mode) ==
  [k \in Keywords |->
     IF mode = "resume" /\ IsAnswered(live_response[k]) THEN live_response[k] ELSE None]

StartLive(mode) ==
  /\ Starts(mode)
  /\ mode \in {"live", "resume"}
  /\ mode = "resume" => live_response \notin {None, Torn}
  /\ run' = [Idle EXCEPT !.pc = "asking", !.mode = mode, !.todo = Keywords,
                         !.liveResponses = Resumed(mode)]
  /\ UNCHANGED <<bought, files>>

InFlight == {k \in Keywords : run.attempt[k] > 0}

SkipAnswered(k) ==
  /\ run.pc = "asking"
  /\ k \in run.todo
  /\ Cardinality(InFlight) < Workers
  /\ run.liveResponses[k] # None
  /\ run' = [run EXCEPT !.todo = @ \ {k}]
  /\ UNCHANGED <<bought, files, starts>>

\* The request is charged whether or not its answer is ever seen.
Ask(k) ==
  /\ run.pc = "asking"
  /\ k \in run.todo
  /\ Cardinality(InFlight) < Workers
  /\ run.liveResponses[k] = None
  /\ run' = [run EXCEPT !.todo = @ \ {k}, !.attempt[k] = 1]
  /\ bought' = [bought EXCEPT ![k] = Append(@, "live")]
  /\ UNCHANGED <<files, starts>>

\* Faulty variant: one request more than allowed.
AnsweredOnceMore(k, ok) ==
  /\ run.pc = "asking"
  /\ k \in InFlight
  /\ LET again == ~ok /\ run.attempt[k] <= Attempts IN
     /\ run' = [run EXCEPT !.attempt[k] = IF again THEN @ + 1 ELSE 0,
                           !.liveResponses[k] = [n |-> Len(bought[k]), ok |-> ok]]
     /\ bought' = IF again THEN [bought EXCEPT ![k] = Append(@, "live")] ELSE bought
  /\ UNCHANGED <<files, starts>>

\* The answer overwrites the one before; a failed one is asked for again.
Answered(k, ok) ==
  /\ run.pc = "asking"
  /\ k \in InFlight
  /\ LET again == ~ok /\ run.attempt[k] < Attempts IN
     /\ run' = [run EXCEPT !.attempt[k] = IF again THEN @ + 1 ELSE 0,
                           !.liveResponses[k] = [n |-> Len(bought[k]), ok |-> ok]]
     /\ bought' = IF again THEN [bought EXCEPT ![k] = Append(@, "live")] ELSE bought
  /\ UNCHANGED <<files, starts>>

PoolDone == run.pc = "asking" /\ run.todo = {} /\ InFlight = {}

\* The answers are kept, and then the script throws if one of them failed.
WriteLiveResponse ==
  /\ PoolDone
  /\ live_response' = run.liveResponses
  /\ run' = IF \A k \in Keywords : IsAnswered(run.liveResponses[k])
              THEN [run EXCEPT !.pc = "collecting",
                               !.tasks = {<<k, run.liveResponses[k].n>> : k \in Keywords}]
              ELSE Idle
  /\ UNCHANGED <<bought, raw, result, starts>>

SaveLiveRaw(t) ==
  /\ run.pc = "collecting"
  /\ run.mode \in {"live", "resume"}
  /\ t \in run.tasks \ run.completed
  /\ raw' = raw \cup {t}
  /\ run' = [run EXCEPT !.completed = @ \cup {t}]
  /\ UNCHANGED <<bought, live_response, result, starts>>

-----------------------------------------------------------------------------
(* Standard and recover: the queue                                         *)

\* The provider queues what it accepts; a rejection ends the script.
StartStandard(rejected) ==
  /\ Starts("standard")
  /\ bought' = [k \in Keywords |-> IF k \in rejected THEN bought[k]
                                                     ELSE Append(bought[k], "queued")]
  /\ run' = IF rejected = {}
              THEN [Idle EXCEPT !.pc = "collecting", !.mode = "standard",
                                !.tasks = {<<k, Len(bought'[k])>> : k \in Keywords}]
              ELSE Idle
  /\ UNCHANGED files

\* tasks_ready lists the finished tasks nobody has collected; there must be
\* as many of them as there are keywords.
StartRecover ==
  /\ Starts("recover")
  /\ Cardinality(InState("finished")) = Cardinality(Keywords)
  /\ run' = [Idle EXCEPT !.pc = "collecting", !.mode = "recover", !.tasks = InState("finished")]
  /\ UNCHANGED <<bought, files>>

Polling == run.pc = "collecting" /\ run.mode \in {"standard", "recover"}

CollectResult(t) ==
  /\ Polling
  /\ t \in run.tasks \ run.completed
  /\ t \in InState("finished")
  /\ bought' = [bought EXCEPT ![t[1]][t[2]] = "collected"]
  /\ raw' = raw \cup {t}
  /\ run' = [run EXCEPT !.completed = @ \cup {t}]
  /\ UNCHANGED <<live_response, result, starts>>

\* Faulty variant: the time starts with the first result.
DeadlinePassesAfterAny ==
  /\ Polling
  /\ run.completed # {}
  /\ run.completed # run.tasks
  /\ run' = Idle
  /\ UNCHANGED <<bought, files, starts>>

DeadlinePasses ==
  /\ Polling
  /\ run.completed # run.tasks
  /\ run' = Idle
  /\ UNCHANGED <<bought, files, starts>>

-----------------------------------------------------------------------------
\* Faulty variant: what has been collected when the time is over is reported.
WriteResultOfAny ==
  /\ run.pc = "collecting"
  /\ run.completed # {}
  /\ result' = run.completed
  /\ run' = Idle
  /\ UNCHANGED <<bought, live_response, raw, starts>>

WriteResult ==
  /\ run.pc = "collecting"
  /\ run.completed = run.tasks
  /\ result' = run.completed
  /\ run' = Idle
  /\ UNCHANGED <<bought, live_response, raw, starts>>

\* One failed request ends the script, the requests of the other workers with it.
RequestFails ==
  /\ \/ run.pc = "asking" /\ InFlight # {}
     \/ Polling /\ run.completed # run.tasks
  /\ run' = Idle
  /\ UNCHANGED <<bought, files, starts>>

\* The process dies; the file it was writing may stay torn.
Crash ==
  /\ run.pc # "idle"
  /\ run' = Idle
  /\ \/ UNCHANGED files
     \/ PoolDone /\ live_response' = Torn /\ UNCHANGED <<raw, result>>
     \/ /\ run.pc = "collecting"
        /\ \E t \in run.tasks \ run.completed :
             /\ Polling => t \in InState("finished")
             /\ raw' = raw \ {t}
        /\ UNCHANGED <<live_response, result>>
     \/ /\ run.pc = "collecting"
        /\ run.completed = run.tasks
        /\ result' = Torn
        /\ UNCHANGED <<live_response, raw>>
  /\ UNCHANGED <<bought, starts>>

ProviderFinishes(t) ==
  /\ t \in InState("queued")
  /\ bought' = [bought EXCEPT ![t[1]][t[2]] = "finished"]
  /\ UNCHANGED <<files, run, starts>>

RunStep ==
  \/ \E k \in Keywords :
       SkipAnswered(k) \/ Ask(k) \/ (\E ok \in BOOLEAN : Answered(k, ok))
  \/ WriteLiveResponse
  \/ \E t \in run.tasks : SaveLiveRaw(t) \/ CollectResult(t)
  \/ DeadlinePasses
  \/ WriteResult

Next ==
  \/ \E mode \in {"live", "resume"} : StartLive(mode)
  \/ \E rejected \in SUBSET Keywords : StartStandard(rejected)
  \/ StartRecover
  \/ RunStep
  \/ RequestFails
  \/ Crash
  \/ \E t \in InState("queued") : ProviderFinishes(t)

Spec == Init /\ [][Next]_vars

\* A script that was started runs on: requests are answered or fail, and the
\* clock reaches the deadline.
Fairness == WF_vars(RunStep)

FairSpec == Spec /\ Fairness

-----------------------------------------------------------------------------
\* The provider, the files and the script have the shape the model gives them.
TypeOK ==
  /\ bought \in [Keywords -> Seq(TaskStates)]
  /\ live_response \in [Keywords -> Answer] \cup {None, Torn}
  /\ raw \subseteq Task
  /\ result \in (SUBSET Task) \cup {None, Torn}
  /\ run \in Run
  /\ starts \in Nat

OneAnswerEach(tasks) ==
  \A k \in Keywords :
    \E t \in tasks : t[1] = k /\ \A u \in tasks : u[1] = k => u = t

\* The result file reports each keyword exactly once (verify-poc-evidence.mjs
\* asserts of it that "source keyword IDs must be unique").
OneResultPerKeyword == result \notin {None, Torn} => OneAnswerEach(result)

\* No keyword was ever queued twice.
QueuedOnce ==
  \A k \in Keywords : \A n, m \in DOMAIN bought[k] :
    bought[k][n] # "live" /\ bought[k][m] # "live" => n = m

\* A result is written when every keyword has its one answer with a raw file,
\* or not at all: not after a deadline, a failed answer or a partial recovery
\* (l.104, l.113, l.150).  Recovery is sure of it while no keyword was queued twice.
ResultsAreWhole ==
  [][result' \notin {result, Torn} =>
       /\ result' \subseteq raw'
       /\ (run.mode = "recover" => QueuedOnce) => OneAnswerEach(result')]_vars

\* A resume neither pays again for an answer that live-response.json holds nor
\* loses it, however the resumed execution ends (l.47-54, l.60, l.82).
ResumeKeepsWhatWasBought ==
  [][\A k \in Keywords :
       (/\ run.mode = "resume" /\ run.pc # "idle"
        /\ live_response \notin {None, Torn} /\ IsAnswered(live_response[k])) =>
         /\ Len(bought'[k]) = Len(bought[k])
         /\ live_response' = Torn \/ live_response'[k] = live_response[k]]_vars

\* Every execution ends, whatever the provider leaves unfinished.
ExecutionsEnd == run.pc # "idle" ~> run.pc = "idle"
=============================================================================
