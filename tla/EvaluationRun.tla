--------------------------- MODULE EvaluationRun ---------------------------
(***************************************************************************)
(* backend/evaluation: run_all.py runs the retrieval evaluation and then,  *)
(* case by case, the two agents, whose results it keeps in a checkpoint    *)
(* file per agent (utils.py) so that a run that is killed can be resumed.  *)
(* The delayed-order agent is the graph of DelayedOrderGraph, run here as  *)
(* it runs in the worker; the triage agent is one LLM call.  Of the        *)
(* measures of a decision one is kept: is it what the dataset expects?     *)
(***************************************************************************)
EXTENDS DelayedOrderGraph, FiniteSets

CONSTANTS Size,        \* how many cases the dataset of each agent has
          Limits,      \* values of EVAL_LIMIT; one as large as a dataset is none
          MaxRetries,  \* EVAL_MAX_RETRIES
          Expected,    \* the severity each delayed-order case should get
          Share,       \* a gate: Share[1] of Share[2] cases at least are right
          MaxKills     \* bound: runs killed, and lines cut short

Agents == {"delayed_order", "triage"}

ASSUME EvaluationAssumption ==
  /\ Size \in [Agents -> Nat] /\ Limits \subseteq Nat \ {0}
  /\ MaxRetries \in Nat /\ MaxKills \in Nat
  /\ Expected \in [1..Size["delayed_order"] -> Severities]
  /\ Share \in (Nat \ {0}) \X (Nat \ {0})

VARIABLES
  pc,        \* "idle" between runs
  limit, agent, case, attempt,
  memory,    \* checkpoint._done of the agent: case to "is it right?"
  tally,     \* [completed, correct, failed] of each agent
  metrics,   \* do the gates of the retrieval evaluation pass?
  file,      \* the records written to each checkpoint file
  ending,    \* how it ends: "clean", "unended" (no newline) or "torn"
  kills,
  answers,   \* history: answers to each case since the last reset
  lost,      \*   those a run that was ended did not get to write down
  cut        \*   a line was cut short

run       == <<limit, agent, case, attempt>>
disk      == <<file, ending>>
paid      == <<answers, lost, cut>>
graphVars == vars
evalVars  == <<pc, run, memory, tally, metrics, disk, kills, paid>>

Empty == [c \in {} |-> FALSE]
Zero  == [completed |-> 0, correct |-> 0, failed |-> 0]
Cases(a) == {c \in 1..Size[a] : c <= limit}

\* One more record; of two with the same id the later one counts.
Recorded(done, c, right) == [d \in DOMAIN done \cup {c} |-> IF d = c THEN right ELSE done[d]]

\* json.loads raises on a line cut short, or on two written as one.
Readable(a) == ending[a] # "torn"

EvalInit ==
  /\ Init
  /\ pc = "idle"
  /\ limit = 0 /\ agent = "delayed_order" /\ case = 0 /\ attempt = 0
  /\ memory = Empty
  /\ tally = [a \in Agents |-> Zero]
  /\ metrics = FALSE
  /\ file = [a \in Agents |-> Empty]
  /\ ending = [a \in Agents |-> "clean"]
  /\ kills = 0
  /\ answers = [a \in Agents |-> [c \in 1..Size[a] |-> 0]]
  /\ lost = 0 /\ cut = FALSE

-----------------------------------------------------------------------------

\* The state a case's graph starts in.
NewGraph ==
  /\ node' = "agent" /\ tool_iterations' = 0 /\ decision' = None
  /\ reply' = [toolCalls |-> FALSE, content |-> None]
  /\ llm_call_count' = 0 /\ calls' = 0

\* The process is over; what it held in memory is gone.
Exit ==
  /\ pc' = "idle"
  /\ limit' = 0 /\ agent' = "delayed_order" /\ case' = 0 /\ attempt' = 0
  /\ memory' = Empty
  /\ tally' = [a \in Agents |-> Zero]
  /\ metrics' = FALSE
  /\ NewGraph

\* make evaluate, make evaluate-quick
Run ==
  /\ pc = "idle"
  /\ \E l \in Limits : limit' = l
  /\ pc' = "retrieval"
  /\ UNCHANGED <<graphVars, agent, case, attempt, memory, tally, metrics, disk, kills, paid>>

\* evaluate(), and evaluate_faithfulness() if asked for; whatever they raise,
\* a judge's score that is not a number included, ends the run.
Retrieval ==
  /\ pc = "retrieval"
  /\ \/ /\ \E passed \in BOOLEAN : metrics' = passed
        /\ pc' = "load"
        /\ UNCHANGED <<graphVars, run, memory, tally>>
     \/ Exit
  /\ UNCHANGED <<disk, kills, paid>>

\* Planted bug: the checkpoint is written but not read.
LoadNothing ==
  /\ pc = "load"
  /\ memory' = Empty /\ case' = 1 /\ pc' = "case"
  /\ UNCHANGED <<graphVars, limit, agent, attempt, tally, metrics, disk, kills, paid>>

\* Checkpoint(name)
Load ==
  /\ pc = "load"
  /\ IF Readable(agent)
       THEN /\ memory' = file[agent] /\ case' = 1 /\ pc' = "case"
            /\ UNCHANGED <<graphVars, limit, agent, attempt, tally, metrics>>
       ELSE Exit
  /\ UNCHANGED <<disk, kills, paid>>

\* One more case evaluated.
Counted(t, right) ==
  [t EXCEPT !.completed = @ + 1, !.correct = IF right THEN @ + 1 ELSE @]

NextCase == case' = case + 1 /\ pc' = "case"

\* checkpoint.get has it.
UseCached ==
  /\ pc = "case" /\ case \in Cases(agent) \cap DOMAIN memory
  /\ tally' = [tally EXCEPT ![agent] = Counted(@, memory[case])]
  /\ NextCase
  /\ UNCHANGED <<graphVars, limit, agent, attempt, memory, metrics, disk, kills, paid>>

\* _run_scenario
Ask ==
  /\ pc = "case" /\ case \in Cases(agent) \ DOMAIN memory
  /\ pc' = "asking" /\ attempt' = 0
  /\ NewGraph
  /\ UNCHANGED <<limit, agent, case, memory, tally, metrics, disk, kills, paid>>

\* A step of delayed_order_graph.invoke
Invoke ==
  /\ pc = "asking" /\ agent = "delayed_order"
  /\ Next
  /\ UNCHANGED evalVars

\* The invocation returns.  checkpoint.record has it in memory first.
Answered ==
  LET outcomes == IF agent = "triage" THEN BOOLEAN
                  ELSE {decision.severity = Expected[case]} IN
  /\ pc = "asking"
  /\ agent = "delayed_order" => node = "end"
  /\ \E right \in outcomes : memory' = Recorded(memory, case, right)
  /\ answers' = [answers EXCEPT ![agent][case] = @ + 1]
  /\ pc' = "recording"
  /\ NewGraph
  /\ UNCHANGED <<run, tally, metrics, disk, kills, lost, cut>>

Raised == pc = "asking" /\ (agent = "delayed_order" => node = "raised")

\* Planted bug: it is retried whatever it was, as often as it likes.
RetryForever ==
  /\ Raised
  /\ NewGraph
  /\ UNCHANGED evalVars

\* retry_with_backoff, after a rate-limit error.
Retry ==
  /\ Raised /\ attempt < MaxRetries
  /\ attempt' = attempt + 1
  /\ NewGraph
  /\ UNCHANGED <<pc, limit, agent, case, memory, tally, metrics, disk, kills, paid>>

\* Any other error, or one rate limit too many: the case has failed.
Fail ==
  /\ Raised
  /\ tally' = [tally EXCEPT ![agent].failed = @ + 1]
  /\ NextCase
  /\ NewGraph
  /\ UNCHANGED <<limit, agent, attempt, memory, metrics, disk, kills, paid>>

\* Planted bug: lines without their newline.
UnendedLine ==
  IF ending[agent] = "clean" THEN "unended" ELSE "torn"

\* A line appended to one that has lost its newline is one with it.
EndedLine ==
  IF ending[agent] = "clean" THEN "clean" ELSE "torn"

WriteLine ==
  /\ pc = "recording"
  /\ file' = [file EXCEPT ![agent] = Recorded(@, case, memory[case])]
  /\ ending' = [ending EXCEPT ![agent] = EndedLine]
  /\ tally' = [tally EXCEPT ![agent] = Counted(@, memory[case])]
  /\ NextCase
  /\ UNCHANGED <<graphVars, limit, agent, attempt, memory, metrics, kills, paid>>

Kill == kills < MaxKills /\ kills' = kills + 1

\* The disk is full or the machine goes down: the line is there in part, or
\* without its newline, and the run is over.
LineIsCut ==
  /\ pc = "recording"
  /\ Kill
  /\ cut' = TRUE
  /\ \/ /\ ending' = [ending EXCEPT ![agent] = "torn"]
        /\ lost' = lost + 1
        /\ UNCHANGED file
     \/ /\ ending' = [ending EXCEPT ![agent] = IF @ = "clean" THEN "unended" ELSE "torn"]
        /\ file' = [file EXCEPT ![agent] = Recorded(@, case, memory[case])]
        /\ UNCHANGED lost
  /\ Exit
  /\ UNCHANGED answers

\* The run is killed between two of its steps.
RunIsKilled ==
  /\ pc # "idle"
  /\ Kill
  /\ lost' = IF pc = "recording" THEN lost + 1 ELSE lost
  /\ Exit
  /\ UNCHANGED <<disk, answers, cut>>

LoopEnds ==
  /\ pc = "case" /\ case \notin Cases(agent)
  /\ IF agent = "delayed_order"
       THEN agent' = "triage" /\ pc' = "load"
       ELSE UNCHANGED agent /\ pc' = "summary"
  /\ case' = 0 /\ memory' = Empty
  /\ UNCHANGED <<graphVars, limit, attempt, tally, metrics, disk, kills, paid>>

\* Planted bug: the accuracy of an agent that completed nothing is 100%.
PassesIfNothing(t) == t.correct * Share[2] >= t.completed * Share[1]

\* correct / (completed or 1) >= threshold
Passes(t) ==
  LET total == IF t.completed = 0 THEN 1 ELSE t.completed IN
  t.correct * Share[2] >= total * Share[1]

AllPassed == metrics /\ \A a \in Agents : Passes(tally[a])

\* The gates, the report, the exit code.
Summary ==
  /\ pc = "summary"
  /\ Exit
  /\ UNCHANGED <<disk, kills, paid>>

\* make evaluate-reset
Reset ==
  /\ pc = "idle"
  /\ file' = [a \in Agents |-> Empty]
  /\ ending' = [a \in Agents |-> "clean"]
  /\ answers' = [a \in Agents |-> [c \in 1..Size[a] |-> 0]]
  /\ lost' = 0 /\ cut' = FALSE
  /\ UNCHANGED <<graphVars, pc, run, memory, tally, metrics, kills>>

Steps ==
  \/ Retrieval \/ Load \/ UseCached \/ Ask \/ Invoke \/ Answered \/ Retry \/ Fail
  \/ WriteLine \/ LoopEnds \/ Summary

EvalNext == Run \/ Steps \/ LineIsCut \/ RunIsKilled \/ Reset

\* A run that can go on does: the LLM client has a timeout, backoff ends.
EvalSpec == EvalInit /\ [][EvalNext]_<<graphVars, evalVars>> /\ WF_<<graphVars, evalVars>>(Steps)

-----------------------------------------------------------------------------

\* Resuming spends no answer twice: a case that is in a checkpoint file is not
\* asked again, under whatever limits runs are started, and a case was answered
\* more than once since the last reset only if a run was ended between an answer
\* and its line.
AskedAgainOnlyForCause ==
  /\ pc = "asking" => case \notin DOMAIN file[agent]
  /\ \A a \in Agents : \A c \in 1..Size[a] : answers[a][c] <= 1 + lost

\* A run is stopped by the checkpoint of an earlier one only if a line of it was
\* cut short.  Killing a run anywhere else leaves a file that loads.
ResumesUnlessCut == (\E a \in Agents : ~Readable(a)) => cut

\* If all gates pass, every case the run was to evaluate was completed or
\* counted as failed, each agent has completed one at least, and of those that
\* are in its file enough are right.
GatesHonest ==
  pc = "summary" /\ AllPassed =>
    \A a \in Agents :
      LET known == Cases(a) \cap DOMAIN file[a]
          right == {c \in known : file[a][c]} IN
      /\ known # {}
      /\ tally[a].completed = Cardinality(known)
      /\ tally[a].failed = Cardinality(Cases(a) \ known)
      /\ Cardinality(right) * Share[2] >= Cardinality(known) * Share[1]

\* Every run ends, whatever the LLM answers and however often it is throttled.
EvaluationEnds == pc # "idle" ~> pc = "idle"
=============================================================================
