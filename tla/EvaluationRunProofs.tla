------------------------ MODULE EvaluationRunProofs ------------------------
(***************************************************************************)
(* For datasets, limits and caps of any size, and however often a run is   *)
(* killed: what the graph guarantees in the worker it guarantees in the    *)
(* evaluation, a checkpoint that loads spends no answer twice, and gates   *)
(* that pass have counted every case.                                      *)
(***************************************************************************)
EXTENDS EvaluationRun, DelayedOrderGraphProofs, FiniteSetTheorems, TLAPS

Phases  == {"idle", "retrieval", "load", "case", "asking", "recording", "summary"}
Tallies == [completed : Nat, correct : Nat, failed : Nat]

\* What the checkpoint of agent a can hold.
Records(a) == UNION {[D -> BOOLEAN] : D \in SUBSET (1..Size[a])}

EvalTypeOK ==
  /\ pc \in Phases
  /\ limit \in Nat
  /\ agent \in Agents
  /\ case \in Nat
  /\ attempt \in 0..MaxRetries
  /\ memory \in Records(agent)
  /\ tally \in [Agents -> Tallies]
  /\ metrics \in BOOLEAN
  /\ DOMAIN file = Agents /\ \A a \in Agents : file[a] \in Records(a)
  /\ ending \in [Agents -> {"clean", "unended", "torn"}]
  /\ kills \in Nat
  /\ DOMAIN answers = Agents /\ \A a \in Agents : answers[a] \in [1..Size[a] -> Nat]
  /\ lost \in Nat
  /\ cut \in BOOLEAN

\* Between loads the memory of a run is the file, but for an answer that is
\* about to be written; and no case is asked that the file has.
Remembers ==
  /\ pc \in {"idle", "retrieval"} => agent = "delayed_order"
  /\ pc = "case" => memory = file[agent] /\ case \in 1..(Size[agent] + 1) /\ case <= limit + 1
  /\ pc = "asking" => memory = file[agent]
  /\ pc \in {"asking", "recording"} => case \in Cases(agent) \ DOMAIN file[agent]
  /\ pc = "recording" => \E right \in BOOLEAN : memory = Recorded(file[agent], case, right)

\* An answer is in the file, about to be, or was lost.
Kept(a, c) == c \in DOMAIN file[a] \/ (pc = "recording" /\ a = agent /\ c = case)
AnswersKept ==
  \A a \in Agents : \A c \in 1..Size[a] :
    answers[a][c] <= lost + (IF Kept(a, c) THEN 1 ELSE 0)

\* A file that does not end in a newline has had a line cut short.
UncleanIsCut == \A a \in Agents : ending[a] # "clean" => cut

\* The cases of an agent that the run has behind it, and their count.
Looping   == pc \in {"case", "asking", "recording"}
Behind(a) ==
  IF \/ pc = "summary"
     \/ (pc = "load" \/ Looping) /\ agent = "triage" /\ a = "delayed_order"
    THEN Cases(a)
  ELSE IF Looping /\ a = agent THEN 1..(case - 1) ELSE {}
TalliedOf(t, cases, done) ==
  LET known == cases \cap DOMAIN done IN
  /\ t.completed = Cardinality(known)
  /\ t.correct = Cardinality({c \in known : done[c]})
  /\ t.failed = Cardinality(cases \ DOMAIN done)
Tallied == \A a \in Agents : TalliedOf(tally[a], Behind(a), file[a])

-----------------------------------------------------------------------------
(* The operators. *)

LEMMA RecordsType ==
  ASSUME NEW a \in Agents
  PROVE  /\ \A f \in Records(a) : DOMAIN f \subseteq 1..Size[a] /\ f \in [DOMAIN f -> BOOLEAN]
         /\ \A f : DOMAIN f \subseteq 1..Size[a] /\ f \in [DOMAIN f -> BOOLEAN] => f \in Records(a)
         /\ Empty \in Records(a)
         /\ Size[a] \in Nat
<1>1. Size[a] \in Nat
  BY EvaluationAssumption
<1>2. ASSUME NEW f \in Records(a)
      PROVE  DOMAIN f \subseteq 1..Size[a] /\ f \in [DOMAIN f -> BOOLEAN]
  BY <1>2 DEF Records
<1>3. ASSUME NEW f, DOMAIN f \subseteq 1..Size[a], f \in [DOMAIN f -> BOOLEAN]
      PROVE  f \in Records(a)
  BY <1>3, Zenon DEF Records
<1>4. DOMAIN Empty = {} /\ Empty \in [{} -> BOOLEAN]
  BY DEF Empty
<1>5. QED
  BY <1>1, <1>2, <1>3, <1>4

LEMMA RecordedFacts ==
  ASSUME NEW f, NEW c, NEW right
  PROVE  /\ DOMAIN Recorded(f, c, right) = DOMAIN f \cup {c}
         /\ Recorded(f, c, right)[c] = right
         /\ \A d \in DOMAIN f \ {c} : Recorded(f, c, right)[d] = f[d]
BY DEF Recorded

LEMMA RecordedType ==
  ASSUME NEW a \in Agents, NEW f \in Records(a), NEW c \in 1..Size[a], NEW right \in BOOLEAN
  PROVE  Recorded(f, c, right) \in Records(a)
<1>1. DOMAIN f \subseteq 1..Size[a] /\ f \in [DOMAIN f -> BOOLEAN]
  BY RecordsType
<1>2. Recorded(f, c, right) \in [DOMAIN f \cup {c} -> BOOLEAN]
  BY <1>1 DEF Recorded
<1>3. QED
  BY <1>1, <1>2, RecordsType

LEMMA CountedType ==
  ASSUME NEW t \in Tallies, NEW right \in BOOLEAN
  PROVE  /\ Counted(t, right) \in Tallies
         /\ Counted(t, right).completed = t.completed + 1
         /\ Counted(t, right).correct = IF right THEN t.correct + 1 ELSE t.correct
         /\ Counted(t, right).failed = t.failed
<1> DEFINE completed == t.completed + 1
           correct   == IF right THEN t.correct + 1 ELSE t.correct
<1>1. completed \in Nat /\ correct \in Nat
  BY DEF Tallies
<1>2. Counted(t, right) = [t EXCEPT !.completed = completed, !.correct = correct]
  BY Zenon DEF Counted
<1> HIDE DEF completed, correct
<1>3. /\ Counted(t, right) \in Tallies
      /\ Counted(t, right).completed = completed
      /\ Counted(t, right).correct = correct
      /\ Counted(t, right).failed = t.failed
  BY <1>1, <1>2 DEF Tallies
<1>4. QED
  BY <1>3, Zenon DEF completed, correct

LEMMA FailedType ==
  ASSUME NEW t \in Tallies
  PROVE  LET failed == [t EXCEPT !.failed = @ + 1] IN
         /\ failed \in Tallies
         /\ failed.completed = t.completed
         /\ failed.correct = t.correct
         /\ failed.failed = t.failed + 1
BY DEF Tallies

LEMMA CasesType ==
  ASSUME NEW a \in Agents
  PROVE  Cases(a) \subseteq 1..Size[a]
BY DEF Cases

-----------------------------------------------------------------------------
(* The graph inside the evaluation: a case starts it anew. *)

LEMMA NewGraphStarts == NewGraph => Init'
BY DEF NewGraph, Init

LEMMA GraphStarts == Init => IInv
BY IterationsAssumption
   DEF Init, IInv, TypeOK, CallsSpent, ToolsBelowCap, AutoOnlyIfComplete, Nodes, Replies

LEMMA GraphStep == [EvalNext]_<<graphVars, evalVars>> => [Next]_vars \/ NewGraph
BY Zenon DEF EvalNext, Steps, Run, Retrieval, Load, UseCached, Ask, Invoke, Answered, Retry, Fail, WriteLine,
   LoopEnds, Summary, LineIsCut, RunIsKilled, Reset, Exit, graphVars

LEMMA GraphKept == IInv /\ [EvalNext]_<<graphVars, evalVars>> => IInv'
<1>1. Init' => IInv'
  BY GraphStarts, PTL
<1>2. QED
  BY <1>1, NewGraphStarts, GraphStep, InvStep

-----------------------------------------------------------------------------
(* Types. *)

LEMMA ExitTypes == Exit => /\ pc' \in Phases /\ limit' \in Nat /\ agent' \in Agents /\ case' \in Nat
                           /\ attempt' \in 0..MaxRetries /\ memory' \in Records(agent')
                           /\ tally' \in [Agents -> Tallies] /\ metrics' \in BOOLEAN
<1> SUFFICES ASSUME Exit
             PROVE  /\ pc' \in Phases /\ limit' \in Nat /\ agent' \in Agents /\ case' \in Nat
                    /\ attempt' \in 0..MaxRetries /\ memory' \in Records(agent')
                    /\ tally' \in [Agents -> Tallies] /\ metrics' \in BOOLEAN
  OBVIOUS
<1>1. agent' \in Agents
  BY DEF Exit, Agents
<1>2. memory' = Empty
  BY DEF Exit
<1>3. memory' \in Records(agent')
  BY <1>1, <1>2, RecordsType
<1>4. tally' \in [Agents -> Tallies]
  BY DEF Exit, Zero, Tallies
<1>5. limit' \in Nat /\ case' \in Nat /\ attempt' \in 0..MaxRetries
  BY EvaluationAssumption DEF Exit
<1>6. pc' \in Phases /\ metrics' \in BOOLEAN
  BY DEF Exit, Phases
<1>7. QED
  BY <1>1, <1>3, <1>4, <1>5, <1>6

\* What is in memory when a line is written.
LEMMA AboutToWrite ==
  ASSUME EvalTypeOK, Remembers, pc = "recording"
  PROVE  /\ case \in 1..Size[agent] /\ case \in Cases(agent) /\ case \notin DOMAIN file[agent]
         /\ memory[case] \in BOOLEAN
         /\ Recorded(file[agent], case, memory[case]) \in Records(agent)
<1>1. case \in Cases(agent) \ DOMAIN file[agent] /\ agent \in Agents /\ file[agent] \in Records(agent)
  BY DEF Remembers, EvalTypeOK
<1>2. PICK right \in BOOLEAN : memory = Recorded(file[agent], case, right)
  BY DEF Remembers
<1>3. memory[case] = right
  BY <1>2 DEF Recorded
<1>4. QED
  BY <1>1, <1>3, CasesType, RecordedType

LEMMA TypesStep == EvalTypeOK /\ Remembers /\ [EvalNext]_<<graphVars, evalVars>> => EvalTypeOK'
<1> SUFFICES ASSUME EvalTypeOK, Remembers, [EvalNext]_<<graphVars, evalVars>>
             PROVE  EvalTypeOK'
  OBVIOUS
<1> USE DEF run, disk, paid, evalVars
<1> DEFINE Held == /\ pc \in Phases /\ limit \in Nat /\ agent \in Agents /\ case \in Nat
                   /\ attempt \in 0..MaxRetries /\ memory \in Records(agent)
                   /\ tally \in [Agents -> Tallies] /\ metrics \in BOOLEAN
           Disk == /\ DOMAIN file = Agents /\ \A a \in Agents : file[a] \in Records(a)
                   /\ ending \in [Agents -> {"clean", "unended", "torn"}]
           Paid == /\ DOMAIN answers = Agents /\ \A a \in Agents : answers[a] \in [1..Size[a] -> Nat]
                   /\ lost \in Nat /\ cut \in BOOLEAN
<1>1. EvalTypeOK <=> Held /\ Disk /\ kills \in Nat /\ Paid
  BY DEF EvalTypeOK
<1>2. Held' /\ Disk' /\ (kills \in Nat)' /\ Paid' => EvalTypeOK'
  BY DEF EvalTypeOK
<1>3. UNCHANGED disk => Disk'
  BY <1>1
<1>4. UNCHANGED paid => Paid'
  BY <1>1
<1>5. UNCHANGED kills \/ Kill => (kills \in Nat)'
  BY <1>1 DEF Kill
<1>6. Exit => Held'
  BY ExitTypes
<1>7. CASE Run
  <2>1. Held'
    BY <1>1, <1>7, EvaluationAssumption DEF Run, Phases
  <2>2. QED
    BY <1>2, <1>3, <1>4, <1>5, <1>7, <2>1 DEF Run
<1>8. CASE Retrieval
  <2>1. Held'
    BY <1>1, <1>6, <1>8 DEF Retrieval, Phases
  <2>2. QED
    BY <1>2, <1>3, <1>4, <1>5, <1>8, <2>1 DEF Retrieval
<1>9. CASE Load
  <2>1. Held'
    BY <1>1, <1>6, <1>9 DEF Load, Phases
  <2>2. QED
    BY <1>2, <1>3, <1>4, <1>5, <1>9, <2>1 DEF Load
<1>10. CASE UseCached
  <2>1. case \in DOMAIN memory /\ memory \in Records(agent)
    BY <1>1, <1>10 DEF UseCached
  <2>2. memory[case] \in BOOLEAN
    BY <1>1, <2>1, RecordsType
  <2>3. tally' \in [Agents -> Tallies]
    BY <1>1, <1>10, <2>2, CountedType DEF UseCached
  <2>4. Held'
    BY <1>1, <1>10, <2>3 DEF UseCached, NextCase, Phases
  <2>5. QED
    BY <1>2, <1>3, <1>4, <1>5, <1>10, <2>4 DEF UseCached
<1>11. CASE Ask
  <2>1. Held'
    BY <1>1, <1>11, EvaluationAssumption DEF Ask, Phases
  <2>2. QED
    BY <1>2, <1>3, <1>4, <1>5, <1>11, <2>1 DEF Ask
<1>12. CASE Invoke \/ UNCHANGED <<graphVars, evalVars>>
  <2>1. UNCHANGED evalVars
    BY <1>12 DEF Invoke
  <2>2. QED
    BY <1>1, <1>2, <1>3, <1>4, <1>5, <2>1
<1>13. CASE Answered
  <2>1. case \in 1..Size[agent] /\ agent \in Agents
    BY <1>1, <1>13, CasesType DEF Answered, Remembers
  <2>2. \E right \in BOOLEAN : memory' = Recorded(memory, case, right)
    BY <1>13 DEF Answered
  <2>3. Held'
    <3>1. memory' \in Records(agent)
      BY <1>1, <2>1, <2>2, RecordedType
    <3>2. QED
      BY <1>1, <1>13, <3>1 DEF Answered, Phases
  <2>4. Paid'
    <3>1. answers' = [answers EXCEPT ![agent] = [answers[agent] EXCEPT ![case] = @ + 1]]
      BY <1>13 DEF Answered
    <3>2. \A f \in [1..Size[agent] -> Nat] : [f EXCEPT ![case] = @ + 1] \in [1..Size[agent] -> Nat]
      BY <2>1
    <3>3. QED
      BY <1>1, <1>13, <3>1, <3>2 DEF Answered
  <2>5. QED
    BY <1>2, <1>3, <1>5, <1>13, <2>3, <2>4 DEF Answered
<1>14. CASE Retry
  <2>1. attempt' \in 0..MaxRetries
    BY <1>1, <1>14, EvaluationAssumption DEF Retry
  <2>2. Held'
    BY <1>1, <1>14, <2>1 DEF Retry
  <2>3. QED
    BY <1>2, <1>3, <1>4, <1>5, <1>14, <2>2 DEF Retry
<1>15. CASE Fail
  <2>1. tally' \in [Agents -> Tallies]
    <3>1. tally' = [tally EXCEPT ![agent] = [tally[agent] EXCEPT !.failed = @ + 1]]
      BY <1>15 DEF Fail
    <3>2. [tally[agent] EXCEPT !.failed = @ + 1] \in Tallies
      BY <1>1, FailedType
    <3>3. QED
      BY <1>1, <3>1, <3>2
  <2>2. Held'
    BY <1>1, <1>15, <2>1 DEF Fail, NextCase, Phases
  <2>3. QED
    BY <1>2, <1>3, <1>4, <1>5, <1>15, <2>2 DEF Fail
<1>16. CASE WriteLine
  <2>1. memory[case] \in BOOLEAN /\ Recorded(file[agent], case, memory[case]) \in Records(agent)
    BY <1>16, AboutToWrite DEF WriteLine
  <2>2. tally' \in [Agents -> Tallies]
    BY <1>1, <1>16, <2>1, CountedType DEF WriteLine
  <2>3. Held'
    BY <1>1, <1>16, <2>2 DEF WriteLine, NextCase, Phases
  <2>4. Disk'
    BY <1>1, <1>16, <2>1 DEF WriteLine, EndedLine
  <2>5. QED
    BY <1>2, <1>4, <1>5, <1>16, <2>3, <2>4 DEF WriteLine
<1>17. CASE LineIsCut
  <2>1. Recorded(file[agent], case, memory[case]) \in Records(agent)
    BY <1>17, AboutToWrite DEF LineIsCut
  <2>2. ending' \in [Agents -> {"clean", "unended", "torn"}]
    BY <1>1, <1>17 DEF LineIsCut
  <2>3. Disk'
    BY <1>1, <1>17, <2>1, <2>2 DEF LineIsCut
  <2>4. Paid'
    BY <1>1, <1>17 DEF LineIsCut
  <2>5. QED
    BY <1>2, <1>5, <1>6, <1>17, <2>3, <2>4 DEF LineIsCut
<1>18. CASE RunIsKilled
  <2>1. Paid'
    BY <1>1, <1>18 DEF RunIsKilled
  <2>2. QED
    BY <1>2, <1>3, <1>5, <1>6, <1>18, <2>1 DEF RunIsKilled
<1>19. CASE LoopEnds
  <2>1. agent' \in Agents /\ memory' = Empty
    BY <1>1, <1>19 DEF LoopEnds, Agents
  <2>2. memory' \in Records(agent')
    BY <2>1, RecordsType
  <2>3. Held'
    BY <1>1, <1>19, <2>1, <2>2 DEF LoopEnds, Phases
  <2>4. QED
    BY <1>2, <1>3, <1>4, <1>5, <1>19, <2>3 DEF LoopEnds
<1>20. CASE Summary
  BY <1>2, <1>3, <1>4, <1>5, <1>6, <1>20 DEF Summary
<1>21. CASE Reset
  <2>1. Disk'
    BY <1>21, RecordsType DEF Reset
  <2>2. Paid'
    BY <1>21 DEF Reset
  <2>3. QED
    BY <1>1, <1>2, <1>5, <1>21, <2>1, <2>2 DEF Reset
<1>22. QED
  BY <1>7, <1>8, <1>9, <1>10, <1>11, <1>12, <1>13, <1>14, <1>15, <1>16, <1>17, <1>18, <1>19, <1>20, <1>21
     DEF EvalNext, Steps

-----------------------------------------------------------------------------
(* What is remembered, paid for and cut. *)

LEMMA RemembersStep == EvalTypeOK /\ Remembers /\ [EvalNext]_<<graphVars, evalVars>> => Remembers'
<1> SUFFICES ASSUME EvalTypeOK, Remembers, [EvalNext]_<<graphVars, evalVars>>
             PROVE  Remembers'
  OBVIOUS
<1> USE DEF run, disk, evalVars
<1>1. agent \in Agents /\ Size[agent] \in Nat /\ limit \in Nat /\ case \in Nat
  BY RecordsType DEF EvalTypeOK
<1>2. /\ pc' \in {"load", "summary"} => Remembers'
      /\ pc' \in {"idle", "retrieval"} /\ agent' = "delayed_order" => Remembers'
      /\ Exit => Remembers'
  BY DEF Remembers, Exit
<1>3. CASE Run \/ LoopEnds \/ Reset
  BY <1>2, <1>3 DEF Run, LoopEnds, Reset, Remembers
<1>4. CASE Retrieval
  BY <1>2, <1>4 DEF Retrieval
<1>5. CASE Load
  BY <1>1, <1>2, <1>5 DEF Load, Remembers
<1>6. ASSUME pc = "case", case \in Cases(agent), NextCase, UNCHANGED <<limit, agent>>, memory' = file'[agent]
      PROVE  Remembers'
  BY <1>1, <1>6, CasesType DEF Remembers, NextCase, Cases
<1>7. CASE UseCached
  BY <1>6, <1>7 DEF UseCached, Remembers
<1>8. CASE Ask
  BY <1>8 DEF Ask, Remembers, Cases
<1>9. CASE Answered
  <2>1. \E right \in BOOLEAN : memory' = Recorded(memory, case, right)
    BY <1>9 DEF Answered
  <2>2. pc = "asking" /\ pc' = "recording" /\ UNCHANGED <<agent, case, file, limit>>
    BY <1>9 DEF Answered
  <2>3. QED
    BY <2>1, <2>2 DEF Remembers, Cases
<1>10. CASE Retry \/ Invoke \/ UNCHANGED <<graphVars, evalVars>>
  BY <1>10 DEF Retry, Invoke, Remembers, Cases
<1>11. CASE Fail
  <2>1. pc = "asking" /\ pc' = "case" /\ case' = case + 1 /\ UNCHANGED <<agent, file, limit, memory>>
    BY <1>11 DEF Fail, Raised, NextCase
  <2>2. QED
    BY <1>1, <2>1, CasesType DEF Remembers, Cases
<1>12. CASE WriteLine
  <2>1. pc = "recording" /\ pc' = "case" /\ case' = case + 1 /\ UNCHANGED <<agent, limit, memory>>
    BY <1>12 DEF WriteLine, NextCase
  <2>2. PICK right \in BOOLEAN : memory = Recorded(file[agent], case, right)
    BY <2>1 DEF Remembers
  <2>3. memory[case] = right
    BY <2>2 DEF Recorded
  <2>4. file'[agent] = memory
    BY <1>1, <1>12, <2>2, <2>3 DEF WriteLine, EvalTypeOK
  <2>5. QED
    BY <1>1, <2>1, <2>4, CasesType DEF Remembers, Cases
<1>13. CASE LineIsCut \/ RunIsKilled \/ Summary
  BY <1>2, <1>13 DEF LineIsCut, RunIsKilled, Summary
<1>14. QED
  BY <1>3, <1>4, <1>5, <1>7, <1>8, <1>9, <1>10, <1>11, <1>12, <1>13 DEF EvalNext, Steps

LEMMA AnswersStep ==
  EvalTypeOK /\ Remembers /\ AnswersKept /\ [EvalNext]_<<graphVars, evalVars>> => AnswersKept'
<1> SUFFICES ASSUME EvalTypeOK, Remembers, AnswersKept, [EvalNext]_<<graphVars, evalVars>>,
                    NEW a \in Agents, NEW c \in 1..Size[a]
             PROVE  (answers[a][c] <= lost + (IF Kept(a, c) THEN 1 ELSE 0))'
  BY DEF AnswersKept
<1> USE DEF run, disk, paid, evalVars
<1>1. /\ answers[a][c] \in Nat /\ lost \in Nat /\ agent \in Agents
      /\ answers[a][c] <= lost + (IF Kept(a, c) THEN 1 ELSE 0)
  BY DEF EvalTypeOK, AnswersKept
<1>2. ASSUME answers'[a][c] = answers[a][c], lost' = lost, Kept(a, c) => Kept(a, c)'
      PROVE  (answers[a][c] <= lost + (IF Kept(a, c) THEN 1 ELSE 0))'
  BY <1>1, <1>2
<1>3. ASSUME answers'[a][c] = answers[a][c], lost' = lost + 1
      PROVE  (answers[a][c] <= lost + (IF Kept(a, c) THEN 1 ELSE 0))'
  BY <1>1, <1>3
<1>4. ASSUME pc # "recording", UNCHANGED <<disk, paid>>
      PROVE  (answers[a][c] <= lost + (IF Kept(a, c) THEN 1 ELSE 0))'
  BY <1>2, <1>4 DEF Kept
<1>5. CASE Run \/ Retrieval \/ Load \/ UseCached \/ Ask \/ Retry \/ Fail \/ LoopEnds \/ Summary
  BY <1>4, <1>5 DEF Run, Retrieval, Load, UseCached, Ask, Retry, Fail, Raised, LoopEnds, Summary
<1>6. CASE Invoke \/ UNCHANGED <<graphVars, evalVars>>
  BY <1>2, <1>6 DEF Invoke, Kept
<1>7. CASE Answered
  <2>1. UNCHANGED <<agent, case, file, lost>> /\ pc = "asking" /\ pc' = "recording"
    BY <1>7 DEF Answered
  <2>2. case \notin DOMAIN file[agent] /\ case \in 1..Size[agent]
    BY <2>1, CasesType DEF Remembers, EvalTypeOK
  <2>3. answers' = [answers EXCEPT ![agent][case] = @ + 1]
    BY <1>7 DEF Answered
  <2>4. CASE a = agent /\ c = case
    <3>1. answers'[a][c] = answers[a][c] + 1
      BY <2>2, <2>3, <2>4 DEF EvalTypeOK
    <3>2. ~Kept(a, c) /\ Kept(a, c)'
      BY <2>1, <2>2, <2>4 DEF Kept
    <3>3. QED
      BY <1>1, <2>1, <3>1, <3>2
  <2>5. CASE ~(a = agent /\ c = case)
    <3>1. answers'[a][c] = answers[a][c]
      BY <2>3, <2>5 DEF EvalTypeOK
    <3>2. QED
      BY <1>2, <2>1, <3>1 DEF Kept
  <2>6. QED
    BY <2>4, <2>5
<1>8. ASSUME pc = "recording", file' = [file EXCEPT ![agent] = Recorded(@, case, memory[case])]
      PROVE  Kept(a, c) => Kept(a, c)'
  <2>1. DOMAIN file'[agent] = DOMAIN file[agent] \cup {case} /\ (a # agent => file'[a] = file[a])
    BY <1>1, <1>8, RecordedFacts DEF EvalTypeOK
  <2>2. QED
    BY <2>1 DEF Kept
<1>9. CASE WriteLine
  BY <1>2, <1>8, <1>9 DEF WriteLine
<1>10. CASE LineIsCut
  BY <1>2, <1>3, <1>8, <1>10 DEF LineIsCut
<1>11. CASE RunIsKilled
  BY <1>3, <1>2, <1>11 DEF RunIsKilled, Kept
<1>12. CASE Reset
  BY <1>12 DEF Reset, Kept
<1>13. QED
  BY <1>5, <1>6, <1>7, <1>9, <1>10, <1>11, <1>12 DEF EvalNext, Steps

LEMMA UncleanStep == EvalTypeOK /\ UncleanIsCut /\ [EvalNext]_<<graphVars, evalVars>> => UncleanIsCut'
<1> SUFFICES ASSUME EvalTypeOK, UncleanIsCut, [EvalNext]_<<graphVars, evalVars>>
             PROVE  UncleanIsCut'
  OBVIOUS
<1> USE DEF disk, paid, evalVars
<1>1. CASE WriteLine
  BY <1>1 DEF WriteLine, EndedLine, UncleanIsCut, EvalTypeOK
<1>2. CASE LineIsCut
  BY <1>2 DEF LineIsCut, UncleanIsCut
<1>3. CASE Reset
  BY <1>3 DEF Reset, UncleanIsCut
<1>4. CASE UNCHANGED <<ending, cut>>
  BY <1>4 DEF UncleanIsCut
<1>5. WriteLine \/ LineIsCut \/ Reset \/ UNCHANGED <<ending, cut>>
  BY Zenon DEF EvalNext, Steps, Run, Retrieval, Load, UseCached, Ask, Invoke, Answered, Retry, Fail,
     LoopEnds, Summary, RunIsKilled
<1>6. QED
  BY <1>1, <1>2, <1>3, <1>4, <1>5

-----------------------------------------------------------------------------
(* The count of the cases behind a run. *)

LEMMA TallyFinite ==
  ASSUME NEW a \in Agents, NEW cases \in SUBSET (1..Size[a]), NEW f
  PROVE  /\ IsFiniteSet(cases \cap DOMAIN f) /\ IsFiniteSet(cases \ DOMAIN f)
         /\ IsFiniteSet({c \in cases \cap DOMAIN f : f[c]})
<1>1. IsFiniteSet(1..Size[a])
  <2>1. Size[a] \in Int
    BY RecordsType
  <2>2. QED
    BY <2>1, FS_Interval
<1>2. QED
  BY <1>1, FS_Subset

\* One more case, that the file has.
LEMMA TallyKnown ==
  ASSUME NEW a \in Agents, NEW t \in Tallies, NEW cases \in SUBSET (1..Size[a]), NEW x \in 1..Size[a],
         x \notin cases, NEW f \in Records(a), x \in DOMAIN f, TalliedOf(t, cases, f)
  PROVE  TalliedOf(Counted(t, f[x]), cases \cup {x}, f)
<1> DEFINE known == cases \cap DOMAIN f
           right == {c \in known : f[c]}
<1>1. f[x] \in BOOLEAN
  BY RecordsType
<1>2. (cases \cup {x}) \cap DOMAIN f = known \cup {x} /\ (cases \cup {x}) \ DOMAIN f = cases \ DOMAIN f
  OBVIOUS
<1>3. {c \in known \cup {x} : f[c]} = IF f[x] THEN right \cup {x} ELSE right
  BY <1>1
<1>4. /\ IsFiniteSet(known) /\ IsFiniteSet(right) /\ x \notin known /\ x \notin right
  BY TallyFinite
<1>5. /\ Cardinality(known \cup {x}) = Cardinality(known) + 1
      /\ Cardinality(right \cup {x}) = Cardinality(right) + 1
  BY <1>4, FS_AddElement
<1>6. t.completed = Cardinality(known) /\ t.correct = Cardinality(right) /\ t.failed = Cardinality(cases \ DOMAIN f)
  BY DEF TalliedOf
<1> DEFINE n == Counted(t, f[x])
           right2 == {c \in known \cup {x} : f[c]}
<1>7. /\ n.completed = t.completed + 1
      /\ n.correct = IF f[x] THEN t.correct + 1 ELSE t.correct
      /\ n.failed = t.failed
  BY <1>1, CountedType
<1>8. right2 = IF f[x] THEN right \cup {x} ELSE right
  BY <1>3
<1> HIDE DEF known, right, n, right2
<1>9. /\ n.completed = Cardinality(known \cup {x})
      /\ n.correct = Cardinality(right2)
      /\ n.failed = Cardinality(cases \ DOMAIN f)
  <2>1. CASE f[x]
    BY <1>5, <1>6, <1>7, <1>8, <2>1
  <2>2. CASE ~f[x]
    BY <1>5, <1>6, <1>7, <1>8, <2>2
  <2>3. QED
    BY <2>1, <2>2
<1>10. QED
  BY <1>2, <1>9 DEF TalliedOf, known, right2, n

\* One more case, that it has not.
LEMMA TallyFailed ==
  ASSUME NEW a \in Agents, NEW t \in Tallies, NEW cases \in SUBSET (1..Size[a]), NEW x \in 1..Size[a],
         x \notin cases, NEW f, x \notin DOMAIN f, TalliedOf(t, cases, f)
  PROVE  TalliedOf([t EXCEPT !.failed = @ + 1], cases \cup {x}, f)
<1> DEFINE known == cases \cap DOMAIN f
<1>1. (cases \cup {x}) \cap DOMAIN f = known /\ (cases \cup {x}) \ DOMAIN f = (cases \ DOMAIN f) \cup {x}
  OBVIOUS
<1>2. Cardinality((cases \ DOMAIN f) \cup {x}) = Cardinality(cases \ DOMAIN f) + 1
  BY TallyFinite, FS_AddElement
<1>3. /\ t.completed = Cardinality(known) /\ t.correct = Cardinality({c \in known : f[c]})
      /\ t.failed = Cardinality(cases \ DOMAIN f)
  BY DEF TalliedOf
<1> HIDE DEF known
<1>4. QED
  BY <1>1, <1>2, <1>3, FailedType DEF TalliedOf

\* A record of another case changes no count.
LEMMA TallyRecorded ==
  ASSUME NEW t, NEW cases, NEW x, x \notin cases, NEW f, NEW right, TalliedOf(t, cases, f)
  PROVE  TalliedOf(t, cases, Recorded(f, x, right))
<1> DEFINE g == Recorded(f, x, right)
<1>1. /\ cases \cap DOMAIN g = cases \cap DOMAIN f /\ cases \ DOMAIN g = cases \ DOMAIN f
      /\ \A c \in cases \cap DOMAIN f : g[c] = f[c]
  BY DEF Recorded
<1> HIDE DEF g
<1>2. {c \in cases \cap DOMAIN f : g[c]} = {c \in cases \cap DOMAIN f : f[c]}
  BY <1>1
<1>3. TalliedOf(t, cases, g)
  BY <1>1, <1>2 DEF TalliedOf
<1>4. QED
  BY <1>3 DEF g

\* Where a loop ends every case is behind it.
LEMMA LoopDone ==
  ASSUME EvalTypeOK, Remembers, pc = "case", case \notin Cases(agent)
  PROVE  1..(case - 1) = Cases(agent)
<1>1. /\ Size[agent] \in Nat /\ limit \in Nat /\ case \in Nat
      /\ case \in 1..(Size[agent] + 1) /\ case <= limit + 1
  BY RecordsType DEF EvalTypeOK, Remembers
<1>2. case = Size[agent] + 1 \/ case = limit + 1
  BY <1>1 DEF Cases
<1>3. \A c \in 1..(case - 1) : c \in Cases(agent)
  BY <1>1 DEF Cases
<1>4. \A c \in Cases(agent) : c \in 1..(case - 1)
  BY <1>1, <1>2 DEF Cases
<1>5. QED
  BY <1>3, <1>4

LEMMA TalliedStep ==
  EvalTypeOK /\ Remembers /\ Tallied /\ [EvalNext]_<<graphVars, evalVars>> => Tallied'
<1> SUFFICES ASSUME EvalTypeOK, Remembers, Tallied, [EvalNext]_<<graphVars, evalVars>>, NEW a \in Agents
             PROVE  TalliedOf(tally'[a], Behind(a)', file'[a])
  BY DEF Tallied
<1> USE DEF run, disk, evalVars
<1>1. /\ TalliedOf(tally[a], Behind(a), file[a])
      /\ agent \in Agents /\ case \in Nat /\ tally \in [Agents -> Tallies] /\ DOMAIN file = Agents
      /\ \A b \in Agents : file[b] \in Records(b)
  BY DEF Tallied, EvalTypeOK
<1>2. ASSUME tally'[a] = tally[a], Behind(a)' = Behind(a), file'[a] = file[a]
      PROVE  TalliedOf(tally'[a], Behind(a)', file'[a])
  BY <1>1, <1>2
<1>3. \A f : TalliedOf(Zero, {}, f)
  BY FS_EmptySet DEF TalliedOf, Zero
<1>4. ASSUME pc' \in {"idle"}, tally'[a] = Zero
      PROVE  TalliedOf(tally'[a], Behind(a)', file'[a])
  BY <1>3, <1>4 DEF Behind, Looping
<1>5. Exit => TalliedOf(tally'[a], Behind(a)', file'[a])
  BY <1>4 DEF Exit
<1>6. CASE Run
  BY <1>2, <1>6 DEF Run, Behind, Looping
<1>7. CASE Retrieval
  BY <1>2, <1>5, <1>7 DEF Retrieval, Behind, Looping, Remembers
<1>8. CASE Load
  <2>1. CASE ~Exit
    <3>1. pc = "load" /\ case' = 1 /\ pc' = "case" /\ UNCHANGED <<agent, limit, tally, file>>
      BY <1>8, <2>1 DEF Load
    <3>2. 1..(case' - 1) = {}
      BY <3>1
    <3>3. Behind(a)' = Behind(a)
      BY <3>1, <3>2 DEF Behind, Looping, Cases
    <3>4. QED
      BY <1>2, <3>1, <3>3
  <2>2. QED
    BY <1>5, <2>1
<1>9. ASSUME Looping, Looping', UNCHANGED <<limit, agent, case>>
      PROVE  Behind(a)' = Behind(a)
  BY <1>9 DEF Behind, Looping, Cases
<1>10. CASE Ask \/ Answered \/ Retry
  BY <1>2, <1>9, <1>10 DEF Ask, Answered, Retry, Raised, Looping
<1>11. CASE Invoke \/ UNCHANGED <<graphVars, evalVars>>
  BY <1>2, <1>11 DEF Invoke, Behind, Looping, Cases
<1>12. ASSUME Looping, Looping', case' = case + 1, UNCHANGED <<limit, agent>>, case \in Cases(agent)
       PROVE  /\ a # agent => Behind(a)' = Behind(a)
              /\ a = agent => /\ Behind(a) = 1..(case - 1) /\ Behind(a)' = Behind(a) \cup {case}
                              /\ Behind(a) \subseteq 1..Size[a] /\ case \in 1..Size[a] /\ case \notin Behind(a)
  <2>1. case \in 1..Size[agent] /\ Size[agent] \in Nat
    BY <1>1, <1>12, CasesType, RecordsType
  <2>2. 1..(case' - 1) = 1..(case - 1) \cup {case} /\ case \notin 1..(case - 1)
    BY <1>12, <2>1
  <2>3. 1..(case - 1) \subseteq 1..Size[agent]
    BY <2>1
  <2>4. pc # "summary" /\ pc' # "summary" /\ pc # "load" /\ pc' # "load"
    BY <1>12 DEF Looping
  <2>5. QED
    BY <1>1, <1>12, <2>1, <2>2, <2>3, <2>4 DEF Behind, Cases, Agents
<1>13. CASE UseCached
  <2>1. /\ Looping /\ Looping' /\ case' = case + 1 /\ UNCHANGED <<limit, agent, file>> /\ case \in Cases(agent)
        /\ memory = file[agent] /\ case \in DOMAIN memory
        /\ tally' = [tally EXCEPT ![agent] = Counted(@, memory[case])]
    BY <1>13 DEF UseCached, NextCase, Looping, Remembers
  <2>2. CASE a = agent
    <3>1. tally'[a] = Counted(tally[a], file[a][case])
      BY <1>1, <2>1, <2>2
    <3>2. TalliedOf(Counted(tally[a], file[a][case]), Behind(a) \cup {case}, file[a])
      BY <1>1, <1>12, <2>1, <2>2, TallyKnown
    <3>3. QED
      BY <1>12, <2>1, <2>2, <3>1, <3>2
  <2>3. CASE a # agent
    BY <1>1, <1>2, <1>12, <2>1, <2>3
  <2>4. QED
    BY <2>2, <2>3
<1>14. CASE Fail
  <2>1. /\ Looping /\ Looping' /\ case' = case + 1 /\ UNCHANGED <<limit, agent, file>>
        /\ case \in Cases(agent) \ DOMAIN file[agent]
        /\ tally' = [tally EXCEPT ![agent].failed = @ + 1]
    BY <1>14 DEF Fail, Raised, NextCase, Looping, Remembers
  <2>2. CASE a = agent
    <3>1. tally'[a] = [tally[a] EXCEPT !.failed = @ + 1]
      <4>1. tally' = [tally EXCEPT ![agent] = [tally[agent] EXCEPT !.failed = @ + 1]]
        BY <2>1
      <4>2. QED
        BY <1>1, <2>2, <4>1, Zenon
    <3>2. TalliedOf([tally[a] EXCEPT !.failed = @ + 1], Behind(a) \cup {case}, file[a])
      BY <1>1, <1>12, <2>1, <2>2, TallyFailed
    <3>3. QED
      BY <1>12, <2>1, <2>2, <3>1, <3>2
  <2>3. CASE a # agent
    BY <1>1, <1>2, <1>12, <2>1, <2>3
  <2>4. QED
    BY <2>2, <2>3
<1>15. CASE WriteLine
  <2>1. /\ Looping /\ Looping' /\ case' = case + 1 /\ UNCHANGED <<limit, agent>> /\ case \in Cases(agent)
        /\ file' = [file EXCEPT ![agent] = Recorded(@, case, memory[case])]
        /\ tally' = [tally EXCEPT ![agent] = Counted(@, memory[case])]
    BY <1>15, AboutToWrite DEF WriteLine, NextCase, Looping
  <2>2. CASE a = agent
    <3> DEFINE g == Recorded(file[a], case, memory[case])
    <3>1. tally'[a] = Counted(tally[a], memory[case]) /\ file'[a] = g
      BY <1>1, <2>1, <2>2
    <3>2. g \in Records(a) /\ case \in DOMAIN g /\ g[case] = memory[case]
      <4>1. g \in Records(a)
        BY <1>15, <2>2, AboutToWrite DEF WriteLine
      <4>2. QED
        BY <4>1 DEF Recorded
    <3>3. TalliedOf(tally[a], Behind(a), g)
      BY <1>1, <1>12, <2>1, <2>2, TallyRecorded
    <3> HIDE DEF g
    <3>4. TalliedOf(Counted(tally[a], g[case]), Behind(a) \cup {case}, g)
      BY <1>1, <1>12, <2>1, <2>2, <3>2, <3>3, TallyKnown
    <3>5. QED
      BY <1>12, <2>1, <2>2, <3>1, <3>2, <3>4
  <2>3. CASE a # agent
    BY <1>1, <1>2, <1>12, <2>1, <2>3
  <2>4. QED
    BY <2>2, <2>3
<1>16. CASE LineIsCut \/ RunIsKilled \/ Summary
  BY <1>5, <1>16 DEF LineIsCut, RunIsKilled, Summary
<1>17. CASE LoopEnds
  <2>1. /\ pc = "case" /\ 1..(case - 1) = Cases(agent) /\ UNCHANGED <<limit, tally, file>>
        /\ \/ agent = "delayed_order" /\ agent' = "triage" /\ pc' = "load"
           \/ agent = "triage" /\ agent' = agent /\ pc' = "summary"
    BY <1>1, <1>17, LoopDone DEF LoopEnds, Agents
  <2>2. Behind(a)' = Behind(a)
    BY <2>1 DEF Behind, Looping, Cases, Agents
  <2>3. QED
    BY <1>2, <2>1, <2>2
<1>18. CASE Reset
  <2>1. UNCHANGED tally /\ Behind(a) = {} /\ Behind(a)' = {} /\ file'[a] = Empty
    BY <1>18 DEF Reset, Behind, Looping
  <2>2. tally[a].completed = 0 /\ tally[a].correct = 0 /\ tally[a].failed = 0
    BY <1>1, <2>1, FS_EmptySet DEF TalliedOf
  <2>3. QED
    BY <2>1, <2>2, FS_EmptySet DEF TalliedOf
<1>19. QED
  BY <1>6, <1>7, <1>8, <1>10, <1>11, <1>13, <1>14, <1>15, <1>16, <1>17, <1>18 DEF EvalNext, Steps

-----------------------------------------------------------------------------

EvalInv == /\ IInv
           /\ EvalTypeOK
           /\ Remembers
           /\ AnswersKept
           /\ UncleanIsCut
           /\ Tallied

LEMMA EvalInvInit == EvalInit => EvalInv
<1> SUFFICES ASSUME EvalInit
             PROVE  EvalInv
  OBVIOUS
<1>1. IInv
  BY GraphStarts DEF EvalInit
<1>2. \A a \in Agents : Empty \in Records(a) /\ Size[a] \in Nat
  BY RecordsType
<1>3. agent \in Agents /\ memory \in Records(agent)
  BY <1>2 DEF EvalInit, Agents
<1>4. tally \in [Agents -> Tallies] /\ attempt \in 0..MaxRetries
  BY EvaluationAssumption DEF EvalInit, Zero, Tallies
<1>5. EvalTypeOK
  BY <1>2, <1>3, <1>4 DEF EvalInit, EvalTypeOK, Phases
<1>6. Remembers /\ UncleanIsCut
  BY DEF EvalInit, Remembers, UncleanIsCut
<1>7. AnswersKept
  BY DEF EvalInit, AnswersKept, Kept, Empty
<1>8. Tallied
  <2>1. \A a \in Agents : Behind(a) = {} /\ tally[a] = Zero
    BY DEF EvalInit, Behind, Looping
  <2>2. \A f : TalliedOf(Zero, {}, f)
    BY FS_EmptySet DEF TalliedOf, Zero
  <2>3. QED
    BY <2>1, <2>2 DEF Tallied
<1>9. QED
  BY <1>1, <1>5, <1>6, <1>7, <1>8 DEF EvalInv

LEMMA EvalAlways == EvalSpec => []EvalInv
<1>1. EvalInv /\ [EvalNext]_<<graphVars, evalVars>> => EvalInv'
  BY GraphKept, TypesStep, RemembersStep, AnswersStep, UncleanStep, TalliedStep DEF EvalInv
<1>2. QED
  BY <1>1, EvalInvInit, PTL DEF EvalSpec

\* Type correctness of the runs and their checkpoint files.
THEOREM EvaluationTypes == EvalSpec => []EvalTypeOK
<1>1. EvalInv => EvalTypeOK
  BY DEF EvalInv
<1>2. QED
  BY <1>1, EvalAlways, PTL

\* The guardrails hold in the evaluation too: no decision of an unfinished
\* investigation counts as one that needs no human.
THEOREM HumanInTheEvaluation == EvalSpec => []AutoOnlyIfComplete
<1>1. EvalInv => AutoOnlyIfComplete
  BY DEF EvalInv, IInv
<1>2. QED
  BY <1>1, EvalAlways, PTL

\* And the count of an investigation is the number of its calls.
THEOREM EvaluationUsageIsExact == EvalSpec => []CallsCounted
<1>1. EvalInv => CallsCounted
  BY DEF EvalInv, IInv, CallsSpent, CallsCounted
<1>2. QED
  BY <1>1, EvalAlways, PTL

\* No answer that is in a checkpoint file is asked for again, whatever the
\* limits of the runs and wherever they are killed.
THEOREM AnswersSpentOnce == EvalSpec => []AskedAgainOnlyForCause
<1>1. EvalInv => AskedAgainOnlyForCause
  <2> SUFFICES ASSUME EvalInv
               PROVE  AskedAgainOnlyForCause
    OBVIOUS
  <2>1. pc = "asking" => case \notin DOMAIN file[agent]
    BY DEF EvalInv, Remembers
  <2>2. ASSUME NEW a \in Agents, NEW c \in 1..Size[a]
        PROVE  answers[a][c] <= 1 + lost
    <3>1. answers[a][c] \in Nat /\ lost \in Nat
      BY DEF EvalInv, EvalTypeOK
    <3>2. answers[a][c] <= lost + (IF Kept(a, c) THEN 1 ELSE 0)
      BY DEF EvalInv, AnswersKept
    <3>3. QED
      BY <3>1, <3>2
  <2>3. QED
    BY <2>1, <2>2 DEF AskedAgainOnlyForCause
<1>2. QED
  BY <1>1, EvalAlways, PTL

\* A checkpoint file that does not load has had a line cut short.
THEOREM KilledRunsResume == EvalSpec => []ResumesUnlessCut
<1>1. EvalInv => ResumesUnlessCut
  BY DEF EvalInv, UncleanIsCut, ResumesUnlessCut, Readable
<1>2. QED
  BY <1>1, EvalAlways, PTL

\* Gates that pass have each agent's cases behind them, all of them, one of
\* them completed and enough of those right.
THEOREM GatesTellTheTruth == EvalSpec => []GatesHonest
<1>1. EvalInv => GatesHonest
  <2> SUFFICES ASSUME EvalInv, pc = "summary", AllPassed, NEW a \in Agents
               PROVE  LET known == Cases(a) \cap DOMAIN file[a]
                          right == {c \in known : file[a][c]} IN
                      /\ known # {}
                      /\ tally[a].completed = Cardinality(known)
                      /\ tally[a].failed = Cardinality(Cases(a) \ known)
                      /\ Cardinality(right) * Share[2] >= Cardinality(known) * Share[1]
    BY DEF GatesHonest
  <2> DEFINE known == Cases(a) \cap DOMAIN file[a]
             right == {c \in known : file[a][c]}
  <2>1. /\ tally[a].completed = Cardinality(known) /\ tally[a].correct = Cardinality(right)
        /\ tally[a].failed = Cardinality(Cases(a) \ DOMAIN file[a])
    BY DEF EvalInv, Tallied, TalliedOf, Behind
  <2>2. Cases(a) \ DOMAIN file[a] = Cases(a) \ known
    OBVIOUS
  <2>3. Cardinality(right) \in Nat /\ Cardinality(known) \in Nat
    BY CasesType, TallyFinite, FS_CardinalityType
  <2>4. Share[1] \in Nat \ {0} /\ Share[2] \in Nat \ {0}
    BY EvaluationAssumption
  <2>5. tally[a].correct * Share[2] >= (IF tally[a].completed = 0 THEN 1 ELSE tally[a].completed) * Share[1]
    BY DEF AllPassed, Passes
  <2>6. known # {}
    <3> SUFFICES ASSUME known = {}
                 PROVE  FALSE
      OBVIOUS
    <3>1. right = {}
      OBVIOUS
    <3>2. Cardinality(known) = 0 /\ Cardinality(right) = 0
      BY <3>1, FS_EmptySet
    <3>3. 0 * Share[2] >= 1 * Share[1]
      BY <2>1, <2>5, <3>2
    <3>4. QED
      BY <2>4, <3>3
  <2>7. Cardinality(known) # 0
    BY <2>6, CasesType, TallyFinite, FS_EmptySet
  <2>8. Cardinality(right) * Share[2] >= Cardinality(known) * Share[1]
    BY <2>1, <2>5, <2>7
  <2>9. QED
    BY <2>1, <2>2, <2>6, <2>8
<1>2. QED
  BY <1>1, EvalAlways, PTL
=============================================================================
