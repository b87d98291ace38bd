----------------------- MODULE DelayedOrderGraphProofs -----------------------
(***************************************************************************)
(* For every cap on the tool rounds and whatever the LLM answers: an       *)
(* investigation makes a bounded number of calls, all of them counted, and *)
(* no unfinished investigation is executed without a human.                *)
(***************************************************************************)
EXTENDS DelayedOrderGraph, TLAPS

\* Every round of tools was asked for by one call; the agent's turn, and the
\* fallback, are one more each.
CallsSpent ==
  /\ node = "agent" => calls = tool_iterations
  /\ node \in {"tools", "decision"} => calls = tool_iterations + 1
  /\ node \in {"end", "raised"} => calls <= tool_iterations + 2
  /\ node # "raised" => llm_call_count = calls

\* Only a turn that asks for tools leads to them, and only below the cap.
ToolsBelowCap ==
  /\ node = "tools" => reply.toolCalls /\ tool_iterations < MAX_TOOL_ITERATIONS
  /\ node = "decision" => ~reply.toolCalls \/ tool_iterations = MAX_TOOL_ITERATIONS

IInv == TypeOK /\ CallsSpent /\ ToolsBelowCap /\ AutoOnlyIfComplete

\* The guardrails return a decision, and only ever add the need for a human.
LEMMA ReviewedType ==
  ASSUME NEW d \in Decisions, tool_iterations \in Nat
  PROVE  /\ Reviewed(d) \in Decisions
         /\ ~Reviewed(d).requires_human =>
              /\ ~d.requires_human
              /\ tool_iterations < MAX_TOOL_ITERATIONS
              /\ Reviewed(d).severity # "CRITICAL"
              /\ Reviewed(d).resolution # "ESCALATE"
<1> DEFINE forced == d.severity = "CRITICAL" \/ d.resolution = "ESCALATE"
           capped == tool_iterations >= MAX_TOOL_ITERATIONS
<1>1. d.requires_human \in BOOLEAN
  BY DEF Decisions
<1>2. /\ Validated(d) \in Decisions
      /\ Validated(d).severity = d.severity
      /\ Validated(d).resolution = d.resolution
      /\ Validated(d).requires_human = (d.requires_human \/ forced)
  BY <1>1, Zenon DEF Validated, Decisions
<1>3. /\ Reviewed(d) \in Decisions
      /\ Reviewed(d).severity = d.severity
      /\ Reviewed(d).resolution = d.resolution
      /\ Reviewed(d).requires_human = (Validated(d).requires_human \/ capped)
  BY <1>2, Zenon DEF Reviewed, Decisions
<1>4. ~capped => tool_iterations < MAX_TOOL_ITERATIONS
  BY IterationsAssumption
<1>5. QED
  BY <1>1, <1>2, <1>3, <1>4, Zenon

LEMMA InvStep == IInv /\ [Next]_vars => IInv'
<1> SUFFICES ASSUME IInv, [Next]_vars
             PROVE  IInv'
  OBVIOUS
<1> USE IterationsAssumption, NoneAssumption
    DEF IInv, TypeOK, CallsSpent, ToolsBelowCap, AutoOnlyIfComplete, Nodes, counters, vars
<1>1. CASE Agent
  <2>1. PICK r \in Replies : reply' = r /\ node' = ShouldContinue(r)
    BY <1>1 DEF Agent
  <2>2. QED
    BY <1>1, <2>1 DEF Agent, ShouldContinue, Replies
<1>2. CASE Tools
  BY <1>2 DEF Tools, Replies
<1>3. CASE DecideFromAgent
  <2>1. reply.content \in Decisions /\ ~reply.toolCalls
    BY <1>3 DEF DecideFromAgent, AgentDecided, Replies
  <2>2. decision' \in Decisions /\ ~decision'.requires_human =>
          tool_iterations < MAX_TOOL_ITERATIONS /\ decision'.severity # "CRITICAL"
            /\ decision'.resolution # "ESCALATE"
    BY <1>3, <2>1, ReviewedType DEF DecideFromAgent
  <2>3. decision' \in Decisions
    BY <1>3, <2>1, ReviewedType DEF DecideFromAgent
  <2>4. QED
    BY <1>3, <2>1, <2>2, <2>3 DEF DecideFromAgent
<1>4. CASE DecideByFallback
  <2>1. CASE node' = "raised"
    BY <1>4, <2>1 DEF DecideByFallback
  <2>2. CASE node' # "raised"
    <3>1. PICK content \in Decisions : decision' = Reviewed(content)
      BY <1>4, <2>2 DEF DecideByFallback
    <3>2. /\ decision' \in Decisions
          /\ ~decision'.requires_human =>
               tool_iterations < MAX_TOOL_ITERATIONS /\ decision'.severity # "CRITICAL"
                 /\ decision'.resolution # "ESCALATE"
      BY <3>1, ReviewedType
    <3>3. node' = "end" /\ llm_call_count' = llm_call_count + 1 /\ calls' = calls + 1
          /\ UNCHANGED <<tool_iterations, reply>>
      BY <1>4, <2>2 DEF DecideByFallback
    <3>4. QED
      BY <1>4, <3>2, <3>3 DEF DecideByFallback
  <2>3. QED
    BY <2>1, <2>2
<1>5. CASE Raise
  BY <1>5 DEF Raise
<1>6. CASE UNCHANGED vars
  BY <1>6
<1>7. QED
  BY <1>1, <1>2, <1>3, <1>4, <1>5, <1>6 DEF Next

LEMMA InvAlways == Spec => []IInv
<1>1. Init => IInv
  BY IterationsAssumption
     DEF Init, IInv, TypeOK, CallsSpent, ToolsBelowCap, AutoOnlyIfComplete, Nodes, Replies
<1>2. QED
  BY <1>1, InvStep, PTL DEF Spec

\* Type correctness.
THEOREM TypeCorrect == Spec => []TypeOK
<1>1. IInv => TypeOK
  BY DEF IInv
<1>2. QED
  BY <1>1, InvAlways, PTL

\* No decision of an unfinished investigation, and none a guardrail stops, is
\* executed without a human.
THEOREM HumanInTheLoop == Spec => []AutoOnlyIfComplete
<1>1. IInv => AutoOnlyIfComplete
  BY DEF IInv
<1>2. QED
  BY <1>1, InvAlways, PTL

\* An investigation makes at most MAX_TOOL_ITERATIONS + 2 calls.
THEOREM CallsBounded == Spec => []BoundedCalls
<1>1. IInv => BoundedCalls
  BY IterationsAssumption DEF IInv, TypeOK, CallsSpent, BoundedCalls, Nodes
<1>2. QED
  BY <1>1, InvAlways, PTL

\* The count stored with a finished investigation is the number of calls.
THEOREM UsageIsExact == Spec => []CallsCounted
<1>1. IInv => CallsCounted
  BY DEF IInv, CallsSpent, CallsCounted
<1>2. QED
  BY <1>1, InvAlways, PTL
=============================================================================
