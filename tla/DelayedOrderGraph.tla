------------------------- MODULE DelayedOrderGraph -------------------------
(***************************************************************************)
(* agents/graphs/delayed_order.py with guardrails.py, as run by            *)
(* investigate_delayed_order: one investigation of a delayed order.  The   *)
(* LLM asks for tools or answers, up to MAX_TOOL_ITERATIONS rounds of      *)
(* tools; an answer that is not a decision costs one more call that asks   *)
(* only for it; guardrails then decide who executes the decision.  What    *)
(* the LLM answers is arbitrary.                                           *)
(***************************************************************************)
EXTENDS Naturals

CONSTANTS MAX_TOOL_ITERATIONS,
          None  \* no decision

ASSUME IterationsAssumption == MAX_TOOL_ITERATIONS \in Nat

VARIABLES
  node,             \* the node the graph runs next; "end" or "raised" after it
  tool_iterations,
  reply,            \* the agent's last message
  decision,         \* the validated decision, once node is "end"
  llm_call_count,   \* the graph's own count, stored in AgentExecution
  calls             \* history: LLM calls made

counters == <<llm_call_count, calls>>
vars     == <<node, tool_iterations, reply, decision, counters>>

Severities  == {"LOW", "MEDIUM", "HIGH", "CRITICAL"}
Resolutions == {"TRACK_SHIPMENT", "CONTACT_CARRIER", "CONTACT_CUSTOMER", "ESCALATE", "NO_ACTION"}
Decisions   == [severity : Severities, resolution : Resolutions, requires_human : BOOLEAN]

\* A message: does it call tools, and what does its text parse to?
Replies == [toolCalls : BOOLEAN, content : Decisions \cup {None}]

ASSUME NoneAssumption == None \notin Decisions

Nodes == {"agent", "tools", "decision", "end", "raised"}

TypeOK ==
  /\ node \in Nodes
  /\ tool_iterations \in 0..MAX_TOOL_ITERATIONS
  /\ reply \in Replies
  /\ decision \in Decisions \cup {None}
  /\ llm_call_count \in Nat
  /\ calls \in Nat

Init ==
  /\ node = "agent"
  /\ tool_iterations = 0
  /\ reply = [toolCalls |-> FALSE, content |-> None]
  /\ decision = None
  /\ llm_call_count = 0
  /\ calls = 0

-----------------------------------------------------------------------------

\* should_continue
ShouldContinue(r) ==
  IF tool_iterations >= MAX_TOOL_ITERATIONS \/ ~r.toolCalls THEN "decision" ELSE "tools"

\* agent_node, and the edge out of it.
Agent ==
  /\ node = "agent"
  /\ \E r \in Replies : reply' = r /\ node' = ShouldContinue(r)
  /\ llm_call_count' = llm_call_count + 1
  /\ calls' = calls + 1
  /\ UNCHANGED <<tool_iterations, decision>>

Tools ==
  /\ node = "tools"
  /\ tool_iterations' = tool_iterations + 1
  /\ node' = "agent"
  /\ UNCHANGED <<reply, decision, counters>>

\* validate_decision
Validated(d) ==
  [d EXCEPT !.requires_human = @ \/ d.severity = "CRITICAL" \/ d.resolution = "ESCALATE"]

\* Planted bug: no human review at the cap.
GuardrailsOnly(d) == Validated(d)

\* What decision_node returns: at the cap a human reviews whatever was decided.
Reviewed(d) ==
  [Validated(d) EXCEPT !.requires_human = @ \/ tool_iterations >= MAX_TOOL_ITERATIONS]

\* _decision_from_agent_turn finds the decision in the agent's last message.
AgentDecided == ~reply.toolCalls /\ reply.content # None

DecideFromAgent ==
  /\ node = "decision"
  /\ AgentDecided
  /\ decision' = Reviewed(reply.content)
  /\ node' = "end"
  /\ UNCHANGED <<tool_iterations, reply, counters>>

\* Planted bug: the fallback call starts the count anew.
FallbackMiscounted ==
  /\ node = "decision" /\ ~AgentDecided
  /\ calls' = calls + 1
  /\ llm_call_count' = 1
  /\ \E content \in Decisions : decision' = Reviewed(content) /\ node' = "end"
  /\ UNCHANGED <<tool_iterations, reply>>


\* The fallback call; an answer that does not parse ends the run.
DecideByFallback ==
  /\ node = "decision"
  /\ ~AgentDecided
  /\ calls' = calls + 1
  /\ \/ /\ \E content \in Decisions : decision' = Reviewed(content)
        /\ node' = "end"
        /\ llm_call_count' = llm_call_count + 1
     \/ /\ node' = "raised"
        /\ UNCHANGED <<decision, llm_call_count>>
  /\ UNCHANGED <<tool_iterations, reply>>

\* An LLM call or a tool raises; nothing of the run is kept.
Raise ==
  /\ node \in {"agent", "tools"}
  /\ node' = "raised"
  /\ UNCHANGED <<tool_iterations, reply, decision, counters>>

Next == Agent \/ Tools \/ DecideFromAgent \/ DecideByFallback \/ Raise

Spec == Init /\ [][Next]_vars

-----------------------------------------------------------------------------

\* A decision goes out unreviewed only when the agent had stopped asking for
\* tools of its own accord, within the cap, and neither guardrail applies; the
\* fallback call, which is told to decide, is no way around that.
AutoOnlyIfComplete ==
  node = "end" /\ ~decision.requires_human =>
    /\ ~reply.toolCalls
    /\ tool_iterations < MAX_TOOL_ITERATIONS
    /\ decision.severity # "CRITICAL"
    /\ decision.resolution # "ESCALATE"

\* However the LLM behaves, a run makes at most MAX_TOOL_ITERATIONS + 2 calls.
BoundedCalls == calls <= MAX_TOOL_ITERATIONS + 2

\* The stored count is the number of calls made, the fallback included.
CallsCounted == node = "end" => llm_call_count = calls

=============================================================================
