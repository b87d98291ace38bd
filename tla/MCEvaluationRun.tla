-------------------------- MODULE MCEvaluationRun --------------------------
EXTENDS EvaluationRun

MCSize     == [delayed_order |-> 2, triage |-> 1]
MCLimits   == {1, 2}
MCExpected == <<"LOW", "CRITICAL">>
MCShare    == <<7, 10>>

\* What a message says beside its tool calls is never read, so states that
\* differ only in it are the same.
MessageRead == [reply EXCEPT !.content = IF reply.toolCalls THEN None ELSE @]
MCView == <<node, tool_iterations, decision, counters, MessageRead, evalVars>>
=============================================================================
