-------------------------- MODULE MCOrderTimeline --------------------------
(* Instances of the composed pipeline for TLC. *)
EXTENDS AiUsage

Decision(severity, resolution, message, human) ==
  [severity |-> severity, resolution |-> resolution,
   customer_message |-> message, requires_human |-> human]
MCDecisions == {Decision("HIGH", "ESCALATE", FALSE, TRUE),
                Decision("MEDIUM", "CONTACT_CUSTOMER", TRUE, FALSE),
                Decision("LOW", "NO_ACTION", FALSE, FALSE)}
MCVerdicts  == {[priority |-> "LOW", action |-> "RESOLVE", requires_human |-> FALSE],
                [priority |-> "CRITICAL", action |-> "ESCALATE", requires_human |-> TRUE]}
MCFiledPriorities == {"MEDIUM"}

=============================================================================
