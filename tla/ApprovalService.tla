-------------------------- MODULE ApprovalService --------------------------
(***************************************************************************)
(* services/approval_service.py with services/action_service.py: human     *)
(* approvals that concurrent API requests approve or reject.  A request    *)
(* claims the approval with one UPDATE ... WHERE status = 'PENDING', and   *)
(* an approving one then executes the stored decision: a ticket, a         *)
(* TICKET_CREATED event, an email, each committed on its own.  A failure   *)
(* puts the approval back to PENDING; a crash of the API does not.         *)
(***************************************************************************)
EXTENDS Naturals, FiniteSets

CONSTANTS Approvals,
          Requests,     \* API requests, each used once: clicks, double clicks, retries
          Ticketed,     \* approvals whose resolution creates a ticket
          Triaged,      \* of these, the ones published for triage
          Emailed,      \* approvals whose execution emails the customer
          MaxFailures,  \* bound: exceptions raised while executing or releasing
          MaxCrashes    \* bound: crashes of the API process

ASSUME KindsAssumption == /\ Ticketed \subseteq Approvals
                          /\ Emailed \subseteq Approvals
                          /\ Triaged \subseteq Ticketed \cap Emailed
ASSUME BoundsAssumption == MaxFailures \in Nat /\ MaxCrashes \in Nat

VARIABLES
  status,    \* human_approvals.status
  tickets, events, emails,  \* what executing each approval has left behind
  pc,        \* where each request is
  target,    \* the approval it is about
  verdict,   \* the status it asks for
  response,  \* what its caller was told
  failed,    \* history: executions of each approval that raised
  faults     \* failures and crashes so far

request == <<target, verdict>>
effects == <<tickets, events, emails>>
vars    == <<status, effects, pc, request, response, failed, faults>>

Verdicts  == {"APPROVED", "REJECTED"}
Statuses  == Verdicts \cup {"ABSENT", "PENDING"}
Executing == {"ticket", "publish", "email", "finish"}
Labels    == Executing \cup {"idle", "claim", "release", "done"}
Responses == {"none", "ok", "refused", "retry", "error"}

Goto(r, label)   == pc' = [pc EXCEPT ![r] = label]
Answer(r, reply) == Goto(r, "done") /\ response' = [response EXCEPT ![r] = reply]

\* A fault of this kind may still happen, and is counted.
Fault(kind, bound) == /\ faults[kind] < bound
                      /\ faults' = [faults EXCEPT ![kind] = @ + 1]

TypeOK ==
  /\ status \in [Approvals -> Statuses]
  /\ tickets \in [Approvals -> Nat]
  /\ events \in [Approvals -> Nat]
  /\ emails \in [Approvals -> Nat]
  /\ pc \in [Requests -> Labels]
  /\ target \in [Requests -> Approvals]
  /\ verdict \in [Requests -> Verdicts]
  /\ response \in [Requests -> Responses]
  /\ failed \in [Approvals -> Nat]
  /\ faults \in [{"failure", "crash"} -> Nat]

Init ==
  /\ status = [a \in Approvals |-> "ABSENT"]
  /\ tickets = [a \in Approvals |-> 0]
  /\ events = [a \in Approvals |-> 0]
  /\ emails = [a \in Approvals |-> 0]
  /\ pc = [r \in Requests |-> "idle"]
  /\ target \in [Requests -> Approvals]
  /\ verdict \in [Requests -> Verdicts]
  /\ response = [r \in Requests |-> "none"]
  /\ failed = [a \in Approvals |-> 0]
  /\ faults = [kind \in {"failure", "crash"} |-> 0]

-----------------------------------------------------------------------------

\* The worker asks for a human decision.
CreateApproval(a) ==
  /\ status[a] = "ABSENT"
  /\ status' = [status EXCEPT ![a] = "PENDING"]
  /\ UNCHANGED <<effects, pc, request, response, failed, faults>>

\* A reviewer clicks: POST /admin/approvals/{id}/approve or /reject.
Submit(r) ==
  /\ pc[r] = "idle"
  /\ status[target[r]] # "ABSENT"
  /\ Goto(r, "claim")
  /\ UNCHANGED <<status, effects, request, response, failed, faults>>

\* Planted bugs: an UPDATE without its WHERE status = 'PENDING'; a claim inside
\* approve's try block, so that the loser of the race releases the winner.
ClaimAnyStatus(r) ==
  /\ pc[r] = "claim"
  /\ status' = [status EXCEPT ![target[r]] = verdict[r]]
  /\ \/ verdict[r] = "REJECTED" /\ Answer(r, "ok")
     \/ verdict[r] = "APPROVED" /\ Goto(r, "ticket") /\ UNCHANGED response
  /\ UNCHANGED <<effects, request, failed, faults>>
ClaimInsideTry(r) ==
  /\ pc[r] = "claim"
  /\ \/ /\ status[target[r]] = "PENDING"
        /\ status' = [status EXCEPT ![target[r]] = verdict[r]]
        /\ \/ verdict[r] = "REJECTED" /\ Answer(r, "ok")
           \/ verdict[r] = "APPROVED" /\ Goto(r, "ticket") /\ UNCHANGED response
     \/ /\ status[target[r]] # "PENDING"
        /\ Goto(r, "release")
        /\ UNCHANGED <<status, response>>
  /\ UNCHANGED <<effects, request, failed, faults>>

\* _claim_approval: the UPDATE and its commit take effect as one step.
\* A rejection is answered at once, an approval goes on to execute.
Claim(r) ==
  /\ pc[r] = "claim"
  /\ \/ /\ status[target[r]] = "PENDING"
        /\ status' = [status EXCEPT ![target[r]] = verdict[r]]
        /\ \/ verdict[r] = "REJECTED" /\ Answer(r, "ok")
           \/ verdict[r] = "APPROVED" /\ Goto(r, "ticket") /\ UNCHANGED response
     \/ /\ status[target[r]] # "PENDING"
        /\ Answer(r, "refused")
        /\ UNCHANGED status
  /\ UNCHANGED <<effects, request, failed, faults>>

\* The claim fails, the database being down; it may have been committed.
ClaimRaises(r) ==
  /\ pc[r] = "claim"
  /\ Fault("failure", MaxFailures)
  /\ \/ UNCHANGED status
     \/ /\ status[target[r]] = "PENDING"
        /\ status' = [status EXCEPT ![target[r]] = verdict[r]]
  /\ Answer(r, "error")
  /\ UNCHANGED <<effects, request, failed>>

-----------------------------------------------------------------------------
(* execute_decision, on behalf of an approving request. *)

CommitTicket(r) ==
  /\ pc[r] = "ticket"
  /\ tickets' = [tickets EXCEPT ![target[r]] = @ + (IF target[r] \in Ticketed THEN 1 ELSE 0)]
  /\ Goto(r, IF target[r] \in Ticketed THEN "publish" ELSE "email")
  /\ UNCHANGED <<status, events, emails, request, response, failed, faults>>

\* publish_event of TICKET_CREATED for the triaged resolutions; its failure is
\* recorded in the actions and swallowed.
PublishTicket(r) ==
  /\ pc[r] = "publish"
  /\ \/ /\ target[r] \in Triaged
        /\ events' = [events EXCEPT ![target[r]] = @ + 1]
        /\ UNCHANGED faults
     \/ /\ target[r] \in Triaged
        /\ Fault("failure", MaxFailures)
        /\ UNCHANGED events
     \/ target[r] \notin Triaged /\ UNCHANGED <<events, faults>>
  /\ Goto(r, "email")
  /\ UNCHANGED <<status, tickets, emails, request, response, failed>>

\* send_customer_email: the mail leaves, then its notification row commits.
SendEmail(r) ==
  /\ pc[r] = "email"
  /\ emails' = [emails EXCEPT ![target[r]] = @ + (IF target[r] \in Emailed THEN 1 ELSE 0)]
  /\ Goto(r, "finish")
  /\ UNCHANGED <<status, tickets, events, request, response, failed, faults>>

Finish(r) ==
  /\ pc[r] = "finish"
  /\ Answer(r, "ok")
  /\ UNCHANGED <<status, effects, request, failed, faults>>

\* An exception leaves execute_decision: the database fails at a commit, at the
\* refresh of the ticket, or at the notification row, after the mail has left.
ExecutionRaises(r) ==
  /\ pc[r] \in Executing
  /\ Fault("failure", MaxFailures)
  /\ failed' = [failed EXCEPT ![target[r]] = @ + 1]
  /\ Goto(r, "release")
  /\ \/ UNCHANGED emails
     \/ /\ pc[r] = "email" /\ target[r] \in Emailed
        /\ emails' = [emails EXCEPT ![target[r]] = @ + 1]
  /\ UNCHANGED <<status, tickets, events, request, response>>

\* Planted bug: no release.
NoRelease(r) ==
  /\ pc[r] = "release"
  /\ Answer(r, "retry")
  /\ UNCHANGED <<status, effects, request, failed, faults>>

\* _release_approval: back to PENDING if it is APPROVED, and the caller may retry.
Release(r) ==
  /\ pc[r] = "release"
  /\ status' = [status EXCEPT ![target[r]] = IF @ = "APPROVED" THEN "PENDING" ELSE @]
  /\ Answer(r, "retry")
  /\ UNCHANGED <<effects, request, failed, faults>>

\* The release itself fails, the database being down: an internal server error.
ReleaseRaises(r) ==
  /\ pc[r] = "release"
  /\ Fault("failure", MaxFailures)
  /\ Answer(r, "error")
  /\ UNCHANGED <<status, effects, request, failed>>

\* The API process dies: every request in flight is gone, what was committed stays.
Crash ==
  /\ \E r \in Requests : pc[r] \notin {"idle", "done"}
  /\ Fault("crash", MaxCrashes)
  /\ pc' = [r \in Requests |-> IF pc[r] = "idle" THEN "idle" ELSE "done"]
  /\ UNCHANGED <<status, effects, request, response, failed>>

Execute(r) == CommitTicket(r) \/ PublishTicket(r) \/ SendEmail(r) \/ Finish(r)
HandleFailure(r) == ClaimRaises(r) \/ ExecutionRaises(r) \/ Release(r) \/ ReleaseRaises(r)

Next == \/ \E a \in Approvals : CreateApproval(a)
        \/ \E r \in Requests : Submit(r) \/ Claim(r) \/ Execute(r) \/ HandleFailure(r)
        \/ Crash

Spec == Init /\ [][Next]_vars

-----------------------------------------------------------------------------

\* A request holds its approval from the claim to its release, and for good
\* once it was answered with success.
Holds(r) == \/ pc[r] \in Executing \cup {"release"}
            \/ response[r] = "ok"

\* At most one of any number of concurrent requests has an approval: two
\* reviewers, a double click, a retry after a failure cannot both win
\* (_claim_approval, _release_approval).
OneWinner == \A r, s \in Requests : r # s /\ Holds(r) /\ Holds(s) => target[r] # target[s]

\* What a caller was told stays true: no request that fails or retries later
\* undoes an approval that was executed or a rejection.
AnswerStands ==
  [][\A r \in Requests : response[r] = "ok" => status'[target[r]] = verdict[r]]_vars

\* Every ticket of an approval but one is explained by an execution that
\* raised, and each email likewise.
EffectsHaveACause ==
  \A a \in Approvals : /\ tickets[a] <= 1 + failed[a]
                       /\ emails[a] <= 1 + failed[a]
                       /\ events[a] <= tickets[a]

\* An approval is left APPROVED with nobody executing it and nobody told only
\* by a crash of the API or by a failure of the claim or the release itself.
StuckOnlyByFault ==
  \A a \in Approvals :
    status[a] = "APPROVED" /\ (\A r \in Requests : Holds(r) => target[r] # a) =>
      faults["crash"] > 0 \/ \E r \in Requests : target[r] = a /\ response[r] = "error"

\* "Rejecting an approval flips the row to REJECTED and logs it.  Nothing is
\* executed and the customer isn't emailed" (ARCHITECTURE.md).
RejectedIsUntouched ==
  \A a \in Approvals : status[a] = "REJECTED" => tickets[a] = 0 /\ events[a] = 0 /\ emails[a] = 0
=============================================================================
