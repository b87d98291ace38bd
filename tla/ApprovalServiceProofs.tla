----------------------- MODULE ApprovalServiceProofs -----------------------
(***************************************************************************)
(* For any number of approvals, concurrent requests, failures and crashes: *)
(* one request at most wins an approval, and what it was told stands.      *)
(***************************************************************************)
EXTENDS ApprovalService, TLAPS

\* An approval has the status the request that holds it asked for; so nobody
\* holds a PENDING one.
HolderDecides == \A r \in Requests : Holds(r) => status[target[r]] = verdict[r]

\* Only an approving request executes, and it has not been answered.
Roles == \A r \in Requests :
           /\ pc[r] \in Executing \cup {"release"} => verdict[r] = "APPROVED"
           /\ pc[r] # "done" => response[r] = "none"

IInv == TypeOK /\ Roles /\ HolderDecides /\ OneWinner

LEMMA TypeStep == TypeOK /\ [Next]_vars => TypeOK'
<1> SUFFICES ASSUME TypeOK, [Next]_vars
             PROVE  TypeOK'
  OBVIOUS
<1> USE DEF TypeOK, Labels, Executing, Statuses, Verdicts, Responses, Goto, Answer, Fault,
        effects, request, vars
<1>1. ASSUME NEW a \in Approvals, CreateApproval(a)
      PROVE  TypeOK'
  BY <1>1 DEF CreateApproval
<1>2. ASSUME NEW r \in Requests, Submit(r)
      PROVE  TypeOK'
  BY <1>2 DEF Submit
<1>3. ASSUME NEW r \in Requests, Claim(r)
      PROVE  TypeOK'
  BY <1>3 DEF Claim
<1>4. ASSUME NEW r \in Requests, CommitTicket(r)
      PROVE  TypeOK'
  BY <1>4 DEF CommitTicket
<1>5. ASSUME NEW r \in Requests, PublishTicket(r)
      PROVE  TypeOK'
  BY <1>5 DEF PublishTicket
<1>6. ASSUME NEW r \in Requests, SendEmail(r)
      PROVE  TypeOK'
  BY <1>6 DEF SendEmail
<1>7. ASSUME NEW r \in Requests, Finish(r)
      PROVE  TypeOK'
  BY <1>7 DEF Finish
<1>8. ASSUME NEW r \in Requests, ExecutionRaises(r)
      PROVE  TypeOK'
  BY <1>8 DEF ExecutionRaises
<1>9. ASSUME NEW r \in Requests, Release(r)
      PROVE  TypeOK'
  BY <1>9 DEF Release
<1>10. ASSUME NEW r \in Requests, ReleaseRaises(r)
       PROVE  TypeOK'
  BY <1>10 DEF ReleaseRaises
<1>11. ASSUME Crash
       PROVE  TypeOK'
  BY <1>11 DEF Crash
<1>12. ASSUME NEW r \in Requests, ClaimRaises(r)
       PROVE  TypeOK'
  BY <1>12 DEF ClaimRaises
<1>13. CASE UNCHANGED vars
  BY <1>13
<1>14. QED
  BY <1>1, <1>2, <1>3, <1>4, <1>5, <1>6, <1>7, <1>8, <1>9, <1>10, <1>11, <1>12, <1>13
     DEF Next, Execute, HandleFailure

\* Type correctness.
THEOREM TypeCorrect == Spec => []TypeOK
<1>1. Init => TypeOK
  BY DEF Init, TypeOK, Labels, Executing, Statuses, Verdicts, Responses
<1>2. QED
  BY <1>1, TypeStep, PTL DEF Spec

-----------------------------------------------------------------------------

LEMMA InvStep == IInv /\ [Next]_vars => IInv'
<1> SUFFICES ASSUME IInv, [Next]_vars
             PROVE  IInv'
  OBVIOUS
<1> USE DEF Roles, HolderDecides, OneWinner, Holds, Executing, Goto, Answer, request, vars
<1>1. TypeOK /\ TypeOK' /\ Roles /\ HolderDecides /\ OneWinner
  BY TypeStep DEF IInv
<1> DEFINE Rest == Roles' /\ HolderDecides' /\ OneWinner'
<1>2. ASSUME NEW a \in Approvals, CreateApproval(a)
      PROVE  Rest
  BY <1>1, <1>2 DEF CreateApproval, TypeOK, Verdicts
<1>3. ASSUME NEW r \in Requests, Submit(r)
      PROVE  Rest
  BY <1>1, <1>3 DEF Submit, TypeOK
<1>4. ASSUME NEW r \in Requests, Claim(r)
      PROVE  Rest
  <2>1. CASE status[target[r]] = "PENDING"
    BY <1>1, <1>4, <2>1 DEF Claim, TypeOK, Verdicts
  <2>2. CASE status[target[r]] # "PENDING"
    BY <1>1, <1>4, <2>2 DEF Claim, TypeOK, Verdicts
  <2>3. QED
    BY <2>1, <2>2
<1>5. ASSUME NEW r \in Requests, CommitTicket(r)
      PROVE  Rest
  BY <1>1, <1>5 DEF CommitTicket, TypeOK
<1>6. ASSUME NEW r \in Requests, PublishTicket(r)
      PROVE  Rest
  BY <1>1, <1>6 DEF PublishTicket, TypeOK
<1>7. ASSUME NEW r \in Requests, SendEmail(r)
      PROVE  Rest
  BY <1>1, <1>7 DEF SendEmail, TypeOK
<1>8. ASSUME NEW r \in Requests, Finish(r)
      PROVE  Rest
  BY <1>1, <1>8 DEF Finish, TypeOK
<1>9. ASSUME NEW r \in Requests, ExecutionRaises(r)
      PROVE  Rest
  BY <1>1, <1>9 DEF ExecutionRaises, TypeOK
<1>10. ASSUME NEW r \in Requests, Release(r)
       PROVE  Rest
  BY <1>1, <1>10 DEF Release, TypeOK, Verdicts
<1>11. ASSUME NEW r \in Requests, ReleaseRaises(r)
       PROVE  Rest
  BY <1>1, <1>11 DEF ReleaseRaises, TypeOK
<1>12. ASSUME Crash
       PROVE  Rest
  BY <1>1, <1>12 DEF Crash, TypeOK
<1>13. ASSUME UNCHANGED vars
       PROVE  Rest
  BY <1>1, <1>13
<1>14. ASSUME NEW r \in Requests, ClaimRaises(r)
       PROVE  Rest
  <2>1. CASE status[target[r]] = "PENDING"
    BY <1>1, <1>14, <2>1 DEF ClaimRaises, TypeOK, Verdicts
  <2>2. CASE status[target[r]] # "PENDING"
    BY <1>1, <1>14, <2>2 DEF ClaimRaises, TypeOK, Verdicts
  <2>3. QED
    BY <2>1, <2>2
<1>15. QED
  BY <1>1, <1>2, <1>3, <1>4, <1>5, <1>6, <1>7, <1>8, <1>9, <1>10, <1>11, <1>12, <1>13, <1>14
     DEF Next, Execute, HandleFailure, IInv

LEMMA InvAlways == Spec => []IInv
<1>1. Init => IInv
  <2>1. Init => TypeOK
    BY DEF Init, TypeOK, Labels, Executing, Statuses, Verdicts, Responses
  <2>2. QED
    BY <2>1 DEF Init, IInv, Roles, HolderDecides, OneWinner, Holds, Executing
<1>2. QED
  BY <1>1, InvStep, PTL DEF Spec

\* However many requests race for an approval and however they fail, at most
\* one holds it.
THEOREM AtMostOneWinner == Spec => []OneWinner
<1>1. IInv => OneWinner
  BY DEF IInv
<1>2. QED
  BY <1>1, InvAlways, PTL

\* An answered approval or rejection is never undone by another request.
THEOREM AnswersStand == Spec => AnswerStands
<1>1. ASSUME IInv, IInv', [Next]_vars, NEW r \in Requests, response[r] = "ok"
      PROVE  status'[target[r]] = verdict[r]
  <2>1. response'[r] = "ok" /\ target' = target /\ verdict' = verdict
    BY <1>1 DEF IInv, TypeOK, Roles, Next, CreateApproval, Submit, Claim, Execute, CommitTicket,
       PublishTicket, SendEmail, Finish, HandleFailure, ClaimRaises, ExecutionRaises, Release,
       ReleaseRaises, Crash, Goto, Answer, Executing, request, vars
  <2>2. QED
    BY <1>1, <2>1 DEF IInv, HolderDecides, Holds
<1>2. IInv /\ IInv' /\ [Next]_vars =>
        [\A r \in Requests : response[r] = "ok" => status'[target[r]] = verdict[r]]_vars
  BY <1>1
<1>3. QED
  BY <1>2, InvAlways, PTL DEF Spec, AnswerStands
-----------------------------------------------------------------------------
(* What executions leave behind. *)

\* No execution left more than failed executions of it explain.
Clean(a) == tickets[a] <= failed[a] /\ emails[a] <= failed[a]

\* How far an execution is says what it can have left: nothing yet where an
\* approval is to be claimed, or is given back after a failure.
Accounted ==
  /\ EffectsHaveACause
  /\ \A a \in Approvals : status[a] \in {"ABSENT", "PENDING"} => Clean(a)
  /\ \A r \in Requests :
       /\ pc[r] \in {"ticket", "release"} => Clean(target[r])
       /\ pc[r] \in {"publish", "email"} => emails[target[r]] <= failed[target[r]]
       /\ pc[r] = "publish" => events[target[r]] < tickets[target[r]]

\* While a request executes, nobody else does, and nobody can claim.
LEMMA Alone ==
  ASSUME IInv, NEW r \in Requests, pc[r] \in Executing \cup {"release"}
  PROVE  /\ target[r] \in Approvals /\ status[target[r]] = "APPROVED"
         /\ \A s \in Requests : s # r /\ target[s] = target[r] =>
              pc[s] \notin Executing \cup {"release"}
BY DEF IInv, TypeOK, Roles, HolderDecides, OneWinner, Holds

LEMMA AccountedStep == IInv /\ Accounted /\ [Next]_vars => Accounted'
<1> SUFFICES ASSUME IInv, Accounted, [Next]_vars
             PROVE  Accounted'
  OBVIOUS
<1> USE DEF Accounted, EffectsHaveACause, Clean, Executing, Goto, Answer, effects, request, vars
<1>1. TypeOK /\ TypeOK' /\ target' = target
  BY TypeStep DEF IInv, Next, CreateApproval, Submit, Claim, Execute, CommitTicket, PublishTicket,
     SendEmail, Finish, HandleFailure, ClaimRaises, ExecutionRaises, Release, ReleaseRaises, Crash
<1>2. ASSUME NEW a \in Approvals, CreateApproval(a)
      PROVE  Accounted'
  BY <1>1, <1>2 DEF CreateApproval, TypeOK
<1>3. ASSUME NEW r \in Requests, Submit(r) \/ Claim(r) \/ ClaimRaises(r) \/ ReleaseRaises(r)
      PROVE  Accounted'
  <2>1. UNCHANGED <<effects, failed>>
    BY <1>3 DEF Submit, Claim, ClaimRaises, ReleaseRaises
  <2>2. ASSUME NEW s \in Requests
        PROVE  \/ pc'[s] = pc[s] \/ pc'[s] \in {"claim", "done"}
               \/ pc'[s] = "ticket" /\ status[target[s]] = "PENDING"
    <3>1. CASE Submit(r) \/ ClaimRaises(r) \/ ReleaseRaises(r)
      BY <1>1, <3>1 DEF Submit, ClaimRaises, ReleaseRaises, TypeOK
    <3>2. CASE Claim(r)
      BY <1>1, <3>2 DEF Claim, TypeOK
    <3>3. QED
      BY <1>3, <3>1, <3>2
  <2>3. \A a \in Approvals : status'[a] \in {"ABSENT", "PENDING"} => status[a] = status'[a]
    BY <1>1, <1>3 DEF Submit, Claim, ClaimRaises, ReleaseRaises, TypeOK, Verdicts
  <2>4. QED
    BY <1>1, <2>1, <2>2, <2>3 DEF TypeOK
<1>4. ASSUME NEW r \in Requests, CommitTicket(r)
      PROVE  Accounted'
  BY <1>1, <1>4, Alone DEF CommitTicket, TypeOK
<1>5. ASSUME NEW r \in Requests, PublishTicket(r)
      PROVE  Accounted'
  BY <1>1, <1>5, Alone DEF PublishTicket, TypeOK
<1>6. ASSUME NEW r \in Requests, SendEmail(r)
      PROVE  Accounted'
  BY <1>1, <1>6, Alone DEF SendEmail, TypeOK
<1>7. ASSUME NEW r \in Requests, Finish(r)
      PROVE  Accounted'
  BY <1>1, <1>7 DEF Finish, TypeOK
<1>8. ASSUME NEW r \in Requests, ExecutionRaises(r)
      PROVE  Accounted'
  BY <1>1, <1>8, Alone DEF ExecutionRaises, TypeOK
<1>9. ASSUME NEW r \in Requests, Release(r)
      PROVE  Accounted'
  BY <1>1, <1>9, Alone DEF Release, TypeOK
<1>10. ASSUME Crash
       PROVE  Accounted'
  BY <1>1, <1>10 DEF Crash, TypeOK
<1>11. CASE UNCHANGED vars
  BY <1>1, <1>11
<1>12. QED
  BY <1>2, <1>3, <1>4, <1>5, <1>6, <1>7, <1>8, <1>9, <1>10, <1>11 DEF Next, Execute, HandleFailure

\* Every ticket and email of an approval but one has an execution behind it
\* that raised, and no event is published without its ticket.
THEOREM EffectsAreExplained == Spec => []EffectsHaveACause
<1>1. Init => Accounted
  BY DEF Init, Accounted, EffectsHaveACause, Clean
<1>2. Accounted => EffectsHaveACause
  BY DEF Accounted
<1>3. QED
  BY <1>1, <1>2, AccountedStep, InvAlways, PTL DEF Spec

-----------------------------------------------------------------------------
(* Who leaves an approval stuck. *)

LEMMA StuckStep == IInv /\ StuckOnlyByFault /\ [Next]_vars => StuckOnlyByFault'
<1> SUFFICES ASSUME IInv, StuckOnlyByFault, [Next]_vars,
                    NEW a \in Approvals, status'[a] = "APPROVED",
                    \A r \in Requests : Holds(r)' => target'[r] # a
             PROVE  (faults["crash"] > 0 \/ \E r \in Requests : target[r] = a /\ response[r] = "error")'
  BY DEF StuckOnlyByFault
<1> DEFINE Excused == faults["crash"] > 0 \/ \E r \in Requests : target[r] = a /\ response[r] = "error"
<1> USE DEF Holds, Executing, Goto, Answer, Fault, effects, request, vars
<1>1. TypeOK /\ TypeOK' /\ target' = target
  BY TypeStep DEF IInv, Next, CreateApproval, Submit, Claim, Execute, CommitTicket, PublishTicket,
     SendEmail, Finish, HandleFailure, ClaimRaises, ExecutionRaises, Release, ReleaseRaises, Crash
<1>2. Excused => Excused'
  BY <1>1 DEF IInv, Roles, TypeOK, Next, CreateApproval, Submit, Claim, Execute, CommitTicket,
     PublishTicket, SendEmail, Finish, HandleFailure, ClaimRaises, ExecutionRaises, Release,
     ReleaseRaises, Crash
<1>3. CASE status[a] = "APPROVED" /\ \A r \in Requests : Holds(r) => target[r] # a
  BY <1>2, <1>3 DEF StuckOnlyByFault
<1>4. CASE status[a] # "APPROVED"
  BY <1>1, <1>4 DEF IInv, Roles, TypeOK, Verdicts, Next, CreateApproval, Submit, Claim, Execute,
     CommitTicket, PublishTicket, SendEmail, Finish, HandleFailure, ClaimRaises, ExecutionRaises,
     Release, ReleaseRaises, Crash
<1>5. ASSUME NEW r \in Requests, Holds(r), target[r] = a
      PROVE  Excused'
  <2>1. ~Holds(r)'
    BY <1>1, <1>5
  <2>2. Crash \/ Release(r) \/ ReleaseRaises(r)
    BY <1>1, <1>5, <2>1 DEF IInv, Roles, TypeOK, Next, CreateApproval, Submit, Claim, Execute,
       CommitTicket, PublishTicket, SendEmail, Finish, HandleFailure, ClaimRaises, ExecutionRaises,
       Release, ReleaseRaises
  <2>3. CASE Crash
    BY <1>1, <2>3 DEF Crash, TypeOK
  <2>4. CASE Release(r)
    BY <1>1, <1>5, <2>4 DEF Release, TypeOK
  <2>5. CASE ReleaseRaises(r)
    BY <1>1, <1>5, <2>5 DEF ReleaseRaises, TypeOK
  <2>6. QED
    BY <2>2, <2>3, <2>4, <2>5
<1>6. QED
  BY <1>3, <1>4, <1>5

\* An approval stays APPROVED with nobody executing it and nobody told only
\* after a crash, or a claim or a release that failed itself.
THEOREM StuckNeedsFault == Spec => []StuckOnlyByFault
<1>1. Init => StuckOnlyByFault
  BY DEF Init, StuckOnlyByFault
<1>2. QED
  BY <1>1, StuckStep, InvAlways, PTL DEF Spec
=============================================================================
