----------------------- MODULE AgentOperations_proofs -----------------------
(***************************************************************************)
(* Proofs about CaseLifecycle and AgentOperations, for any investigations, *)
(* any proposals and any bounds.  The case comes first, as its own machine;*)
(* then the operations, which take no step of the case that CaseLifecycle  *)
(* does not take, so what is proved of it holds with their workers         *)
(* interleaved.                                                            *)
(***************************************************************************)
EXTENDS AgentOperations, TLAPS

-----------------------------------------------------------------------------
(* The case.                                                                *)

Acted == {"ACTIONED", "VERIFYING", "RESOLVED"}

LEMMA CaseFacts ==
    ASSUME TypeOK
    PROVE  /\ case = [state |-> case.state, epoch |-> case.epoch]
           /\ case.state \in CaseStates /\ case.epoch \in Nat
BY DEF TypeOK

-----------------------------------------------------------------------------
(* A change of what a compile reads: the epoch moves with it, and a case    *)
(* that was acted upon stays as it is.                                      *)
LEMMA InputsStep ==
    ASSUME IInv, ChangeInputs,
           case' \in [state : CaseStates, epoch : Nat], case'.epoch = case.epoch + 1,
           \/ case'.state = case.state
           \/ case.state \notin Acted /\ case'.state \notin Acted,
           UNCHANGED <<view, pointer, proposal, execution, fence, granted, located,
                       commitment>>,
           replied' \subseteq located
    PROVE  IInv'
<1> USE DEF IInv, ChangeInputs
<1>1. TypeOK' BY DEF TypeOK, Views
<1>2. OneOpenAction' BY DEF OneOpenAction, Current
<1>3. FreshProposalStands'
  <2> SUFFICES ASSUME NEW a \in Actions PROVE proposal[a].inputs # inputs'
    BY DEF FreshProposalStands
  <2> QED BY DEF EpochCountsInputs, TypeOK, Views
<1>4. ActedUponMeansSent' BY DEF ActedUponMeansSent, Acted
<1>5. VerifyingMeansPromise' BY DEF VerifyingMeansPromise, Live, Current, Acted
<1>6. EpochCountsInputs' BY DEF EpochCountsInputs, TypeOK, Views
<1>7. SentStays' BY DEF SentStays
<1> QED BY <1>1, <1>2, <1>3, <1>4, <1>5, <1>6, <1>7

LEMMA BumpStep ==
    ASSUME TypeOK, BumpCase
    PROVE  /\ case' \in [state : CaseStates, epoch : Nat]
           /\ case'.state = case.state /\ case'.epoch = case.epoch + 1
BY DEF TypeOK, BumpCase

(* A sensitive edge between states in which nothing was acted upon. *)
LEMMA SensitiveStep ==
    ASSUME TypeOK,
           \/ MoveCase("AWAITING_MANDATES") \/ MoveCase("INVESTIGATING")
           \/ case.state = "INVESTIGATING" /\ MoveCase("READY_FOR_ACTION")
    PROVE  /\ case' \in [state : CaseStates, epoch : Nat]
           /\ case'.epoch = case.epoch + 1
           /\ case.state \notin Acted /\ case'.state \notin Acted
<1>1. CASE MoveCase("AWAITING_MANDATES")
  BY <1>1 DEF TypeOK, MoveCase, Edges, Sensitive, Acted, CaseStates
<1>2. CASE MoveCase("INVESTIGATING")
  BY <1>2 DEF TypeOK, MoveCase, Edges, Sensitive, Acted, CaseStates
<1>3. CASE case.state = "INVESTIGATING" /\ MoveCase("READY_FOR_ACTION")
  BY <1>3 DEF TypeOK, MoveCase, Edges, Sensitive, Acted, CaseStates
<1> QED BY <1>1, <1>2, <1>3

(* What is disclosed keeps the invariant. *)
LEMMA DisclosureKeeps == ASSUME IInv, Disclosure PROVE IInv'
<1>0. TypeOK /\ replied \subseteq located BY DEF IInv, SentStays
<1>a. ASSUME \/ MoveCase("AWAITING_MANDATES") \/ MoveCase("INVESTIGATING")
             \/ case.state = "INVESTIGATING" /\ MoveCase("READY_FOR_ACTION"),
             ChangeInputs, UNCHANGED <<view, actions>>
      PROVE  IInv'
  <2>1. /\ case' \in [state : CaseStates, epoch : Nat] /\ case'.epoch = case.epoch + 1
        /\ case.state \notin Acted /\ case'.state \notin Acted
    BY <1>0, <1>a, SensitiveStep
  <2> QED BY <1>0, <1>a, <2>1, InputsStep DEF actions
<1>b. ASSUME BumpCase, ChangeInputs, UNCHANGED <<view, actions>> PROVE IInv'
  <2>1. /\ case' \in [state : CaseStates, epoch : Nat]
        /\ case'.state = case.state /\ case'.epoch = case.epoch + 1
    BY <1>0, <1>b, BumpStep
  <2> QED BY <1>0, <1>b, <2>1, InputsStep DEF actions
<1>1. CASE ProposeMandates
  BY <1>a, <1>1 DEF ProposeMandates
<1>2. ASSUME NEW withdraws \in BOOLEAN, DecideMandate(withdraws) PROVE IInv'
  <2>1. CASE MoveCase("INVESTIGATING")
    BY <1>a, <1>2, <2>1 DEF DecideMandate
  <2>2. CASE BumpCase
    BY <1>b, <1>2, <2>2 DEF DecideMandate
  <2> QED BY <1>2, <2>1, <2>2 DEF DecideMandate
<1>3. ASSUME NEW ready \in BOOLEAN, RunInvestigation(ready) PROVE IInv'
  <2>1. CASE MoveCase("INVESTIGATING")
    BY <1>a, <1>3, <2>1 DEF RunInvestigation, Assess
  <2>2. CASE case.state = "INVESTIGATING" /\ MoveCase("READY_FOR_ACTION")
    BY <1>a, <1>3, <2>2 DEF RunInvestigation, Assess
  <2>3. CASE BumpCase
    BY <1>b, <1>3, <2>3 DEF RunInvestigation, Assess
  <2> QED BY <1>3, <2>1, <2>2, <2>3 DEF RunInvestigation, Assess
<1>4. CASE LinkReport
  BY <1>b, <1>4 DEF LinkReport
<1>5. CASE CompileView
  <2> USE <1>5 DEF CompileView, IInv, actions
  <2>1. view' \in Views /\ view'.epoch = case.epoch /\ view'.inputs = inputs
        /\ view'.id = view.id + 1
    BY DEF TypeOK, Views
  <2>2. TypeOK' BY <2>1 DEF TypeOK, Views
  <2>3. OneOpenAction' /\ FreshProposalStands' /\ ActedUponMeansSent' /\ VerifyingMeansPromise'
        /\ SentStays'
    BY DEF OneOpenAction, FreshProposalStands, ActedUponMeansSent, VerifyingMeansPromise,
       SentStays, Current, EpochStands, Live
  <2>4. EpochCountsInputs' BY <2>1 DEF EpochCountsInputs, TypeOK
  <2> QED BY <2>2, <2>3, <2>4
<1> QED BY <1>1, <1>2, <1>3, <1>4, <1>5 DEF Disclosure

-----------------------------------------------------------------------------
(* A proposal is made where nothing else is open or was sent. *)
LEMMA ProposeKeeps == ASSUME IInv, NEW a \in Actions, ProposeAction(a) PROVE IInv'
<1> USE NoneAssumption DEF IInv, ProposeAction, Draft
<1>1. case' = [state |-> "ACTION_PROPOSED", epoch |-> case.epoch]
  BY DEF MoveCase, Sensitive
<1>2. /\ pointer' = [action |-> a, status |-> "DRAFT"] /\ pointer' \in Pointers /\ pointer' # None
      /\ pointer'.action = a /\ pointer'.status = "DRAFT"
  BY DEF Pointers
<1>3. \A b \in Actions : execution[b] \in {"NONE", "FAILED"}
  BY DEF OneOpenAction, Replaceable, Current, TypeOK, Pointers
<1>4. \A b \in Actions : /\ execution'[b] = IF b = a THEN "DRAFT" ELSE execution[b]
                         /\ proposal'[b] = IF b = a THEN view ELSE proposal[b]
  BY DEF TypeOK
<1>5. TypeOK'
  <2>1. view # NoView BY DEF ViewStands, NoView
  <2>2. \A b \in Actions : proposal'[b] = NoView <=> execution'[b] = "NONE"
    BY <1>4, <2>1 DEF TypeOK
  <2> QED BY <1>1, <1>2, <2>2 DEF TypeOK, CaseStates, ExecutionStates
<1>6. OneOpenAction' BY <1>2, <1>3, <1>4 DEF OneOpenAction, Current
<1>7. FreshProposalStands'
  BY <1>1, <1>3, <1>4 DEF FreshProposalStands, EpochStands, ViewStands
<1>8. ActedUponMeansSent' BY <1>1 DEF ActedUponMeansSent
<1>9. VerifyingMeansPromise' BY <1>1 DEF VerifyingMeansPromise, Live
<1>10. EpochCountsInputs' BY <1>1, <1>4 DEF EpochCountsInputs
<1>11. SentStays' BY <1>2, <1>3, <1>4 DEF SentStays, TypeOK
<1> QED BY <1>5, <1>6, <1>7, <1>8, <1>9, <1>10, <1>11

(* An execution that is open is the case's current, undecided-upon action,  *)
(* and no case was acted upon nor anything promised while there is one.     *)
LEMMA OpenMeansNotActed ==
    ASSUME IInv, NEW a \in Actions, Current(a), execution[a] # "SENT"
    PROVE  case.state \notin Acted /\ \A b \in Actions : ~Live(b)
BY DEF IInv, ActedUponMeansSent, VerifyingMeansPromise, Current, Acted

(* A cleared proposal leaves nothing open. *)
LEMMA ClearKeeps ==
    ASSUME IInv, NEW a \in Actions, Current(a),
           execution[a] \in {"DRAFT", "APPROVED", "FAILED"}, Clear(a)
    PROVE  IInv'
<1> USE NoneAssumption DEF IInv, Clear
<1>1. /\ case' \in [state : CaseStates, epoch : Nat] /\ case'.epoch = case.epoch
      /\ case'.state \notin Acted
  <2>1. CASE UNCHANGED case
    BY <2>1, OpenMeansNotActed DEF TypeOK
  <2>2. CASE case.state = "ACTION_PROPOSED" /\ MoveCase("READY_FOR_ACTION")
    BY <2>2 DEF MoveCase, Sensitive, TypeOK, CaseStates, Acted
  <2> QED BY <2>1, <2>2 DEF ReconcileReadiness
<1>2. pointer' \in Pointers /\ pointer' # None /\ pointer'.action = a
  BY DEF Pointers
<1>3. \A b \in Actions : execution'[b] = IF b = a THEN "FAILED" ELSE execution[b]
  BY DEF TypeOK
<1>4. \A b \in Actions : execution'[b] \in {"NONE", "FAILED"}
  BY <1>3 DEF OneOpenAction, Current
<1>5. TypeOK' BY <1>1, <1>2, <1>3 DEF TypeOK, ExecutionStates
<1>6. OneOpenAction' BY <1>4 DEF OneOpenAction
<1>7. FreshProposalStands' BY <1>4 DEF FreshProposalStands
<1>8. ActedUponMeansSent' BY <1>1 DEF ActedUponMeansSent, Acted
<1>9. VerifyingMeansPromise'
  BY <1>1, OpenMeansNotActed DEF VerifyingMeansPromise, Live, Acted
<1>10. EpochCountsInputs' BY <1>1 DEF EpochCountsInputs
<1>11. SentStays' BY <1>2, <1>3, <1>4 DEF SentStays
<1> QED BY <1>5, <1>6, <1>7, <1>8, <1>9, <1>10, <1>11

(* A step of an execution that has begun, other than its proposal and its   *)
(* clearing.                                                                *)
LEMMA ExecutionKeeps ==
    ASSUME IInv, NEW a \in Actions, NEW s \in ExecutionStates \ {"NONE", "DRAFT"},
           execution[a] \in {"DRAFT", "APPROVED", "SENDING", "SEND_UNKNOWN"},
           s \in {"APPROVED", "SENDING"} => execution[a] \in {"DRAFT", "APPROVED"},
           execution' = [execution EXCEPT ![a] = s],
           UNCHANGED <<case, inputs, view, pointer, proposal, granted, located, replied,
                       commitment, fence>>
    PROVE  IInv'
<1> USE DEF IInv
<1>1. \A b \in Actions : execution'[b] = IF b = a THEN s ELSE execution[b]
  BY DEF TypeOK
<1>2. Current(a) /\ pointer.status = "DRAFT" BY DEF OneOpenAction
<1>3. TypeOK' BY <1>1 DEF TypeOK
<1>4. OneOpenAction' BY <1>1, <1>2 DEF OneOpenAction, Current
<1>5. FreshProposalStands' BY <1>1 DEF FreshProposalStands, EpochStands
<1>6. ActedUponMeansSent' BY <1>2, OpenMeansNotActed DEF ActedUponMeansSent, Acted
<1>7. VerifyingMeansPromise' BY DEF VerifyingMeansPromise, Live, Current
<1>8. EpochCountsInputs' BY DEF EpochCountsInputs
<1>9. SentStays' BY <1>1, <1>2 DEF SentStays, Current
<1> QED BY <1>3, <1>4, <1>5, <1>6, <1>7, <1>8, <1>9

(* The send and its outcome. *)
LEMMA SendKeeps ==
    ASSUME IInv, NEW a \in Actions,
           \/ Approve(a) \/ ClaimSend(a) \/ AuthorizeSend(a) \/ RecordOutcome(a)
           \/ ResolveUnknown(a)
    PROVE  IInv'
<1>1. CASE Approve(a)
  BY <1>1, ExecutionKeeps DEF Approve, ExecutionStates
<1>2. CASE ClaimSend(a)
  <2>1. PICK s \in {"SENDING", "FAILED"} : SetExecution(a, s) BY <1>2 DEF ClaimSend
  <2> QED BY <1>2, <2>1, ExecutionKeeps DEF ClaimSend, SetExecution, ExecutionStates
<1>3. CASE AuthorizeSend(a)
  <2> USE <1>3 DEF AuthorizeSend, IInv
  <2>1. TypeOK' BY DEF TypeOK
  <2> QED
    BY <2>1 DEF OneOpenAction, FreshProposalStands, ActedUponMeansSent, VerifyingMeansPromise,
       SentStays, EpochCountsInputs, Current, EpochStands, Live
<1>4. CASE RecordOutcome(a)
  <2>1. PICK s \in {"FAILED", "SEND_UNKNOWN", "SENT"} : SetExecution(a, s)
    BY <1>4 DEF RecordOutcome
  <2> QED BY <1>4, <2>1, ExecutionKeeps DEF RecordOutcome, SetExecution, ExecutionStates
<1>5. CASE ResolveUnknown(a)
  <2>1. PICK s \in {"FAILED", "SENT"} : SetExecution(a, s)
    BY <1>5 DEF ResolveUnknown
  <2> QED BY <1>5, <2>1, ExecutionKeeps DEF ResolveUnknown, SetExecution, ExecutionStates
<1> QED BY <1>1, <1>2, <1>3, <1>4, <1>5

LEMMA FenceEndKeeps == ASSUME IInv, FenceEnds PROVE IInv'
<1> USE DEF IInv, FenceEnds
<1>1. TypeOK' BY DEF TypeOK
<1> QED
  BY <1>1 DEF OneOpenAction, FreshProposalStands, ActedUponMeansSent, VerifyingMeansPromise,
     SentStays, EpochCountsInputs, Current, EpochStands, Live

(* What was sent is the current action, and while it is not located it has  *)
(* not been cleared.                                                        *)
LEMMA ProjectKeeps == ASSUME IInv, NEW a \in Actions, ProjectActionOutcome(a) PROVE IInv'
<1> USE DEF IInv, ProjectActionOutcome, Projectable
<1>1. case' = [state |-> "ACTIONED", epoch |-> case.epoch]
  BY DEF MoveCase, Sensitive
<1>2. Current(a) /\ pointer.status = "DRAFT"
  BY DEF OneOpenAction, SentStays, Current, TypeOK, Pointers
<1>3. \A b \in Actions : b # a => execution[b] \in {"NONE", "FAILED"}
  BY <1>2 DEF OneOpenAction, Current
<1>4. TypeOK' BY <1>1 DEF TypeOK, CaseStates
<1>5. OneOpenAction' BY DEF OneOpenAction, Current
<1>6. FreshProposalStands' BY <1>3 DEF FreshProposalStands
<1>7. ActedUponMeansSent' BY <1>1, <1>2 DEF ActedUponMeansSent, Current
<1>8. VerifyingMeansPromise' BY <1>1 DEF VerifyingMeansPromise, Live
<1>9. EpochCountsInputs' BY <1>1 DEF EpochCountsInputs
<1>10. SentStays' BY DEF SentStays
<1> QED BY <1>4, <1>5, <1>6, <1>7, <1>8, <1>9, <1>10

-----------------------------------------------------------------------------
(* Replies and promises are about the current action, which was sent.       *)
LEMMA PromiseKeeps == ASSUME IInv, NEW a \in Actions, PromiseStep(a) PROVE IInv'
<1> USE DEF IInv
<1>1. \A b \in located : Current(b)
  BY DEF SentStays, OneOpenAction, TypeOK
<1>2. CASE IngestReply(a)
  <2>1. replied' \subseteq located BY <1>2 DEF IngestReply, SentStays
  <2>2. /\ case' \in [state : CaseStates, epoch : Nat]
        /\ case'.state = case.state /\ case'.epoch = case.epoch + 1
    BY <1>2, BumpStep DEF IngestReply
  <2> QED BY <1>2, <2>1, <2>2, InputsStep DEF IngestReply
<1>3. CASE ApplyCommitment(a)
  <2> USE <1>3 DEF ApplyCommitment, SetCommitment
  <2>1. case' = [state |-> "VERIFYING", epoch |-> case.epoch]
    BY DEF MoveCase, Sensitive
  <2>2. \A b \in Actions : commitment'[b] = IF b = a THEN "PENDING" ELSE commitment[b]
    BY DEF TypeOK
  <2>3. Current(a) BY <1>1 DEF SentStays
  <2>4. TypeOK' BY <2>1 DEF TypeOK, CaseStates, CommitmentStates
  <2>5. OneOpenAction' /\ SentStays' BY DEF OneOpenAction, Current, SentStays
  <2>6. FreshProposalStands' BY DEF FreshProposalStands
  <2>7. ActedUponMeansSent' BY DEF ActedUponMeansSent
  <2>8. VerifyingMeansPromise'
    BY <2>1, <2>2, <2>3 DEF VerifyingMeansPromise, Live, Current
  <2>9. EpochCountsInputs' BY <2>1 DEF EpochCountsInputs
  <2> QED BY <2>4, <2>5, <2>6, <2>7, <2>8, <2>9
<1>4. CASE RecordCommitmentDue(a)
  <2> USE <1>4 DEF RecordCommitmentDue, SetCommitment
  <2>1. \A b \in Actions : commitment'[b] = IF b = a THEN "DUE" ELSE commitment[b]
    BY DEF TypeOK
  <2>2. TypeOK' BY DEF TypeOK, CommitmentStates
  <2>3. VerifyingMeansPromise'
    BY <2>1 DEF VerifyingMeansPromise, Live, Current
  <2> QED
    BY <2>2, <2>3 DEF OneOpenAction, FreshProposalStands, ActedUponMeansSent, SentStays,
       EpochCountsInputs, Current, EpochStands
<1>5. ASSUME NEW outcome \in {"FULFILLED", "MISSED"}, VerifyCommitment(a, outcome) PROVE IInv'
  <2> USE <1>5, NoneAssumption DEF VerifyCommitment, SetCommitment
  <2>1. /\ case' = [state |-> Verified(outcome), epoch |-> case.epoch]
        /\ Verified(outcome) \in {"RESOLVED", "READY_FOR_ACTION"}
        /\ Verified(outcome) = "RESOLVED" <=> outcome = "FULFILLED"
    BY DEF MoveCase, Sensitive, Verified
  <2>2. \A b \in Actions : commitment'[b] = IF b = a THEN outcome ELSE commitment[b]
    BY DEF TypeOK
  <2>3. /\ pointer.status = "DRAFT" /\ execution[pointer.action] = "SENT"
        /\ pointer.action \in located
    BY DEF ActedUponMeansSent
  <2>4. /\ pointer' \in Pointers /\ pointer' # None /\ pointer'.action = pointer.action
        /\ outcome = "FULFILLED" => pointer' = pointer
    BY DEF TypeOK, Pointers
  <2>5. \A b \in Actions : b # pointer.action => execution[b] \in {"NONE", "FAILED"}
    BY DEF OneOpenAction, Current
  <2>6. TypeOK' BY <2>1, <2>4 DEF TypeOK, CaseStates, CommitmentStates
  <2>7. OneOpenAction' BY <2>3, <2>4, <2>5 DEF OneOpenAction, Current
  <2>8. FreshProposalStands' BY <2>3, <2>5 DEF FreshProposalStands
  <2>9. ActedUponMeansSent' BY <2>1, <2>3, <2>4 DEF ActedUponMeansSent
  <2>10. VerifyingMeansPromise'
    BY <2>1, <2>2 DEF VerifyingMeansPromise, Live, Current
  <2>11. EpochCountsInputs' BY <2>1 DEF EpochCountsInputs
  <2>12. SentStays' BY <2>3, <2>4 DEF SentStays
  <2> QED BY <2>6, <2>7, <2>8, <2>9, <2>10, <2>11, <2>12
<1> QED BY <1>2, <1>3, <1>4, <1>5 DEF PromiseStep

-----------------------------------------------------------------------------
LEMMA StepKeeps == ASSUME IInv, [Next]_vars PROVE IInv'
<1>1. CASE UNCHANGED vars
  <2> USE <1>1 DEF IInv, vars
  <2>1. TypeOK' BY DEF TypeOK
  <2> QED
    BY <2>1 DEF OneOpenAction, FreshProposalStands, ActedUponMeansSent, VerifyingMeansPromise,
       SentStays, EpochCountsInputs, Current, EpochStands, Live
<1>2. CASE Disclosure BY <1>2, DisclosureKeeps
<1>3. ASSUME NEW a \in Actions, ActionStep(a) PROVE IInv'
  <2>1. CASE ProposeAction(a) BY <2>1, ProposeKeeps
  <2>2. CASE Reject(a)
    <3>1. Current(a) BY <2>2, NoneAssumption DEF Reject, Current, Pointers
    <3> QED BY <2>2, <3>1, ClearKeeps DEF Reject
  <2>3. CASE InvalidateAction(a) BY <2>3, ClearKeeps DEF InvalidateAction
  <2>4. CASE ProjectActionOutcome(a) BY <2>4, ProjectKeeps
  <2>5. CASE \/ Approve(a) \/ ClaimSend(a) \/ AuthorizeSend(a) \/ RecordOutcome(a)
             \/ ResolveUnknown(a)
    BY <2>5, SendKeeps
  <2> QED BY <1>3, <2>1, <2>2, <2>3, <2>4, <2>5 DEF ActionStep
<1>4. ASSUME NEW a \in Actions, PromiseStep(a) PROVE IInv'
  BY <1>4, PromiseKeeps
<1>5. CASE FenceEnds BY <1>5, FenceEndKeeps
<1> QED BY <1>1, <1>2, <1>3, <1>4, <1>5 DEF Next

LEMMA InitKeeps == Init => IInv
<1> SUFFICES ASSUME Init PROVE IInv OBVIOUS
<1> USE NoneAssumption DEF Init, NoView
<1>1. TypeOK BY DEF TypeOK, CaseStates, ExecutionStates, CommitmentStates, Views
<1> QED
  BY <1>1 DEF IInv, OneOpenAction, FreshProposalStands, ActedUponMeansSent,
     VerifyingMeansPromise, SentStays, EpochCountsInputs, Current, EpochStands, Live

(* The inductive invariant holds in every reachable state of a case: the    *)
(* epoch counts the changes of what a compile reads, one action is open at  *)
(* most, and the case says what its action and its promises say.            *)
THEOREM Inductive == Spec => []IInv
<1>1. IInv /\ [Next]_vars => IInv' BY StepKeeps
<1> QED BY InitKeeps, <1>1, PTL DEF Spec

(* The state stays in its types. *)
THEOREM TypeCorrect == Spec => []TypeOK
<1>1. IInv => TypeOK BY DEF IInv
<1> QED BY Inductive, <1>1, PTL

(* One message at most is in the making or made (Replaceable and the        *)
(* clearing verbs).                                                         *)
THEOREM OneOpen == Spec => []OneOpenAction
<1>1. IInv => OneOpenAction BY DEF IInv
<1> QED BY Inductive, <1>1, PTL

(* An open proposal nothing has changed under stands, through every         *)
(* lifecycle step.                                                          *)
THEOREM FreshStands == Spec => []FreshProposalStands
<1>1. IInv => FreshProposalStands BY DEF IInv
<1> QED BY Inductive, <1>1, PTL

(* A case that says it was acted upon was. *)
THEOREM ActedUpon == Spec => []ActedUponMeansSent
<1>1. IInv => ActedUponMeansSent BY DEF IInv
<1> QED BY Inductive, <1>1, PTL

(* A case is verified while a promise is open, resolved when it was kept. *)
THEOREM Promises == Spec => []VerifyingMeansPromise
<1>1. IInv => VerifyingMeansPromise BY DEF IInv
<1> QED BY Inductive, <1>1, PTL

-----------------------------------------------------------------------------
(* Approvals and authorizations are given by two actions, both of which     *)
(* compare the epoch.                                                       *)
LEMMA WhoDecides ==
    ASSUME TypeOK, NEW a \in Actions, [Next]_vars,
           \/ execution[a] = "DRAFT" /\ execution'[a] = "APPROVED"
           \/ a \notin granted /\ a \in granted'
    PROVE  EpochStands(a)
<1>1. CASE UNCHANGED vars BY <1>1 DEF vars
<1>2. CASE Disclosure \/ FenceEnds
  BY <1>2 DEF Disclosure, ProposeMandates, DecideMandate, RunInvestigation, Assess, LinkReport,
     CompileView, FenceEnds, actions
<1>3. ASSUME NEW b \in Actions, PromiseStep(b) PROVE EpochStands(a)
  BY <1>3 DEF PromiseStep, IngestReply, ApplyCommitment, RecordCommitmentDue, VerifyCommitment,
     SetCommitment
<1>4. ASSUME NEW b \in Actions, ActionStep(b) PROVE EpochStands(a)
  <2>1. CASE ProposeAction(b) BY <2>1 DEF ProposeAction, Draft, TypeOK
  <2>2. CASE Approve(b) BY <2>2 DEF Approve, TypeOK
  <2>3. CASE Reject(b) \/ InvalidateAction(b)
    BY <2>3 DEF Reject, InvalidateAction, Clear, TypeOK
  <2>4. CASE ClaimSend(b) \/ RecordOutcome(b) \/ ResolveUnknown(b)
    BY <2>4 DEF ClaimSend, RecordOutcome, ResolveUnknown, SetExecution, TypeOK
  <2>5. CASE AuthorizeSend(b) BY <2>5 DEF AuthorizeSend, SendStands
  <2>6. CASE ProjectActionOutcome(b) BY <2>6 DEF ProjectActionOutcome
  <2> QED BY <1>4, <2>1, <2>2, <2>3, <2>4, <2>5, <2>6 DEF ActionStep
<1> QED BY <1>1, <1>2, <1>3, <1>4 DEF Next

(* Consent is never acted on stale: what an approved or authorized proposal *)
(* was compiled from is what there is (EpochStands with an epoch that       *)
(* counts the inputs).                                                      *)
THEOREM DecidedOnCurrent == Spec => DecidedOnCurrentInputs
<1>1. IInv /\ [Next]_vars
      => [\A a \in Actions :
            (\/ execution[a] = "DRAFT" /\ execution'[a] = "APPROVED"
             \/ a \notin granted /\ a \in granted')
            => proposal[a].inputs = inputs]_vars
  BY WhoDecides DEF IInv, EpochCountsInputs, EpochStands
<1> QED BY Inductive, <1>1, PTL DEF Spec, DecidedOnCurrentInputs

(* Only a clearing takes ACTION_PROPOSED to READY_FOR_ACTION, and only over *)
(* a view of the case's epoch.                                              *)
LEMMA WhoReadies ==
    ASSUME TypeOK, [Next]_vars, case.state = "ACTION_PROPOSED", case'.state = "READY_FOR_ACTION"
    PROVE  AuthorityStands
<1>1. CASE UNCHANGED vars BY <1>1 DEF vars
<1>2. CASE Disclosure
  BY <1>2 DEF Disclosure, ProposeMandates, DecideMandate, RunInvestigation, Assess, LinkReport,
     CompileView, MoveCase, BumpCase, TypeOK
<1>3. ASSUME NEW b \in Actions, PromiseStep(b) PROVE AuthorityStands
  BY <1>3 DEF PromiseStep, IngestReply, ApplyCommitment, RecordCommitmentDue, VerifyCommitment,
     BumpCase, TypeOK
<1>4. ASSUME NEW b \in Actions, ActionStep(b) PROVE AuthorityStands
  <2>1. CASE ProposeAction(b) \/ Approve(b) BY <2>1 DEF ProposeAction, Draft, Approve
  <2>2. CASE Reject(b) \/ InvalidateAction(b)
    BY <2>2 DEF Reject, InvalidateAction, Clear, ReconcileReadiness
  <2>3. CASE ClaimSend(b) \/ AuthorizeSend(b) \/ RecordOutcome(b) \/ ResolveUnknown(b)
    BY <2>3 DEF ClaimSend, AuthorizeSend, RecordOutcome, ResolveUnknown, SetExecution
  <2>4. CASE ProjectActionOutcome(b) BY <2>4 DEF ProjectActionOutcome, MoveCase
  <2> QED BY <1>4, <2>1, <2>2, <2>3, <2>4 DEF ActionStep
<1>5. CASE FenceEnds BY <1>5 DEF FenceEnds
<1> QED BY <1>1, <1>2, <1>3, <1>4, <1>5 DEF Next

(* Clearing a proposal asserts no readiness nobody verified. *)
THEOREM ReadinessRemains == Spec => ReadinessReallyRemains
<1>1. IInv /\ [Next]_vars
      => [case.state = "ACTION_PROPOSED" /\ case'.state = "READY_FOR_ACTION"
          => view.id # 0 /\ view.inputs = inputs]_vars
  BY WhoReadies DEF IInv, EpochCountsInputs, AuthorityStands
<1> QED BY Inductive, <1>1, PTL DEF Spec, ReadinessReallyRemains

-----------------------------------------------------------------------------
(* Frames.                                                                  *)

(* Only the operation o may have changed, but for the rows that moved. *)
Only(o) ==
    \A p \in Operations \ {o} :
        /\ status'[p] = status[p] /\ step'[p] = step[p] /\ named'[p] = named[p]
        /\ seen'[p] = seen[p] /\ record'[p] = record[p]

(* The types of the operations but for the rows that moved. *)
FlowTypes ==
    /\ status \in [Operations -> Statuses]
    /\ step \in [Operations -> Steps]
    /\ named \in [Operations -> Views]
    /\ seen \in [Operations -> Nat]
    /\ record \in [Operations -> {"NONE", "FAILED", "SUCCEEDED"}]

LEMMA WriteMoves ==
    ASSUME NEW rows, Write(rows)
    PROVE  /\ moved' \in [Operations -> SUBSET Rows]
           /\ \A o \in Operations : moved'[o] = (moved[o] \union rows) \cap Held(o)'
<1>1. \A o \in Operations : Held(o)' \subseteq Rows
  BY DEF Held, Rows
<1> QED BY <1>1 DEF Write

LEMMA GotoMoves ==
    ASSUME FlowTypes, inputs \in Nat, NEW o \in Operations, NEW next \in Steps, Goto(o, next)
    PROVE  /\ step' \in [Operations -> Steps] /\ seen' \in [Operations -> Nat]
           /\ step'[o] = next
           /\ next = "ask" => seen'[o] = inputs
           /\ next = "apply" => seen'[o] = seen[o]
           /\ \A p \in Operations \ {o} : step'[p] = step[p] /\ seen'[p] = seen[p]
BY DEF FlowTypes, Goto

LEMMA EndMoves ==
    ASSUME FlowTypes, NEW o \in Operations, NEW outcome \in Statuses, End(o, outcome)
    PROVE  /\ status' \in [Operations -> Statuses]
           /\ status[o] = "RUNNING" /\ status'[o] = outcome
           /\ \A p \in Operations \ {o} : status'[p] = status[p]
BY DEF FlowTypes, End

LEMMA SayMoves ==
    ASSUME FlowTypes, NEW o \in Operations, NEW outcome \in {"FAILED", "SUCCEEDED"}, Say(o, outcome)
    PROVE  /\ record' \in [Operations -> {"NONE", "FAILED", "SUCCEEDED"}]
           /\ record'[o] = outcome
           /\ \A p \in Operations \ {o} : record'[p] = record[p]
BY DEF FlowTypes, Say

-----------------------------------------------------------------------------
(* What the case does under a worker.                                       *)

(* A failed execution stays failed. *)
LEMMA FailedStays ==
    ASSUME TypeOK, [Next]_vars, NEW a \in Actions, execution[a] = "FAILED"
    PROVE  execution'[a] = "FAILED"
<1>1. CASE UNCHANGED vars BY <1>1 DEF vars
<1>2. CASE Disclosure \/ FenceEnds
  BY <1>2 DEF Disclosure, ProposeMandates, DecideMandate, RunInvestigation, Assess, LinkReport,
     CompileView, FenceEnds, actions
<1>3. ASSUME NEW b \in Actions, PromiseStep(b) PROVE execution'[a] = "FAILED"
  BY <1>3 DEF PromiseStep, IngestReply, ApplyCommitment, RecordCommitmentDue, VerifyCommitment,
     SetCommitment
<1>4. ASSUME NEW b \in Actions, ActionStep(b) PROVE execution'[a] = "FAILED"
  <2>1. CASE ProposeAction(b) BY <2>1 DEF ProposeAction, Draft, TypeOK
  <2>2. CASE Approve(b) BY <2>2 DEF Approve, TypeOK
  <2>3. CASE Reject(b) \/ InvalidateAction(b)
    BY <2>3 DEF Reject, InvalidateAction, Clear, TypeOK
  <2>4. CASE ClaimSend(b) BY <2>4 DEF ClaimSend, SetExecution, TypeOK
  <2>5. CASE RecordOutcome(b) BY <2>5 DEF RecordOutcome, SetExecution, TypeOK
  <2>6. CASE ResolveUnknown(b) BY <2>6 DEF ResolveUnknown, SetExecution, TypeOK
  <2>7. CASE AuthorizeSend(b) \/ ProjectActionOutcome(b)
    BY <2>7 DEF AuthorizeSend, ProjectActionOutcome
  <2> QED BY <1>4, <2>1, <2>2, <2>3, <2>4, <2>5, <2>6, <2>7 DEF ActionStep
<1> QED BY <1>1, <1>2, <1>3, <1>4 DEF Next

(* What an operation holds survives a step it does not take, however the    *)
(* case moved: a row that changed is in what moved.                         *)
LEMMA HeldKept ==
    ASSUME OperationsInv, IInv', [Next]_vars, NEW rows, Write(rows), Changed \subseteq rows,
           NEW o \in Operations,
           step'[o] = step[o], named'[o] = named[o], seen'[o] = seen[o],
           status'[o] = "PENDING" <=> status[o] = "PENDING"
    PROVE  HeldFact(o)'
<1>1. moved'[o] = (moved[o] \union rows) \cap Held(o)' BY WriteMoves
<1>2. /\ "case" \notin rows => case' = case
      /\ "view" \notin rows => view' = view
      /\ "pointer" \notin rows => pointer' = pointer
  BY DEF Changed
<1>3. case' = case => inputs' = inputs
  BY DEF OperationsInv, IInv, EpochCountsInputs
<1>4. HeldFact(o) BY DEF OperationsInv
<1>5. o \in Investigations /\ "case" \notin moved'[o] /\ step'[o] \in {"read", "ask", "apply"}
      => Investigable'
  BY <1>1, <1>2, <1>4 DEF HeldFact, Held, Investigable, Rows
<1>6. o \in Drafts => o \notin Investigations
  BY OperationAssumption
<1>7. o \in Investigations \/ o \in Drafts BY DEF Operations
<1>8. "case" \notin moved'[o] /\ step'[o] \in {"ask", "apply"} => seen'[o] = inputs'
  BY <1>1, <1>2, <1>3, <1>4, <1>6, <1>7 DEF HeldFact, Held, Rows
<1>9. ASSUME o \in Drafts, status'[o] = "PENDING" \/ step'[o] \in Holding, "view" \notin moved'[o]
      PROVE  view' = named'[o]
  <2>1. "view" \in Held(o)' BY <1>6, <1>9 DEF Held, Holding, Rows
  <2>2. "view" \notin moved[o] /\ "view" \notin rows BY <1>1, <1>9, <2>1
  <2> QED BY <1>2, <1>4, <1>9, <2>2 DEF HeldFact
<1>10. ASSUME o \in Drafts, step'[o] \in {"read", "ask", "apply"}, moved'[o] \subseteq {"pointer"}
       PROVE  case'.state = "READY_FOR_ACTION" /\ ViewStands'
  <2>1. "view" \in Held(o)' /\ "case" \in Held(o)' BY <1>6, <1>10 DEF Held, Rows
  <2>2. {"case", "view"} \cap (moved[o] \union rows) = {} BY <1>1, <1>10, <2>1
  <2>3. moved[o] \in SUBSET Rows BY DEF OperationsInv, OperationTypes
  <2>4. moved[o] \subseteq {"pointer"} BY <2>2, <2>3 DEF Rows
  <2>5. case' = case /\ view' = view BY <1>2, <2>2
  <2> QED BY <1>4, <1>10, <2>4, <2>5 DEF HeldFact, ViewStands
<1>11. ASSUME o \in Drafts, step'[o] \in {"ask", "apply"}, "pointer" \notin moved'[o]
       PROVE  Replaceable'
  <2>1. "pointer" \in Held(o)' BY <1>6, <1>11 DEF Held, Rows
  <2>2. "pointer" \notin moved[o] /\ "pointer" \notin rows BY <1>1, <1>11, <2>1
  <2>3. pointer' = pointer BY <1>2, <2>2
  <2>4. Replaceable BY <1>4, <1>11, <2>2 DEF HeldFact
  <2>5. pointer # None => pointer.action \in Actions
    BY DEF OperationsInv, IInv, TypeOK, Pointers
  <2>6. TypeOK BY DEF OperationsInv, IInv
  <2> QED BY <2>3, <2>4, <2>5, <2>6, FailedStays DEF Replaceable
<1> QED BY <1>5, <1>8, <1>9, <1>10, <1>11 DEF HeldFact

(* An operation that holds nothing. *)
LEMMA NothingHeld ==
    ASSUME NEW o \in Operations, status'[o] # "PENDING", step'[o] \notin Holding
    PROVE  HeldFact(o)'
BY DEF HeldFact, Holding

LEMMA RecordKept ==
    ASSUME OperationsInv, NEW o \in Operations, status'[o] = status[o], step'[o] = step[o],
           named'[o] = named[o], record'[o] = record[o], proposal'[o] = proposal[o] \/ o \notin Drafts
    PROVE  RecordFact(o)'
BY DEF OperationsInv, RecordFact

(* A step of o that leaves the case alone.                                  *)
LEMMA LocalStep ==
    ASSUME OperationsInv, NEW o \in Operations, UNCHANGED vars, Write({}),
           FlowTypes', Only(o), RecordFact(o)', HeldFact(o)'
    PROVE  OperationsInv'
<1>1. IInv' BY StepKeeps DEF OperationsInv
<1>2. [Next]_vars BY DEF vars
<1>3. OperationTypes' BY WriteMoves DEF FlowTypes, OperationTypes
<1>4. Changed \subseteq {} BY DEF Changed, vars
<1>5. ASSUME NEW p \in Operations \ {o} PROVE RecordFact(p)' /\ HeldFact(p)'
  <2>1. HeldFact(p)' BY <1>1, <1>2, <1>4, HeldKept DEF Only
  <2>2. RecordFact(p)' BY RecordKept DEF Only, vars
  <2> QED BY <2>1, <2>2
<1> QED BY <1>1, <1>3, <1>5 DEF OperationsInv

(* What the invariant says of one operation. *)
LEMMA InvFacts ==
    ASSUME OperationsInv, NEW o \in Operations
    PROVE  /\ FlowTypes /\ inputs \in Nat /\ view \in Views /\ status[o] \in Statuses
           /\ RecordFact(o) /\ HeldFact(o) /\ moved[o] \in SUBSET Rows
           /\ (o \in Drafts) <=> (o \notin Investigations)
           /\ IInv /\ TypeOK
BY OperationAssumption DEF OperationsInv, OperationTypes, FlowTypes, IInv, TypeOK, Operations

-----------------------------------------------------------------------------
(* The steps of an operation that do not apply.                             *)

LEMMA StartKeeps ==
    ASSUME OperationsInv, NEW o \in Operations, Start(o) PROVE OperationsInv'
<1> USE InvFacts
<1>1. FlowTypes' BY DEF Start, FlowTypes, Statuses
<1>2. Only(o) BY DEF Start, Only, FlowTypes
<1>3. RecordFact(o)'
  BY DEF Start, RecordFact, FlowTypes, vars, Holding
<1>4. HeldFact(o)'
  BY DEF Start, RecordFact, HeldFact, FlowTypes, vars, Holding
<1> QED BY <1>1, <1>2, <1>3, <1>4, LocalStep DEF Start, vars

LEMMA ClaimKeeps ==
    ASSUME OperationsInv, NEW o \in Operations, Claim(o) PROVE OperationsInv'
<1> USE InvFacts
<1>1. /\ step' \in [Operations -> Steps] /\ seen' \in [Operations -> Nat]
      /\ step'[o] \in {"load", "idle"}
      /\ \A p \in Operations \ {o} : step'[p] = step[p] /\ seen'[p] = seen[p]
  <2>1. CASE Goto(o, "load") BY <2>1, GotoMoves DEF Steps
  <2>2. CASE UNCHANGED <<step, seen>> BY <2>2 DEF Claim, RecordFact, FlowTypes
  <2> QED BY <2>1, <2>2 DEF Claim
<1>2. FlowTypes' BY <1>1 DEF Claim, FlowTypes, Statuses
<1>3. Only(o) BY <1>1 DEF Claim, Only, FlowTypes
<1>4. status'[o] = "RUNNING" BY DEF Claim, FlowTypes
<1>5. RecordFact(o)' BY <1>1, <1>4 DEF Claim, RecordFact, vars, Holding
<1>6. o \in Drafts /\ step'[o] = "load" /\ "view" \notin moved'[o] => "view" \notin moved[o]
  <2>1. o \in Drafts /\ step'[o] = "load" => "view" \in Held(o)' BY <1>4 DEF Held
  <2> QED BY <2>1, WriteMoves DEF Claim
<1>7. HeldFact(o)' BY <1>1, <1>4, <1>6 DEF Claim, HeldFact, vars, Holding
<1> QED BY <1>2, <1>3, <1>5, <1>7, LocalStep DEF Claim, vars

(* A step of a worker that goes on to something it holds nothing for. *)
LEMMA LeaveKeeps ==
    ASSUME OperationsInv, NEW o \in Operations, NEW next \in Steps, Goto(o, next),
           next \notin Holding, UNCHANGED <<vars, status, named, record>>, Write({}),
           status[o] \in {"RUNNING", "SUCCEEDED", "STALE"},
           next = "record" => record[o] = "NONE",
           next = "refused" => record[o] # "SUCCEEDED",
           next \in {"succeed", "recheck"} => record[o] = "SUCCEEDED",
           o \in Drafts /\ next = "unknown" => record[o] # "SUCCEEDED"
    PROVE  OperationsInv'
<1> USE InvFacts
<1>1. FlowTypes' BY GotoMoves DEF FlowTypes
<1>2. Only(o) BY GotoMoves DEF Only
<1>3. step'[o] = next BY GotoMoves
<1>4. RecordFact(o)' BY <1>3 DEF RecordFact, vars, Holding
<1>5. HeldFact(o)' BY <1>3, NothingHeld
<1> QED BY <1>1, <1>2, <1>4, <1>5, LocalStep DEF vars

(* A worker that does something has an operation that was claimed and that  *)
(* no refusal has ended.                                                    *)
LEMMA Working ==
    ASSUME OperationsInv, NEW o \in Operations, step[o] # "idle"
    PROVE  status[o] \in {"RUNNING", "SUCCEEDED", "STALE"}
BY InvFacts DEF RecordFact, Statuses

LEMMA LoadKeeps ==
    ASSUME OperationsInv, NEW o \in Operations, Load(o) PROVE OperationsInv'
<1> USE InvFacts, Working
<1>1. CASE Goto(o, "refused")
  BY <1>1, LeaveKeeps DEF Load, Steps, Holding, RecordFact
<1>2. CASE Loadable(o) /\ Goto(o, "read")
  <2>1. FlowTypes' BY <1>2, GotoMoves DEF Load, FlowTypes, Steps
  <2>2. Only(o) BY <1>2, GotoMoves DEF Load, Only, Steps
  <2>3. step'[o] = "read" BY <1>2, GotoMoves DEF Steps
  <2>4. RecordFact(o)' BY <2>3 DEF Load, RecordFact, vars, Holding
  <2>5. status'[o] # "PENDING" BY DEF Load
  <2>6. o \in Drafts => case.state = "READY_FOR_ACTION" /\ ViewStands /\ view = named[o]
    BY <1>2 DEF Loadable, Load, HeldFact, Holding
  <2>7. o \in Investigations => Investigable BY <1>2 DEF Loadable
  <2>8. HeldFact(o)'
    BY <2>3, <2>5, <2>6, <2>7 DEF Load, HeldFact, vars, Holding, Investigable, ViewStands
  <2> QED BY <2>1, <2>2, <2>4, <2>8, LocalStep DEF Load, vars
<1> QED BY <1>1, <1>2 DEF Load

LEMMA ReadKeeps ==
    ASSUME OperationsInv, NEW o \in Operations, Read(o) PROVE OperationsInv'
<1> USE InvFacts, Working
<1>1. CASE Goto(o, "refused")
  BY <1>1, LeaveKeeps DEF Read, Steps, Holding, RecordFact
<1>2. CASE Goto(o, "ask") /\ (o \in Drafts => Replaceable)
  <2>1. FlowTypes' BY <1>2, GotoMoves DEF Read, FlowTypes, Steps
  <2>2. Only(o) BY <1>2, GotoMoves DEF Read, Only, Steps
  <2>3. step'[o] = "ask" /\ seen'[o] = inputs BY <1>2, GotoMoves DEF Steps
  <2>4. RecordFact(o)' BY <2>3 DEF Read, RecordFact, vars, Holding
  <2>5. status'[o] # "PENDING" BY DEF Read
  <2>6. moved[o] \subseteq moved'[o] \/ o \in Investigations
    <3>1. o \in Drafts => Held(o)' = Rows BY <2>3, <2>5 DEF Held
    <3> QED BY <3>1, WriteMoves DEF Read
  <2>7. "case" \in moved[o] => "case" \in moved'[o]
    <3>1. "case" \in Held(o)' BY <2>3, <2>5 DEF Held, Rows
    <3> QED BY <3>1, WriteMoves DEF Read
  <2>8. HeldFact(o)'
    BY <1>2, <2>3, <2>5, <2>6, <2>7
    DEF Read, HeldFact, vars, Holding, Investigable, ViewStands, Replaceable
  <2> QED BY <2>1, <2>2, <2>4, <2>8, LocalStep DEF Read, vars
<1> QED BY <1>1, <1>2 DEF Read

LEMMA AskKeeps ==
    ASSUME OperationsInv, NEW o \in Operations, Ask(o) PROVE OperationsInv'
<1> USE InvFacts, Working
<1>1. CASE Goto(o, "record")
  BY <1>1, LeaveKeeps DEF Ask, Steps, Holding, RecordFact
<1>2. CASE Goto(o, "apply")
  <2>1. FlowTypes' BY <1>2, GotoMoves DEF Ask, FlowTypes, Steps
  <2>2. Only(o) BY <1>2, GotoMoves DEF Ask, Only, Steps
  <2>3. step'[o] = "apply" /\ seen'[o] = seen[o] BY <1>2, GotoMoves DEF Steps
  <2>4. RecordFact(o)' BY <2>3 DEF Ask, RecordFact, vars, Holding
  <2>5. status'[o] # "PENDING" BY DEF Ask
  <2>6. moved[o] \subseteq moved'[o] \/ o \in Investigations
    <3>1. o \in Drafts => Held(o)' = Rows BY <2>3, <2>5 DEF Held
    <3> QED BY <3>1, WriteMoves DEF Ask
  <2>7. "case" \in moved[o] => "case" \in moved'[o]
    <3>1. "case" \in Held(o)' BY <2>3, <2>5 DEF Held, Rows
    <3> QED BY <3>1, WriteMoves DEF Ask
  <2>8. HeldFact(o)'
    BY <2>3, <2>5, <2>6, <2>7
    DEF Ask, HeldFact, vars, Holding, Investigable, ViewStands, Replaceable
  <2> QED BY <2>1, <2>2, <2>4, <2>8, LocalStep DEF Ask, vars
<1> QED BY <1>1, <1>2 DEF Ask

(* A worker that cannot say what became of its commit looks it up, or goes  *)
(* on to fail.                                                              *)
LEMMA UnknownNext ==
    ASSUME NEW o \in Operations
    PROVE  /\ Unknown(o) \in Steps /\ Unknown(o) \in {"resolve", "unknown"}
           /\ o \in Drafts => Unknown(o) = "resolve"
BY DEF Unknown, Steps

LEMMA RecordKeeps ==
    ASSUME OperationsInv, NEW o \in Operations, Record(o) PROVE OperationsInv'
<1> USE InvFacts, Working, UnknownNext
<1>1. record[o] = "NONE" BY DEF Record, RecordFact
<1>2. PICK next \in Steps : next \in {"refused", Unknown(o)} /\ Goto(o, next)
  BY DEF Record, Steps
<1>3. CASE UNCHANGED record
  BY <1>1, <1>2, <1>3, LeaveKeeps DEF Record, Holding
<1>4. CASE Say(o, "FAILED")
  <2>1. FlowTypes' BY <1>2, <1>4, GotoMoves, SayMoves DEF Record, FlowTypes
  <2>2. Only(o) BY <1>2, <1>4, GotoMoves, SayMoves DEF Record, Only
  <2>3. step'[o] = next /\ record'[o] = "FAILED" BY <1>2, <1>4, GotoMoves, SayMoves
  <2>4. RecordFact(o)'
    <3>1. status[o] \in {"RUNNING", "SUCCEEDED", "STALE"} BY DEF Record
    <3>2. next \notin {"idle", "succeed", "recheck", "record"} /\ next \notin Holding
      BY <1>2 DEF Holding
    <3>3. o \in Drafts => next # "unknown" BY <1>2
    <3> QED BY <1>1, <2>3, <3>1, <3>2, <3>3 DEF Record, RecordFact, vars, Holding
  <2>5. HeldFact(o)' BY <1>2, <2>3, NothingHeld DEF Record, Holding
  <2> QED BY <2>1, <2>2, <2>4, <2>5, LocalStep DEF Record, vars
<1> QED BY <1>3, <1>4 DEF Record

-----------------------------------------------------------------------------
(* The end of an operation.                                                 *)

LEMMA EndKeeps ==
    ASSUME OperationsInv, NEW o \in Operations, UNCHANGED <<vars, named, record>>, Write({}),
           NEW outcome \in {"SUCCEEDED", "REFUSED", "UNKNOWN"}, End(o, outcome), Goto(o, "idle"),
           outcome = "SUCCEEDED" => record[o] = "SUCCEEDED",
           outcome = "REFUSED" \/ (outcome = "UNKNOWN" /\ o \in Drafts) => record[o] # "SUCCEEDED"
    PROVE  OperationsInv'
<1> USE InvFacts
<1>1. outcome \in Statuses /\ "idle" \in Steps BY DEF Statuses, Steps
<1>2. FlowTypes' BY <1>1, GotoMoves, EndMoves DEF FlowTypes
<1>3. Only(o) BY <1>1, GotoMoves, EndMoves DEF Only
<1>4. step'[o] = "idle" /\ status'[o] = outcome /\ status[o] = "RUNNING"
  BY <1>1, GotoMoves, EndMoves
<1>5. RecordFact(o)' BY <1>4 DEF RecordFact, vars, Holding
<1>6. HeldFact(o)'
  <2>1. status'[o] # "PENDING" BY <1>4
  <2> QED BY <1>4, <2>1, NothingHeld DEF Holding
<1> QED BY <1>2, <1>3, <1>5, <1>6, LocalStep DEF vars

LEMMA SettleKeeps ==
    ASSUME OperationsInv, NEW o \in Operations, Settle(o) PROVE OperationsInv'
<1> USE InvFacts, Working
<1>1. CASE UNCHANGED status
  BY <1>1, LeaveKeeps DEF Settle, Steps, Holding
<1>2. CASE End(o, IF step[o] = "refused" THEN "REFUSED" ELSE "UNKNOWN")
  <2>1. step[o] = "refused" \/ o \in Drafts => record[o] # "SUCCEEDED"
    BY DEF Settle, RecordFact
  <2>2. CASE step[o] = "refused" BY <1>2, <2>1, <2>2, EndKeeps DEF Settle
  <2>3. CASE step[o] # "refused" BY <1>2, <2>1, <2>3, EndKeeps DEF Settle
  <2> QED BY <2>2, <2>3
<1> QED BY <1>1, <1>2 DEF Settle

LEMMA SucceedKeeps ==
    ASSUME OperationsInv, NEW o \in Operations, Succeed(o) PROVE OperationsInv'
<1> USE InvFacts, Working
<1>1. record[o] = "SUCCEEDED" BY DEF Succeed, RecordFact
<1>2. CASE End(o, "SUCCEEDED") /\ Goto(o, "idle") BY <1>1, <1>2, EndKeeps DEF Succeed
<1>3. CASE UNCHANGED status /\ Goto(o, "recheck")
  BY <1>1, <1>3, LeaveKeeps DEF Succeed, Steps, Holding
<1>4. CASE UNCHANGED status /\ Goto(o, "idle")
  BY <1>4, LeaveKeeps DEF Succeed, Steps, Holding
<1> QED BY <1>2, <1>3, <1>4 DEF Succeed

LEMMA RecheckKeeps ==
    ASSUME OperationsInv, NEW o \in Operations, Recheck(o) PROVE OperationsInv'
<1> USE InvFacts, Working
<1>1. CASE FinishIfRecorded(o) BY <1>1, EndKeeps DEF Recheck, FinishIfRecorded
<1>2. CASE UNCHANGED status BY <1>2, LeaveKeeps DEF Recheck, Steps, Holding
<1> QED BY <1>1, <1>2 DEF Recheck

LEMMA ResolveKeeps ==
    ASSUME OperationsInv, NEW o \in Operations, Resolve(o) PROVE OperationsInv'
<1> USE InvFacts, Working
<1>1. CASE FinishIfRecorded(o) /\ Goto(o, "idle")
  BY <1>1, EndKeeps DEF Resolve, FinishIfRecorded
<1>2. CASE record[o] = "FAILED" /\ Goto(o, "refused") /\ UNCHANGED status
  BY <1>2, LeaveKeeps DEF Resolve, Steps, Holding
<1>3. CASE record[o] = "NONE" /\ Goto(o, "unknown") /\ UNCHANGED status
  BY <1>3, LeaveKeeps DEF Resolve, Steps, Holding
<1>4. CASE Goto(o, "idle") /\ UNCHANGED status
  BY <1>4, LeaveKeeps DEF Resolve, Steps, Holding
<1> QED BY <1>1, <1>2, <1>3, <1>4 DEF Resolve

LEMMA LoseWorkerKeeps ==
    ASSUME OperationsInv, NEW o \in Operations, LoseWorker(o) PROVE OperationsInv'
BY InvFacts, Working, LeaveKeeps DEF LoseWorker, Steps, Holding

(* A visit ends the operation under a worker that may still be at work.     *)
LEMMA VisitKeeps ==
    ASSUME OperationsInv, NEW o \in Operations, Visit(o) PROVE OperationsInv'
<1> USE InvFacts
<1>1. PICK outcome \in {"SUCCEEDED", "STALE"} :
        End(o, outcome) /\ (outcome = "SUCCEEDED" => record[o] = "SUCCEEDED")
  BY DEF Visit, FinishIfRecorded
<1>2. outcome \in Statuses BY DEF Statuses
<1>3. FlowTypes' BY <1>1, <1>2, EndMoves DEF Visit, FlowTypes
<1>4. Only(o) BY <1>1, <1>2, EndMoves DEF Visit, Only
<1>5. status'[o] = outcome /\ status[o] = "RUNNING" BY <1>1, <1>2, EndMoves
<1>6. RecordFact(o)' BY <1>1, <1>5 DEF Visit, RecordFact, vars
<1>7. HeldFact(o)'
  <2>1. IInv' /\ [Next]_vars BY StepKeeps DEF Visit, vars
  <2>2. Changed \subseteq {} BY DEF Visit, Changed, vars
  <2> QED BY <1>5, <2>1, <2>2, HeldKept DEF Visit
<1> QED BY <1>3, <1>4, <1>6, <1>7, LocalStep DEF Visit, vars

-----------------------------------------------------------------------------
(* The steps that move the case.                                            *)

(* A commit is the one step that CaseLifecycle takes for the whole command: *)
(* what it asks for was found by the worker, and has not moved.             *)
LEMMA CommitStep ==
    ASSUME OperationsInv, NEW o \in Operations, step[o] = "apply", Commit(o)
    PROVE  /\ Next
           /\ \A p \in Drafts \ {o} : proposal'[p] = proposal[p]
           /\ o \in Drafts => proposal'[o] = named[o]
           /\ seen[o] = inputs
           /\ o \in Drafts => view = named[o] /\ view.inputs = inputs
<1> USE InvFacts
<1>1. moved[o] = {} /\ NoLiveFence BY DEF Commit, Unmoved
<1>2. seen[o] = inputs BY <1>1 DEF HeldFact
<1>3. CASE o \in Drafts
  <2>1. /\ view = named[o] /\ case.state = "READY_FOR_ACTION" /\ ViewStands /\ Replaceable
    BY <1>1, <1>3 DEF HeldFact, Holding
  <2>2. o \in Actions BY <1>3, OperationAssumption
  <2>3. proposal[o] = NoView BY <1>3 DEF RecordFact, Holding
  <2>4. execution[o] = "NONE" BY <2>2, <2>3 DEF TypeOK
  <2>5. Draft(o, named[o]) BY <1>3 DEF Commit
  <2>6. ProposeAction(o) BY <1>1, <2>1, <2>4, <2>5 DEF ProposeAction
  <2>7. Next BY <2>2, <2>6 DEF Next, ActionStep
  <2>8. proposal' = [proposal EXCEPT ![o] = named[o]] BY <2>5 DEF Draft
  <2>9. \A p \in Drafts \ {o} : proposal'[p] = proposal[p]
    BY <2>8, OperationAssumption DEF TypeOK
  <2>10. proposal'[o] = named[o] BY <2>2, <2>8 DEF TypeOK
  <2>11. view.inputs = inputs BY <2>1 DEF ViewStands, IInv, EpochCountsInputs
  <2> QED BY <1>2, <1>3, <2>1, <2>7, <2>9, <2>10, <2>11
<1>4. CASE o \in Investigations
  <2>1. Investigable BY <1>1, <1>4 DEF HeldFact
  <2>2. PICK ready \in BOOLEAN : Assess(ready) BY <1>4 DEF Commit
  <2>3. RunInvestigation(ready) BY <1>1, <2>1, <2>2 DEF RunInvestigation
  <2>4. Next BY <2>3 DEF Next, Disclosure
  <2>5. UNCHANGED proposal BY <2>2 DEF Assess, actions
  <2> QED BY <1>2, <1>4, <2>4, <2>5
<1> QED BY <1>3, <1>4

LEMMA ApplyKeeps ==
    ASSUME OperationsInv, NEW o \in Operations, Apply(o) PROVE OperationsInv'
<1> USE InvFacts, Working, UnknownNext
<1>1. ASSUME NEW next \in {"record", "refused", Unknown(o)}, Goto(o, next),
             UNCHANGED <<vars, record>>
      PROVE  OperationsInv'
  <2>1. next \in Steps BY DEF Steps
  <2>2. Changed = {} BY <1>1 DEF Changed, vars
  <2>3. record[o] = "NONE" BY DEF Apply, RecordFact, Holding
  <2> QED BY <1>1, <2>1, <2>2, <2>3, LeaveKeeps DEF Apply, Holding
<1>2. ASSUME NEW next \in {"succeed", Unknown(o)}, Commit(o), Goto(o, next)
      PROVE  OperationsInv'
  <2>1. next \in Steps BY DEF Steps
  <2>2. Next /\ (\A p \in Drafts \ {o} : proposal'[p] = proposal[p])
        /\ (o \in Drafts => proposal'[o] = named[o])
    BY <1>2, CommitStep DEF Apply
  <2>3. IInv' BY <2>2, StepKeeps
  <2>4. Say(o, "SUCCEEDED") BY <1>2 DEF Commit
  <2>5. FlowTypes' BY <1>2, <2>1, <2>4, GotoMoves, SayMoves DEF Apply, FlowTypes
  <2>6. OperationTypes' BY <2>5, WriteMoves DEF Apply, FlowTypes, OperationTypes
  <2>7. Only(o) BY <1>2, <2>1, <2>4, GotoMoves, SayMoves DEF Apply, Only
  <2>8. step'[o] = next /\ record'[o] = "SUCCEEDED" BY <1>2, <2>1, <2>4, GotoMoves, SayMoves
  <2>9. status[o] \in {"RUNNING", "SUCCEEDED", "STALE"} /\ status'[o] = status[o]
    BY DEF Apply
  <2>10. RecordFact(o)'
    <3>1. next \notin {"idle", "record", "refused"} /\ next \notin Holding BY <2>1 DEF Holding
    <3>2. o \in Drafts => next # "unknown" BY <2>1
    <3> QED BY <2>2, <2>8, <2>9, <3>1, <3>2 DEF Apply, RecordFact
  <2>11. HeldFact(o)' BY <2>1, <2>8, <2>9, NothingHeld DEF Holding
  <2>12. ASSUME NEW p \in Operations \ {o} PROVE RecordFact(p)' /\ HeldFact(p)'
    <3>1. HeldFact(p)' BY <2>2, <2>3, <2>7, HeldKept DEF Apply, Only
    <3>2. RecordFact(p)' BY <2>2, <2>7, RecordKept DEF Only
    <3> QED BY <3>1, <3>2
  <2> QED BY <2>3, <2>6, <2>10, <2>11, <2>12 DEF OperationsInv
<1> QED BY <1>1, <1>2 DEF Apply

(* The rest of the system proposes no action of these operations. *)
LEMMA OthersStep ==
    ASSUME OperationsInv, Others
    PROVE  /\ Next
           /\ \E rows : Write(rows) /\ Changed \subseteq rows
           /\ \A p \in Drafts : proposal'[p] = proposal[p]
<1>1. CASE Disclosure /\ Write(Changed)
  BY <1>1 DEF Next, Disclosure, ProposeMandates, DecideMandate, RunInvestigation, Assess,
     LinkReport, CompileView, actions
<1>2. CASE FenceEnds /\ Write({})
  <2>1. Changed \subseteq {} BY <1>2 DEF FenceEnds, Changed
  <2> QED BY <1>2, <2>1 DEF Next, FenceEnds
<1>3. ASSUME NEW a \in Actions \ Drafts, ProposeAction(a), Write(Changed)
      PROVE  /\ Next
             /\ \E rows : Write(rows) /\ Changed \subseteq rows
             /\ \A p \in Drafts : proposal'[p] = proposal[p]
  <2>1. TypeOK BY DEF OperationsInv, IInv
  <2>2. \A p \in Drafts : proposal'[p] = proposal[p]
    BY <1>3, <2>1, OperationAssumption DEF ProposeAction, Draft, TypeOK
  <2> QED BY <1>3, <2>2 DEF Next, ActionStep
<1>4. ASSUME NEW a \in Actions,
             \/ Approve(a) \/ Reject(a) \/ ClaimSend(a) \/ AuthorizeSend(a) \/ RecordOutcome(a)
             \/ ResolveUnknown(a) \/ ProjectActionOutcome(a) \/ PromiseStep(a),
             Write(Changed)
      PROVE  /\ Next
             /\ \E rows : Write(rows) /\ Changed \subseteq rows
             /\ \A p \in Drafts : proposal'[p] = proposal[p]
  <2>1. UNCHANGED proposal
    BY <1>4 DEF Approve, Reject, Clear, ClaimSend, AuthorizeSend, RecordOutcome, ResolveUnknown,
       SetExecution, ProjectActionOutcome, PromiseStep, IngestReply, ApplyCommitment,
       RecordCommitmentDue, VerifyCommitment, SetCommitment
  <2> QED BY <1>4, <2>1 DEF Next, ActionStep
<1>5. ASSUME NEW a \in Actions, InvalidateAction(a), Write(Changed \union {"pointer"})
      PROVE  /\ Next
             /\ \E rows : Write(rows) /\ Changed \subseteq rows
             /\ \A p \in Drafts : proposal'[p] = proposal[p]
  BY <1>5 DEF Next, ActionStep, InvalidateAction, Clear
<1> QED BY <1>1, <1>2, <1>3, <1>4, <1>5 DEF Others

LEMMA OthersKeep == ASSUME OperationsInv, Others PROVE OperationsInv'
<1>1. PICK rows : Write(rows) /\ Changed \subseteq rows BY OthersStep
<1>2. UNCHANGED <<status, step, named, seen, record>> BY DEF Others
<1>3. Next /\ IInv' BY OthersStep, StepKeeps DEF OperationsInv
<1>4. OperationTypes' BY <1>1, <1>2, WriteMoves DEF OperationsInv, OperationTypes
<1>5. ASSUME NEW p \in Operations PROVE RecordFact(p)' /\ HeldFact(p)'
  <2>1. HeldFact(p)' BY <1>1, <1>2, <1>3, HeldKept
  <2>2. RecordFact(p)' BY <1>2, OthersStep, RecordKept
  <2> QED BY <2>1, <2>2
<1> QED BY <1>3, <1>4, <1>5 DEF OperationsInv

-----------------------------------------------------------------------------
(* The operations.                                                          *)

LEMMA OperationsStep == OperationsInv /\ [OperationsNext]_allVars => OperationsInv'
<1> SUFFICES ASSUME OperationsInv, [OperationsNext]_allVars PROVE OperationsInv'
  OBVIOUS
<1>1. ASSUME NEW o \in Operations, OperationStep(o) PROVE OperationsInv'
  BY <1>1, StartKeeps, ClaimKeeps, LoadKeeps, ReadKeeps, AskKeeps, ApplyKeeps, RecordKeeps,
     SettleKeeps, SucceedKeeps, RecheckKeeps, ResolveKeeps, VisitKeeps, LoseWorkerKeeps
  DEF OperationStep
<1>2. CASE UNCHANGED allVars
  <2>1. UNCHANGED vars /\ UNCHANGED operationVars BY <1>2 DEF allVars
  <2>2. IInv' BY <2>1, StepKeeps DEF OperationsInv
  <2>3. OperationTypes' BY <2>1 DEF OperationsInv, OperationTypes, operationVars
  <2>4. \A o \in Operations : RecordFact(o)' /\ HeldFact(o)'
    BY <2>1 DEF OperationsInv, RecordFact, HeldFact, operationVars, vars, Investigable,
       ViewStands, Replaceable
  <2> QED BY <2>2, <2>3, <2>4 DEF OperationsInv
<1> QED BY <1>1, <1>2, OthersKeep DEF OperationsNext

LEMMA OperationsStart == OperationsInit => OperationsInv
<1> SUFFICES ASSUME OperationsInit PROVE OperationsInv
  OBVIOUS
<1>1. IInv
  <2>1. Init => IInv BY InitKeeps
  <2> QED BY <2>1 DEF OperationsInit
<1>2. OperationTypes
  BY DEF OperationsInit, OperationTypes, Statuses, Steps, Views, NoView, Rows
<1>3. \A o \in Operations : RecordFact(o) /\ HeldFact(o)
  BY OperationAssumption DEF OperationsInit, Init, RecordFact, HeldFact, Holding
<1> QED BY <1>1, <1>2, <1>3 DEF OperationsInv

(* The invariant holds, for any investigations, proposals and bounds. *)
THEOREM OperationsInductive == OperationsSpec => []OperationsInv
BY OperationsStart, OperationsStep, PTL DEF OperationsSpec

(* Every variable of the case and of the operations stays in its type, and  *)
(* a proposal exists exactly with its execution, whoever applied it.        *)
THEOREM OperationsTyped == OperationsSpec => [](TypeOK /\ OperationTypes)
<1>1. OperationsInv => TypeOK /\ OperationTypes BY DEF OperationsInv, IInv
<1> QED BY OperationsInductive, <1>1, PTL

(* The operations, with all that may happen between the steps of their      *)
(* workers, take no step of a case that CaseLifecycle does not take: what   *)
(* is proved of its specification is true of theirs.                        *)
THEOREM OperationsImplement == OperationsSpec => ImplementsLifecycle
<1>1. OperationsInit => Init BY DEF OperationsInit
<1>2. OperationsInv /\ [OperationsNext]_allVars => [Next]_vars
  <2> SUFFICES ASSUME OperationsInv, [OperationsNext]_allVars PROVE [Next]_vars
    OBVIOUS
  <2>1. ASSUME NEW o \in Operations, OperationStep(o) PROVE [Next]_vars
    <3>1. CASE Apply(o) BY <3>1, CommitStep DEF Apply, vars
    <3>2. CASE UNCHANGED vars BY <3>2
    <3> QED BY <2>1, <3>1, <3>2 DEF OperationStep, Start, Claim, Load, Read, Ask, Record, Settle,
         Succeed, Recheck, Resolve, Visit, LoseWorker
  <2>2. CASE UNCHANGED allVars BY <2>2 DEF allVars
  <2> QED BY <2>1, <2>2, OthersStep DEF OperationsNext
<1> QED BY OperationsInductive, <1>1, <1>2, PTL DEF OperationsSpec, Spec, ImplementsLifecycle

(* What an operation says is what happened to its case, whoever said it     *)
(* (the workers, and the record in the apply transaction).                  *)
THEOREM OperationsAreHonest == OperationsSpec => []OperationSaysWhatHappened
<1>1. OperationsInv => OperationSaysWhatHappened
  <2> SUFFICES ASSUME OperationsInv PROVE OperationSaysWhatHappened
    OBVIOUS
  <2>1. ASSUME NEW o \in Drafts
        PROVE  /\ status[o] = "UNKNOWN" => record[o] # "SUCCEEDED"
               /\ record[o] = "SUCCEEDED" <=> execution[o] # "NONE"
               /\ record[o] = "SUCCEEDED" => proposal[o] = named[o]
    <3>1. o \in Operations /\ o \in Actions BY OperationAssumption DEF Operations
    <3>2. RecordFact(o) /\ TypeOK BY <3>1, InvFacts
    <3>3. record[o] = "SUCCEEDED" => status[o] # "NONE" BY <3>2 DEF RecordFact
    <3>4. record[o] = "SUCCEEDED" => named[o] # NoView BY <3>2, <3>3 DEF RecordFact, NoView
    <3>5. proposal[o] = NoView <=> execution[o] = "NONE" BY <3>1, <3>2 DEF TypeOK
    <3> QED BY <3>2, <3>4, <3>5 DEF RecordFact
  <2>2. \A o \in Operations : /\ status[o] = "SUCCEEDED" => record[o] = "SUCCEEDED"
                              /\ status[o] = "REFUSED" => record[o] # "SUCCEEDED"
    BY InvFacts DEF RecordFact
  <2> QED BY <2>1, <2>2 DEF OperationSaysWhatHappened
<1> QED BY OperationsInductive, <1>1, PTL

(* A model's answer is applied only over what it was asked about: the rows  *)
(* the apply conditions on answer for all that was read (version conditions *)
(* of both apply transactions).                                             *)
THEOREM NothingStale == OperationsSpec => NothingStaleIsApplied
<1>1. OperationsInv /\ [OperationsNext]_allVars
      => [\A o \in Operations :
            record[o] # "SUCCEEDED" /\ record'[o] = "SUCCEEDED" =>
                /\ seen[o] = inputs
                /\ o \in Drafts => (view = named[o] /\ view.inputs = inputs)]_allVars
  <2> SUFFICES ASSUME OperationsInv, OperationsNext, NEW o \in Operations,
                      record[o] # "SUCCEEDED", record'[o] = "SUCCEEDED"
               PROVE  /\ seen[o] = inputs
                      /\ o \in Drafts => (view = named[o] /\ view.inputs = inputs)
    OBVIOUS
  <2>1. PICK p \in Operations : OperationStep(p)
    BY DEF OperationsNext, Others
  <2>2. Apply(p) \/ Record(p)
    BY <2>1 DEF OperationStep, Start, Claim, Load, Read, Ask, Settle, Succeed, Recheck, Resolve,
       Visit, LoseWorker
  <2>3. ~ Record(p)
    BY InvFacts, SayMoves DEF Record
  <2>4. Apply(p) /\ Commit(p) BY <2>2, <2>3 DEF Apply
  <2>5. p = o BY <2>4, InvFacts, SayMoves DEF Commit
  <2> QED BY <2>4, <2>5, CommitStep DEF Apply
<1> QED BY OperationsInductive, <1>1, PTL DEF OperationsSpec, NothingStaleIsApplied
=============================================================================
