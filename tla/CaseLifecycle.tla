--------------------------- MODULE CaseLifecycle ---------------------------
(***************************************************************************)
(* One community case from candidate to resolution: mandates, reports,     *)
(* investigation, compiled views, proposals, approval, the send (its inner *)
(* steps are in SendAction), the projection of its outcome, replies,       *)
(* commitments and their verification.                                     *)
(*                                                                         *)
(* Each command reads, asks a model or a person's request, and commits     *)
(* under conditions on the versions of the rows it read, so it is one      *)
(* action, placed at its commit.  What a command reads and does not        *)
(* condition on is chosen there from all it may have read; an expiry only  *)
(* refuses, before the commit, so a step of an expired view is a step not  *)
(* taken.                                                                  *)
(*                                                                         *)
(* inputs counts the changes of what a compile reads -- mandate versions,  *)
(* facts, reports, evidence, the assessment -- and is what the             *)
(* authorization_version ("epoch") of the case is meant to stand for.      *)
(***************************************************************************)
EXTENDS Naturals, FiniteSets

CONSTANTS
    Actions,       \* action proposals that may be made, each with one execution
    None,          \* the absent value
    MaxEpoch,      \* bound: changes of the authorization epoch
    MaxViews       \* bound: compiled views

Pointers == [action : Actions, status : {"DRAFT", "INVALIDATED"}]

ASSUME NoneAssumption == None \notin Actions \union Pointers
ASSUME BoundAssumption == MaxEpoch \in Nat /\ MaxViews \in Nat

VARIABLES
    case,          \* the CommunityCase row: state and authorization_version
    inputs,        \* how often what a compile reads has changed
    view,          \* the current view: number, and the epoch and inputs compiled from
    pointer,       \* the current action pointer: action and status, or None
    proposal,      \* per action: the view it is bound to
    execution,     \* per action: state of its one ActionExecution
    fence,         \* the action whose send fence is live, or None
    granted,       \* actions whose send the compiler authorized
    located,       \* actions with an outbound message locator
    replied,       \* actions with an attested reply in evidence
    commitment     \* per action: status of its commitment

vars == <<case, inputs, view, pointer, proposal, execution, fence, granted, located,
          replied, commitment>>

CaseStates == {"CANDIDATE", "AWAITING_MANDATES", "INVESTIGATING", "READY_FOR_ACTION",
               "ACTION_PROPOSED", "ACTIONED", "VERIFYING", "RESOLVED"}
ExecutionStates == {"NONE", "DRAFT", "APPROVED", "SENDING", "SENT", "FAILED", "SEND_UNKNOWN"}
CommitmentStates == {"NONE", "PENDING", "DUE", "FULFILLED", "MISSED"}
Views == [id : Nat, epoch : Nat, inputs : Nat]
NoView == [id |-> 0, epoch |-> 0, inputs |-> 0]

(* The state is of its types, and an execution exists exactly when a        *)
(* proposal bound to some view does.                                        *)
TypeOK ==
    /\ case \in [state : CaseStates, epoch : Nat]
    /\ inputs \in Nat
    /\ view \in Views
    /\ pointer \in Pointers \union {None}
    /\ proposal \in [Actions -> Views]
    /\ execution \in [Actions -> ExecutionStates]
    /\ fence \in Actions \union {None}
    /\ granted \subseteq Actions
    /\ located \subseteq Actions
    /\ replied \subseteq Actions
    /\ commitment \in [Actions -> CommitmentStates]
    /\ \A a \in Actions : proposal[a] = NoView <=> execution[a] = "NONE"

Init ==
    /\ case = [state |-> "CANDIDATE", epoch |-> 1]
    /\ inputs = 1
    /\ view = NoView
    /\ pointer = None
    /\ proposal = [a \in Actions |-> NoView]
    /\ execution = [a \in Actions |-> "NONE"]
    /\ fence = None
    /\ granted = {}
    /\ located = {}
    /\ replied = {}
    /\ commitment = [a \in Actions |-> "NONE"]

-----------------------------------------------------------------------------
(* The case row.                                                            *)

(* The edges some command takes; closing and reopening have no command.     *)
Edges ==
    { <<"CANDIDATE", "AWAITING_MANDATES">>, <<"AWAITING_MANDATES", "INVESTIGATING">>,
      <<"INVESTIGATING", "READY_FOR_ACTION">>, <<"READY_FOR_ACTION", "INVESTIGATING">>,
      <<"READY_FOR_ACTION", "ACTION_PROPOSED">>, <<"ACTION_PROPOSED", "READY_FOR_ACTION">>,
      <<"ACTION_PROPOSED", "INVESTIGATING">>, <<"ACTION_PROPOSED", "ACTIONED">>,
      <<"ACTIONED", "VERIFYING">>, <<"VERIFYING", "RESOLVED">>,
      <<"VERIFYING", "READY_FOR_ACTION">> }

(* The edges that move the epoch: lifecycle progress is not disclosure      *)
(* authority.                                                               *)
Sensitive ==
    { <<"CANDIDATE", "AWAITING_MANDATES">>, <<"AWAITING_MANDATES", "INVESTIGATING">>,
      <<"INVESTIGATING", "READY_FOR_ACTION">>, <<"READY_FOR_ACTION", "INVESTIGATING">>,
      <<"ACTION_PROPOSED", "INVESTIGATING">> }

MoveCase(target) ==
    LET edge == <<case.state, target>>
        epoch == IF edge \in Sensitive THEN case.epoch + 1 ELSE case.epoch
    IN  /\ edge \in Edges
        /\ epoch <= MaxEpoch
        /\ case' = [state |-> target, epoch |-> epoch]

(* An authorization-sensitive change of no state. *)
BumpCase ==
    /\ case.state # "RESOLVED"
    /\ case.epoch < MaxEpoch
    /\ case' = [case EXCEPT !.epoch = @ + 1]

NoLiveFence == fence = None

ChangeInputs == inputs' = inputs + 1

actions == <<pointer, proposal, execution, fence, granted, located, replied, commitment>>

-----------------------------------------------------------------------------
(* What may be disclosed.                                                   *)

(* A person accepts the candidate: a mandate is proposed to each owner.     *)
ProposeMandates ==
    /\ case.state = "CANDIDATE"
    /\ NoLiveFence
    /\ MoveCase("AWAITING_MANDATES")
    /\ ChangeInputs
    /\ UNCHANGED <<view, actions>>

(* A contributor approves, adjusts, refuses or revokes.  The first decision *)
(* starts the investigation; one that takes something back costs a case     *)
(* that could act its readiness.                                            *)
DecideMandate(withdraws) ==
    /\ case.state # "CANDIDATE"
    /\ NoLiveFence
    /\ IF case.state \in {"AWAITING_MANDATES"} \union
                          (IF withdraws THEN {"READY_FOR_ACTION", "ACTION_PROPOSED"} ELSE {})
       THEN MoveCase("INVESTIGATING")
       ELSE BumpCase
    /\ ChangeInputs
    /\ UNCHANGED <<view, actions>>

(* An investigation moves the case by one of the two readiness edges, or    *)
(* records its assessment and no more.                                      *)
Assess(ready) ==
    /\ CASE case.state = "INVESTIGATING" /\ ready -> MoveCase("READY_FOR_ACTION")
         [] case.state = "READY_FOR_ACTION" /\ ~ready -> MoveCase("INVESTIGATING")
         [] OTHER -> BumpCase
    /\ ChangeInputs
    /\ UNCHANGED <<view, actions>>

Investigable == case.state \notin {"CANDIDATE", "RESOLVED"}

RunInvestigation(ready) == Investigable /\ NoLiveFence /\ Assess(ready)

(* A Monitor apply step links reports and facts, with no fence condition.   *)
LinkReport ==
    /\ BumpCase
    /\ ChangeInputs
    /\ UNCHANGED <<view, actions>>

(* An allowed compile replaces the current view.  It needs an approved      *)
(* mandate, so some decision has been made.                                 *)
CompileView ==
    /\ case.state \notin {"CANDIDATE", "AWAITING_MANDATES", "RESOLVED"}
    /\ NoLiveFence
    /\ view.id < MaxViews
    /\ view' = [id |-> view.id + 1, epoch |-> case.epoch, inputs |-> inputs]
    /\ UNCHANGED <<case, inputs, actions>>

-----------------------------------------------------------------------------
(* Proposals and what people do with them.                                  *)

(* Broken variant: the pointer is trusted and the execution not looked at,  *)
(* nor whether a person has decided.                                        *)
Replaceable_Any == pointer # None => execution[pointer.action] # "DRAFT"

(* Only an invalidated proposal whose execution failed may be replaced.     *)
Replaceable ==
    pointer # None => (pointer.status = "INVALIDATED" /\ execution[pointer.action] = "FAILED")

(* Broken variant: a case that was never compiled has no view to be stale. *)
ViewStands_Absent == view.id # 0 => view.epoch = case.epoch

(* There is a current view, of the case's epoch. *)
ViewStands == view.id # 0 /\ view.epoch = case.epoch

(* The action's proposal, bound to the view it was drafted from, with its   *)
(* execution, and the pointer and the case moved to it.                     *)
Draft(a, from) ==
    /\ proposal' = [proposal EXCEPT ![a] = from]
    /\ execution' = [execution EXCEPT ![a] = "DRAFT"]
    /\ pointer' = [action |-> a, status |-> "DRAFT"]
    /\ MoveCase("ACTION_PROPOSED")
    /\ UNCHANGED <<inputs, view, fence, granted, located, replied, commitment>>

ProposeAction(a) ==
    /\ case.state = "READY_FOR_ACTION"
    /\ ViewStands
    /\ NoLiveFence
    /\ Replaceable
    /\ execution[a] = "NONE"
    /\ Draft(a, view)

Current(a) == pointer # None /\ pointer.action = a

(* Broken variant: an approval binds the view and not the epoch. *)
EpochStands_Ignored(a) == TRUE

EpochStands(a) == case.epoch = proposal[a].epoch

(* The approval binds the proposal; whether its view is still the current   *)
(* one is not asked.                                                        *)
Approve(a) ==
    /\ pointer = [action |-> a, status |-> "DRAFT"]
    /\ execution[a] = "DRAFT"
    /\ case.state = "ACTION_PROPOSED"
    /\ EpochStands(a)
    /\ execution' = [execution EXCEPT ![a] = "APPROVED"]
    /\ UNCHANGED <<case, inputs, view, pointer, proposal, fence, granted, located,
                   replied, commitment>>

(* Broken variant: a view is enough, whatever it was compiled from. *)
AuthorityStands_AnyView == view.id # 0

AuthorityStands == view.id # 0 /\ view.epoch = case.epoch

(* The case returns to READY_FOR_ACTION if a new proposal may be made, and  *)
(* otherwise stays.  The view and the time are read before the commit and   *)
(* are no condition of it: a view that stands at the commit may have        *)
(* expired, or not have been there when it was looked for.                  *)
ReconcileReadiness ==
    \/ /\ case.state = "ACTION_PROPOSED"
       /\ AuthorityStands
       /\ MoveCase("READY_FOR_ACTION")
    \/ UNCHANGED case

Clear(a) ==
    /\ execution' = [execution EXCEPT ![a] = "FAILED"]
    /\ pointer' = [action |-> a, status |-> "INVALIDATED"]
    /\ ReconcileReadiness
    /\ UNCHANGED <<inputs, view, proposal, fence, granted, located, replied, commitment>>

Reject(a) ==
    /\ pointer = [action |-> a, status |-> "DRAFT"]
    /\ execution[a] = "DRAFT"
    /\ Clear(a)

(* Withdrawal and clearing; a cleared proposal may be cleared again.        *)
InvalidateAction(a) ==
    /\ Current(a)
    /\ execution[a] \in {"DRAFT", "APPROVED", "FAILED"}
    /\ Clear(a)

-----------------------------------------------------------------------------
(* The send, as the case sees it.                                           *)

SetExecution(a, s) ==
    /\ execution' = [execution EXCEPT ![a] = s]
    /\ UNCHANGED <<case, inputs, view, pointer, proposal, granted, located, replied,
                   commitment>>

(* The sender takes the one attempt, or gives up before it.                 *)
ClaimSend(a) ==
    /\ execution[a] = "APPROVED"
    /\ \E s \in {"SENDING", "FAILED"} : SetExecution(a, s)
    /\ UNCHANGED fence

(* The compiler's last word, given under the fence, at the instant it reads *)
(* the case (SendAction has what happens between that and the send).        *)
SendStands(a) ==
    /\ case.state = "ACTION_PROPOSED"
    /\ EpochStands(a)
    /\ view = proposal[a]
    /\ pointer = [action |-> a, status |-> "DRAFT"]

AuthorizeSend(a) ==
    /\ execution[a] = "SENDING"
    /\ a \notin granted
    /\ NoLiveFence
    /\ SendStands(a)
    /\ fence' = a
    /\ granted' = granted \union {a}
    /\ UNCHANGED <<case, inputs, view, pointer, proposal, execution, located, replied,
                   commitment>>

(* The attempt ends: denied, failed, sent, or without anybody knowing.      *)
RecordOutcome(a) ==
    /\ execution[a] = "SENDING"
    /\ \E s \in {"FAILED", "SEND_UNKNOWN"} \union (IF a \in granted THEN {"SENT"} ELSE {}) :
         SetExecution(a, s)
    /\ UNCHANGED fence

(* Evidence, or a person's attestation, settles a quarantined attempt.      *)
ResolveUnknown(a) ==
    /\ execution[a] = "SEND_UNKNOWN"
    /\ \E s \in {"FAILED"} \union (IF a \in granted THEN {"SENT"} ELSE {}) : SetExecution(a, s)
    /\ UNCHANGED fence

(* Released by the sender, or expired. *)
FenceEnds ==
    /\ fence # None
    /\ fence' = None
    /\ UNCHANGED <<case, inputs, view, pointer, proposal, execution, granted, located,
                   replied, commitment>>

Projectable(a) == execution[a] = "SENT"

(* Once per execution: the locator is create-only. *)
ProjectActionOutcome(a) ==
    /\ Projectable(a)
    /\ a \notin located
    /\ case.state = "ACTION_PROPOSED"
    /\ MoveCase("ACTIONED")
    /\ located' = located \union {a}
    /\ UNCHANGED <<inputs, view, pointer, proposal, execution, fence, granted, replied,
                   commitment>>

-----------------------------------------------------------------------------
(* Replies and promises.                                                    *)

(* A reply correlated by the locator becomes evidence, one epoch on. *)
IngestReply(a) ==
    /\ a \in located
    /\ case.state \in {"ACTIONED", "VERIFYING"}
    /\ NoLiveFence
    /\ BumpCase
    /\ ChangeInputs
    /\ replied' = replied \union {a}
    /\ UNCHANGED <<view, pointer, proposal, execution, fence, granted, located,
                   commitment>>

Live(a) == commitment[a] \in {"PENDING", "DUE"}

SetCommitment(a, s) ==
    /\ commitment' = [commitment EXCEPT ![a] = s]
    /\ UNCHANGED <<inputs, view, proposal, execution, fence, granted, located, replied>>

(* An extraction from a reply is applied. *)
ApplyCommitment(a) ==
    /\ a \in replied
    /\ ~Live(a)
    /\ case.state = "ACTIONED"
    /\ MoveCase("VERIFYING")
    /\ SetCommitment(a, "PENDING")
    /\ UNCHANGED pointer

RecordCommitmentDue(a) ==
    /\ commitment[a] = "PENDING"
    /\ SetCommitment(a, "DUE")
    /\ UNCHANGED <<case, pointer>>

(* Broken variant: the decision is not told apart. *)
Verified_Any(outcome) == "RESOLVED"

Verified(outcome) == IF outcome = "FULFILLED" THEN "RESOLVED" ELSE "READY_FOR_ACTION"

(* An affected contributor says whether it was done.                        *)
VerifyCommitment(a, outcome) ==
    /\ commitment[a] = "DUE"
    /\ case.state = "VERIFYING"
    /\ pointer # None
    /\ MoveCase(Verified(outcome))
    /\ SetCommitment(a, outcome)
    /\ pointer' = IF outcome = "FULFILLED" THEN pointer
                  ELSE [pointer EXCEPT !.status = "INVALIDATED"]

-----------------------------------------------------------------------------
Disclosure ==
    \/ ProposeMandates
    \/ \E withdraws \in BOOLEAN : DecideMandate(withdraws)
    \/ \E ready \in BOOLEAN : RunInvestigation(ready)
    \/ LinkReport
    \/ CompileView

ActionStep(a) ==
    \/ ProposeAction(a) \/ Approve(a) \/ Reject(a) \/ InvalidateAction(a)
    \/ ClaimSend(a) \/ AuthorizeSend(a) \/ RecordOutcome(a) \/ ResolveUnknown(a)
    \/ ProjectActionOutcome(a)

PromiseStep(a) ==
    \/ IngestReply(a) \/ ApplyCommitment(a) \/ RecordCommitmentDue(a)
    \/ \E outcome \in {"FULFILLED", "MISSED"} : VerifyCommitment(a, outcome)

Next ==
    \/ Disclosure
    \/ \E a \in Actions : ActionStep(a) \/ PromiseStep(a)
    \/ FenceEnds

Spec == Init /\ [][Next]_vars

-----------------------------------------------------------------------------
(* Properties.                                                              *)

(* A case has one message in the making or made: whatever is rejected,      *)
(* withdrawn, quarantined or missed, an execution that has not failed is    *)
(* the current pointer's, and one still open is under a DRAFT pointer       *)
(* (_pointer_is_replaceable, the clearing verbs, VerifyCommitment).         *)
OneOpenAction ==
    \A a \in Actions :
        /\ execution[a] \notin {"NONE", "FAILED"} => Current(a)
        /\ execution[a] \in {"DRAFT", "APPROVED", "SENDING", "SEND_UNKNOWN"}
             => pointer.status = "DRAFT"

(* Stale consent is never acted on: a proposal is approved, and its send    *)
(* authorized, only while nothing its view was compiled from has changed    *)
(* (authorization_version across compile, proposal, approval and fence).    *)
DecidedOnCurrentInputs ==
    [][\A a \in Actions :
          (\/ execution[a] = "DRAFT" /\ execution'[a] = "APPROVED"
           \/ a \notin granted /\ a \in granted')
          => proposal[a].inputs = inputs]_vars

(* Lifecycle progress is not disclosure authority: while nothing a proposal *)
(* was compiled from has changed, an open proposal stands in its case, at   *)
(* the case's epoch, through every lifecycle step (ADR-020 section 2).      *)
FreshProposalStands ==
    \A a \in Actions :
        execution[a] \in {"DRAFT", "APPROVED", "SENDING"} /\ proposal[a].inputs = inputs
        => (case.state = "ACTION_PROPOSED" /\ EpochStands(a))

(* Clearing a proposal never asserts a readiness nobody verified: it makes  *)
(* the case ready only over a view compiled from what there is now          *)
(* (case_readiness: evaluate_invalidation_readiness).                       *)
ReadinessReallyRemains ==
    [][case.state = "ACTION_PROPOSED" /\ case'.state = "READY_FOR_ACTION"
       => view.id # 0 /\ view.inputs = inputs]_vars

(* A case that says it was acted upon was: its current, uncleared action    *)
(* was sent, and replies to it can be correlated (ProjectActionOutcome).    *)
ActedUponMeansSent ==
    case.state \in {"ACTIONED", "VERIFYING", "RESOLVED"} =>
        /\ pointer # None /\ pointer.status = "DRAFT"
        /\ execution[pointer.action] = "SENT"
        /\ pointer.action \in located

(* A case is being verified exactly while one promise about its current     *)
(* action is open, and is resolved exactly when it was kept                 *)
(* (ApplyCommitment, RecordCommitmentDue, VerifyCommitment).                *)
VerifyingMeansPromise ==
    /\ \A a \in Actions : Live(a) => (case.state = "VERIFYING" /\ Current(a))
    /\ case.state = "VERIFYING" => \E a \in Actions : Live(a)
    /\ (case.state = "RESOLVED") <=> \E a \in Actions : commitment[a] = "FULFILLED"

-----------------------------------------------------------------------------
(* What the properties rest on.                                             *)

(* The epoch moves exactly when what a compile reads does. *)
EpochCountsInputs ==
    /\ case.epoch = inputs
    /\ view.epoch = view.inputs /\ view.inputs <= inputs
    /\ \A a \in Actions : proposal[a].epoch = proposal[a].inputs /\ proposal[a].inputs <= inputs

(* A sent message stays sent, and is cleared only once it was projected. *)
SentStays ==
    /\ replied \subseteq located
    /\ \A a \in located : execution[a] = "SENT"
    /\ pointer # None /\ pointer.status = "INVALIDATED" /\ execution[pointer.action] = "SENT"
         => pointer.action \in located

(* The inductive invariant. *)
IInv == TypeOK /\ OneOpenAction /\ FreshProposalStands /\ ActedUponMeansSent
        /\ VerifyingMeansPromise /\ EpochCountsInputs /\ SentStays

-----------------------------------------------------------------------------
(* A statement of the repository that the code does not keep.               *)

(* ADR-027:164: a missed commitment reopens action: a case that is ready    *)
(* after one may have its next proposal.                                    *)
MissedReopensAction ==
    case.state = "READY_FOR_ACTION" /\ (\E a \in Actions : commitment[a] = "MISSED")
    => Replaceable
=============================================================================
