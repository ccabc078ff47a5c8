----------------------------- MODULE SendAction -----------------------------
(***************************************************************************)
(* One approved action execution and everything that races for it: sender  *)
(* invocations (SendAction), the compiler-side send authorization and its  *)
(* fence, SES, the reconciliation worker, contributors deciding mandates,  *)
(* a human withdrawing the proposal, and the projection of the outcome     *)
(* onto the case.                                                          *)
(*                                                                         *)
(* A command that reads and then commits under conditions on everything it *)
(* read is one action, placed at its commit.  A read whose result is used  *)
(* later without such a condition is an action of its own.                 *)
(*                                                                         *)
(* Time is a number of ticks.  view.expires_at is never after the expiry   *)
(* of a mandate the view relies on (the compiler takes the minimum), and   *)
(* approval.expires_at is never after view.expires_at, so ApprovalExpiry   *)
(* is the only term of the authority that can lapse first.                 *)
(***************************************************************************)
EXTENDS Naturals, FiniteSets

CONSTANTS
    Workers,              \* sender invocations that may deliver this execution
    None,                 \* the absent value
    FenceLifetime,        \* SEND_FENCE_LIFETIME
    MinFenceWindow,       \* MIN_SEND_FENCE_WINDOW
    ApprovalExpiry,       \* approval.expires_at
    ViewExpiry,           \* view.expires_at
    Horizon,              \* bound: the clock stops here
    MaxEpoch,             \* bound: authorization changes after the approval
    OperatorAttestation   \* TRUE: somebody passes operator_attestation_code

ASSUME NoneAssumption ==
    None \notin Workers \union Nat \union {"SENT", "FAILED", "SEND_UNKNOWN", "accepted", "refused"}
ASSUME TimeAssumption ==
    /\ FenceLifetime \in Nat \ {0}
    /\ MinFenceWindow \in Nat \ {0}
    /\ ApprovalExpiry \in Nat
    /\ ViewExpiry \in Nat
    /\ ApprovalExpiry <= ViewExpiry
    /\ Horizon \in Nat
    /\ MaxEpoch \in Nat
ASSUME SwitchAssumption == OperatorAttestation \in BOOLEAN

VARIABLES
    execution,     \* the ActionExecution row
    resultProof,   \* who wrote the create-only send-result record, if anybody
    pointer,       \* status of the current action pointer
    case,          \* the CommunityCase row: state and authorization_version
    mandate,       \* whether the relied-on mandate versions are still in force
    view,          \* the current view pointer: which view, and its epoch
    deployment,    \* whether it still has the values the view was compiled with
    fence,         \* expiry of this case's stored send fence, or None
    clock,
    ses,           \* deliberate SES calls made, and what became of the message
    recon,         \* version the reconciler has checked and is about to quarantine
    pc, alive,     \* per worker: next step, and whether the sender process lives
    bound,         \* per worker: the clock reading its invocation is bound to
    expects,       \* per worker: execution version its next write is conditional on
    grant,         \* per worker: expiry of the fence it was granted, or None
    outcome,       \* per worker: the terminal state it is about to record, or None
    report         \* per worker: the execution state its result claims, or None

durable == <<execution, resultProof, pointer, case, mandate, view, deployment, fence>>
worker  == <<pc, alive, bound, expects, grant, outcome, report>>
vars    == <<execution, resultProof, pointer, case, mandate, view, deployment, fence,
             clock, ses, recon, pc, alive, bound, expects, grant, outcome, report>>

ApprovedVersion == 2      \* created DRAFT at 1, APPROVED at 2
RecoveryWindow == FenceLifetime

Outcomes == {"SENT", "FAILED", "SEND_UNKNOWN"}
States == {"APPROVED", "SENDING", "SENT", "FAILED", "SEND_UNKNOWN"}
CaseStates == {"ACTION_PROPOSED", "READY_FOR_ACTION", "INVESTIGATING", "ACTIONED"}
Steps == {"idle", "verify", "claim", "reload", "authorize", "acquire", "validate", "check",
          "resolve", "call", "persist", "release", "done"}

Execution(s, v, o, t) == [state |-> s, version |-> v, owner |-> o, startedAt |-> t]

(* The row after its next write, in state s. *)
Moved(s) == Execution(s, execution.version + 1, execution.owner, execution.startedAt)

CaseIn(s, e) == [state |-> s, epoch |-> e]

(* clock.now() as worker w reads it: the deployed handler reads the clock   *)
(* row once per invocation and freezes it.                                  *)
Now(w) == bound[w]

(* Broken variant: a decision does not ask for a fence. *)
NoLiveFence_Off == TRUE

NoLiveFence == fence # None => fence <= clock

TypeOK ==
    /\ execution \in [state : States, version : Nat, owner : Workers \union {None},
                      startedAt : Nat]
    /\ resultProof \in {None, "send", "reconcile"}
    /\ pointer \in {"DRAFT", "INVALIDATED"}
    /\ case \in [state : CaseStates, epoch : Nat]
    /\ mandate \in {"IN_FORCE", "MOVED"}
    /\ view \in [id : {"approved", "newer"}, epoch : Nat]
    /\ deployment \in {"PINNED", "MOVED"}
    /\ fence \in Nat \union {None}
    /\ clock \in Nat
    /\ ses \in [calls : Nat, fate : {None, "accepted", "refused"}]
    /\ recon \in Nat \union {None}
    /\ pc \in [Workers -> Steps]
    /\ alive \in [Workers -> BOOLEAN]
    /\ bound \in [Workers -> Nat]
    /\ expects \in [Workers -> Nat]
    /\ grant \in [Workers -> Nat \union {None}]
    /\ outcome \in [Workers -> Outcomes \union {None}]
    /\ report \in [Workers -> States \union {None}]

Init ==
    /\ execution = Execution("APPROVED", ApprovedVersion, None, 0)
    /\ resultProof = None
    /\ pointer = "DRAFT"
    /\ case = CaseIn("ACTION_PROPOSED", 0)
    /\ mandate = "IN_FORCE"
    /\ view = [id |-> "approved", epoch |-> 0]
    /\ deployment = "PINNED"
    /\ fence = None
    /\ clock = 0
    /\ ses = [calls |-> 0, fate |-> None]
    /\ recon = None
    /\ pc = [w \in Workers |-> "idle"]
    /\ alive = [w \in Workers |-> TRUE]
    /\ bound = [w \in Workers |-> 0]
    /\ expects = [w \in Workers |-> ApprovedVersion]
    /\ grant = [w \in Workers |-> None]
    /\ outcome = [w \in Workers |-> None]
    /\ report = [w \in Workers |-> None]

-----------------------------------------------------------------------------
(* The sender: load, replay table, local verification.                      *)

At(w, step) == pc[w] = step /\ alive[w]
Goto(w, step) == pc' = [pc EXCEPT ![w] = step]

(* Broken variant: the decision is not carried to the write. *)
Settle_Lost(w, s) == UNCHANGED outcome /\ Goto(w, "persist")

(* Decide on a terminal state and go to write it. *)
Settle(w, s) == outcome' = [outcome EXCEPT ![w] = s] /\ Goto(w, "persist")

(* Steps 1-2.  The replay table: APPROVED proceeds, everything else is      *)
(* answered from the row.                                                   *)
Load(w) ==
    /\ At(w, "idle")
    /\ bound' = [bound EXCEPT ![w] = clock]
    /\ \/ /\ execution.state = "APPROVED"
          /\ execution.version = ApprovedVersion
          /\ Goto(w, "verify")
          /\ UNCHANGED report
       \/ /\ execution.state # "APPROVED"
          /\ Goto(w, "done")
          /\ report' = [report EXCEPT ![w] = execution.state]
    /\ UNCHANGED <<durable, clock, ses, recon, alive, expects, grant, outcome>>

(* The sender sees the artifacts, their expiry, the pointer and its own     *)
(* configuration, and none of the case.                                     *)
Verified(w) == Now(w) < ApprovalExpiry /\ pointer = "DRAFT" /\ deployment = "PINNED"

Verify(w) ==
    /\ At(w, "verify")
    /\ \/ Verified(w) /\ Goto(w, "claim") /\ UNCHANGED outcome
       \/ ~Verified(w) /\ Settle(w, "FAILED")
    /\ UNCHANGED <<durable, clock, ses, recon, alive, bound, expects, grant, report>>

-----------------------------------------------------------------------------
(* Steps 5-6b: the one-attempt boundary.                                    *)

(* The claim transaction commits. *)
Claim(w) ==
    /\ At(w, "claim")
    /\ execution.version = expects[w]
    /\ execution' = Execution("SENDING", expects[w] + 1, w, Now(w))
    /\ Goto(w, "reload")
    /\ UNCHANGED <<resultProof, pointer, case, mandate, view, deployment, fence, clock, ses,
                   recon, alive, bound, expects, grant, outcome, report>>

(* The transaction is refused.  Normally the conflict is raised; when the   *)
(* refusal was lost in transport the unit of work reads the claim record,   *)
(* which is keyed on the execution: any claimant's record answers           *)
(* "committed", and the worker goes on to the reload.                       *)
ClaimRefused(w) ==
    /\ At(w, "claim")
    /\ execution.version # expects[w]
    /\ \/ Goto(w, "done")
       \/ execution.owner # None /\ Goto(w, "reload")
    /\ UNCHANGED <<durable, clock, ses, recon, alive, bound, expects, grant, outcome, report>>

(* Broken variant: any claim reads as one's own. *)
Owns_AnyClaim(w) == execution.state = "SENDING"

(* Ownership is read from the row, never taken from the commit's answer.    *)
Owns(w) == execution.state = "SENDING" /\ execution.owner = w

Reload(w) ==
    /\ At(w, "reload")
    /\ \/ /\ Owns(w)
          /\ Goto(w, "authorize")
          /\ expects' = [expects EXCEPT ![w] = execution.version]
          /\ UNCHANGED report
       \/ /\ ~Owns(w)
          /\ Goto(w, "done")
          /\ report' = [report EXCEPT ![w] = execution.state]
          /\ UNCHANGED expects
    /\ UNCHANGED <<durable, clock, ses, recon, alive, bound, grant, outcome>>

-----------------------------------------------------------------------------
(* Step 7: the compiler's invocation, which may go on when its caller has   *)
(* died.                                                                    *)

(* The lifetime, or less when the authority lapses before. *)
FenceExpiry(t) ==
    IF t + FenceLifetime <= ApprovalExpiry THEN t + FenceLifetime ELSE ApprovalExpiry

(* The clock is read once for the expiry and the window.  Fewer than        *)
(* MinFenceWindow of authority left refuses before acquisition.             *)
RequestFence(w) ==
    /\ pc[w] = "authorize"
    /\ \/ /\ FenceExpiry(clock) < clock + MinFenceWindow
          /\ Settle(w, "FAILED")
          /\ UNCHANGED grant
       \/ /\ FenceExpiry(clock) >= clock + MinFenceWindow
          /\ grant' = [grant EXCEPT ![w] = FenceExpiry(clock)]
          /\ Goto(w, "acquire")
          /\ UNCHANGED outcome
    /\ UNCHANGED <<durable, clock, ses, recon, alive, bound, expects, report>>

(* The fence is written with the expiry computed before.  A fence of this   *)
(* execution already in place (a replay) or of another execution (refused)  *)
(* needs a second claim or a second execution, which this module has not.   *)
AcquireFence(w) ==
    /\ pc[w] = "acquire"
    /\ NoLiveFence
    /\ fence' = grant[w]
    /\ Goto(w, "validate")
    /\ UNCHANGED <<execution, resultProof, pointer, case, mandate, view, deployment, clock, ses,
                   recon, alive, bound, expects, grant, outcome, report>>

(* The case side, revalidated from inside the fence.  case.version and the  *)
(* execution's state are deliberately not compared; the expiries are, with  *)
(* the reading RequestFence already refused on.                             *)
CaseSideStands ==
    /\ case.state = "ACTION_PROPOSED"
    /\ case.epoch = 0
    /\ view.id = "approved"
    /\ pointer = "DRAFT"
    /\ mandate = "IN_FORCE"
    /\ deployment = "PINNED"

(* Broken variant: a denial leaves the fence to expire.                     *)
Deny_KeepsFence(w) ==
    /\ grant' = [grant EXCEPT ![w] = None]
    /\ Settle(w, "FAILED")
    /\ UNCHANGED fence

(* A denial releases the fence at once. *)
Deny(w) ==
    /\ fence' = None
    /\ grant' = [grant EXCEPT ![w] = None]
    /\ Settle(w, "FAILED")

Validate(w) ==
    /\ pc[w] = "validate"
    /\ \/ CaseSideStands /\ Goto(w, "check") /\ UNCHANGED <<fence, grant, outcome>>
       \/ ~CaseSideStands /\ Deny(w)
    /\ UNCHANGED <<execution, resultProof, pointer, case, mandate, view, deployment, clock, ses,
                   recon, alive, bound, expects, report>>

-----------------------------------------------------------------------------
(* Steps 8-12: the sender again.                                            *)

Expired(w) == Now(w) >= grant[w]

CheckGrant(w) ==
    /\ At(w, "check")
    /\ \/ ~Expired(w) /\ Goto(w, "resolve") /\ UNCHANGED outcome
       \/ Expired(w) /\ Settle(w, "FAILED")
    /\ UNCHANGED <<durable, clock, ses, recon, alive, bound, expects, grant, report>>

(* The registry lookups may refuse. *)
Resolve(w) ==
    /\ At(w, "resolve")
    /\ \/ Goto(w, "call") /\ UNCHANGED outcome
       \/ Settle(w, "FAILED")
    /\ UNCHANGED <<durable, clock, ses, recon, alive, bound, expects, grant, report>>

(* Broken variant: an adapter exception is a definite failure. *)
Answers_LostIsFailure(fate) == {IF fate = "accepted" THEN "SENT" ELSE "FAILED", "FAILED"}

(* What the classified answer records: the truth, or SEND_UNKNOWN when the  *)
(* transport or the adapter leaves it open.                                 *)
Answers(fate) == {IF fate = "accepted" THEN "SENT" ELSE "FAILED", "SEND_UNKNOWN"}

(* The last comparison, then the call with nothing awaited between them.    *)
(* SES takes the message or does not, and the answer is lost or is not.     *)
SendOnce(w) ==
    /\ At(w, "call")
    /\ \/ /\ Expired(w)
          /\ Settle(w, "FAILED")
          /\ UNCHANGED ses
       \/ /\ ~Expired(w)
          /\ \E fate \in {"accepted", "refused"} :
               /\ ses' = [calls |-> ses.calls + 1, fate |-> fate]
               /\ \E s \in Answers(fate) : Settle(w, s)
    /\ UNCHANGED <<durable, clock, recon, alive, bound, expects, grant, report>>

AfterPersist(w) == Goto(w, IF grant[w] # None THEN "release" ELSE "done")

(* The three-participant outcome transaction, conditional on the version.   *)
PersistOutcome(w) ==
    /\ At(w, "persist")
    /\ execution.version = expects[w]
    /\ resultProof = None
    /\ execution' = Moved(outcome[w])
    /\ resultProof' = "send"
    /\ report' = [report EXCEPT ![w] = outcome[w]]
    /\ AfterPersist(w)
    /\ UNCHANGED <<pointer, case, mandate, view, deployment, fence, clock, ses, recon, alive,
                   bound, expects, grant, outcome>>

(* Refused: the conflict is raised, except that a refusal lost in transport *)
(* is resolved by the result record, and one a sender wrote for the same    *)
(* request reads as this worker's own commit.                               *)
PersistRefused(w) ==
    /\ At(w, "persist")
    /\ execution.version # expects[w]
    /\ \/ UNCHANGED report
       \/ resultProof = "send" /\ report' = [report EXCEPT ![w] = outcome[w]]
    /\ AfterPersist(w)
    /\ UNCHANGED <<durable, clock, ses, recon, alive, bound, expects, grant, outcome>>

Release(w) ==
    /\ At(w, "release")
    /\ fence' = None
    /\ Goto(w, "done")
    /\ UNCHANGED <<execution, resultProof, pointer, case, mandate, view, deployment, clock, ses,
                   recon, alive, bound, expects, grant, outcome, report>>

(* The sender process is lost, times out, or raises: nothing of it runs on. *)
Crash(w) ==
    /\ alive[w]
    /\ pc[w] \notin {"idle", "done"}
    /\ alive' = [alive EXCEPT ![w] = FALSE]
    /\ UNCHANGED <<durable, clock, ses, recon, pc, bound, expects, grant, outcome, report>>

-----------------------------------------------------------------------------
(* Reconciliation.                                                          *)

(* The window and the fence are read; the commit is conditional on neither. *)
QuarantineCheck ==
    /\ recon = None
    /\ execution.state = "SENDING"
    /\ clock >= execution.startedAt + RecoveryWindow
    /\ NoLiveFence
    /\ recon' = execution.version
    /\ UNCHANGED <<durable, clock, ses, worker>>

QuarantineCommit ==
    /\ recon # None
    /\ recon' = None
    /\ \/ /\ execution.version = recon
          /\ resultProof = None
          /\ execution' = Moved("SEND_UNKNOWN")
          /\ resultProof' = "reconcile"
       \/ /\ execution.version # recon
          /\ UNCHANGED <<execution, resultProof>>
    /\ UNCHANGED <<pointer, case, mandate, view, deployment, fence, clock, ses, worker>>

(* Broken variant: a delivery nobody authenticated is taken as acceptance.  *)
Classify_Unauthenticated(target) == target = "SENT"

(* SEND_UNKNOWN moves only on evidence: an authenticated SES event, which   *)
(* says what happened, or a person attesting that SES never accepted.       *)
Classify(target) ==
    \/ target = "SENT" /\ ses.fate = "accepted"
    \/ target = "FAILED" /\ ses.fate = "refused"
    \/ target = "FAILED" /\ OperatorAttestation

ResolveUnknown ==
    /\ execution.state = "SEND_UNKNOWN"
    /\ \E target \in {"SENT", "FAILED"} :
         /\ Classify(target)
         /\ execution' = Moved(target)
    /\ UNCHANGED <<resultProof, pointer, case, mandate, view, deployment, fence, clock, ses, recon,
                   worker>>

-----------------------------------------------------------------------------
(* The case side.                                                           *)

(* A contributor decides a mandate of this case.  It may or may not be one  *)
(* the view relies on; a withdrawal takes the readiness-lost edge.          *)
DecideMandate(withdraws, relied) ==
    /\ case.epoch < MaxEpoch
    /\ NoLiveFence
    /\ case' = CaseIn(IF withdraws /\ case.state \in {"READY_FOR_ACTION", "ACTION_PROPOSED"}
                      THEN "INVESTIGATING" ELSE case.state, case.epoch + 1)
    /\ mandate' = IF relied THEN "MOVED" ELSE mandate
    /\ UNCHANGED <<execution, resultProof, pointer, view, deployment, fence, clock, ses, recon,
                   worker>>

(* A Monitor apply step links a report and its facts into this case, which  *)
(* starts a new authority epoch; its transaction has no fence condition.    *)
LinkReport ==
    /\ case.epoch < MaxEpoch
    /\ case' = CaseIn(case.state, case.epoch + 1)
    /\ UNCHANGED <<execution, resultProof, pointer, mandate, view, deployment, fence, clock, ses,
                   recon, worker>>

(* Another compile replaces the current view pointer, at the case's epoch.  *)
CompileView ==
    /\ NoLiveFence
    /\ view' = [id |-> "newer", epoch |-> case.epoch]
    /\ UNCHANGED <<execution, resultProof, pointer, case, mandate, deployment, fence, clock, ses,
                   recon, worker>>

(* May a new proposal still be made against current authority? *)
ReadinessRemains ==
    /\ case.state = "ACTION_PROPOSED"
    /\ view.epoch = case.epoch
    /\ view.id = "approved" => clock < ViewExpiry

(* Broken variant: a withdrawal may overtake an attempt in flight. *)
Invalidatable_InFlight == {"APPROVED", "SENDING", "FAILED"}

Invalidatable == {"APPROVED", "FAILED"}

(* A human withdraws an unclaimed proposal, or clears a failed one.         *)
InvalidateAction ==
    /\ execution.state \in Invalidatable
    /\ execution' = IF execution.state = "FAILED" THEN execution ELSE Moved("FAILED")
    /\ pointer' = "INVALIDATED"
    /\ case' = IF ReadinessRemains THEN CaseIn("READY_FOR_ACTION", case.epoch) ELSE case
    /\ UNCHANGED <<resultProof, mandate, view, deployment, fence, clock, ses, recon, worker>>

Projectable == execution.state = "SENT"

(* SENT takes the case from ACTION_PROPOSED to ACTIONED, once. *)
ProjectActionOutcome ==
    /\ Projectable
    /\ case.state = "ACTION_PROPOSED"
    /\ case' = CaseIn("ACTIONED", case.epoch)
    /\ UNCHANGED <<execution, resultProof, pointer, mandate, view, deployment, fence, clock, ses,
                   recon, worker>>

(* The registry, template or policy build a view was compiled with moves.   *)
MoveConfiguration ==
    /\ deployment = "PINNED"
    /\ deployment' = "MOVED"
    /\ UNCHANGED <<execution, resultProof, pointer, case, mandate, view, fence, clock, ses,
                   recon, worker>>

Tick ==
    /\ clock < Horizon
    /\ clock' = clock + 1
    /\ UNCHANGED <<durable, ses, recon, worker>>

-----------------------------------------------------------------------------
SenderStep(w) ==
    \/ Load(w) \/ Verify(w) \/ Claim(w) \/ ClaimRefused(w) \/ Reload(w)
    \/ RequestFence(w) \/ AcquireFence(w) \/ Validate(w)
    \/ CheckGrant(w) \/ Resolve(w) \/ SendOnce(w)
    \/ PersistOutcome(w) \/ PersistRefused(w) \/ Release(w)

Reconcile == QuarantineCheck \/ QuarantineCommit \/ ResolveUnknown

Next ==
    \/ \E w \in Workers : SenderStep(w) \/ Crash(w)
    \/ Reconcile
    \/ \E withdraws, relied \in BOOLEAN : DecideMandate(withdraws, relied)
    \/ LinkReport
    \/ CompileView
    \/ InvalidateAction
    \/ ProjectActionOutcome
    \/ MoveConfiguration
    \/ Tick

Spec == Init /\ [][Next]_vars

-----------------------------------------------------------------------------
(* The inductive invariant.                                                 *)

BeforeClaim == {"idle", "verify", "claim"}
BeforeCall  == {"authorize", "acquire", "validate", "check", "resolve", "call"}
Fenced      == {"validate", "check", "resolve", "call"}
Granted     == {"check", "resolve", "call"}

(* The row's version counts its writes, so only the approved row has the    *)
(* version a claim is conditional on.                                       *)
VersionInv ==
    /\ execution.version >= ApprovedVersion
    /\ execution.version = ApprovedVersion <=> execution.state = "APPROVED"
    /\ execution.state = "APPROVED" => execution.owner = None
    /\ execution.state = "SENDING" => execution.owner # None
    /\ \A w \in Workers :
         /\ expects[w] <= execution.version
         /\ expects[w] # ApprovedVersion =>
              /\ execution.owner = w
              /\ expects[w] = execution.version => execution.state = "SENDING"
    /\ recon # None =>
         /\ recon <= execution.version
         /\ recon = execution.version => execution.state = "SENDING"

(* Whoever is between its claim and its call is the row's owner, and the    *)
(* call is made by the owner on leaving that stretch.                       *)
OwnerInv ==
    /\ \A w \in Workers :
         /\ pc[w] \in BeforeCall => execution.owner = w
         /\ execution.owner = w => pc[w] \notin BeforeClaim
         /\ execution.owner = w /\ pc[w] \in BeforeCall \union {"reload"} => ses.calls = 0
         /\ pc[w] = "persist" => outcome[w] # None
         /\ pc[w] = "persist" /\ outcome[w] # "FAILED" => ses.calls > 0
    /\ execution.owner = None => ses.calls = 0
    /\ ses.calls <= 1
    /\ ses.calls = 0 => ses.fate = None

IInv == TypeOK /\ VersionInv /\ OwnerInv

(* Without attestations: the row cannot be settled under a worker that has  *)
(* yet to call, and what is recorded or about to be is what SES did.        *)
TruthInv ==
    /\ \A w \in Workers :
         /\ pc[w] \in BeforeCall => execution.state \in {"SENDING", "SEND_UNKNOWN"}
         /\ pc[w] = "persist" /\ outcome[w] = "SENT" => ses.fate = "accepted"
         /\ pc[w] = "persist" /\ outcome[w] = "FAILED" /\ execution.owner = w
              => ses.fate # "accepted"
    /\ execution.state = "SENT" => ses.fate = "accepted"
    /\ execution.state = "FAILED" => ses.fate # "accepted"

(* The stored fence is the owner's grant from acquisition to call, and      *)
(* until it expires no decision has moved what the validation read.         *)
FenceInv ==
    \A w \in Workers :
      /\ grant[w] # None => execution.owner = w /\ grant[w] <= ApprovalExpiry
      /\ pc[w] \in {"acquire", "release"} => grant[w] # None
      /\ pc[w] \in Fenced => grant[w] # None /\ fence = grant[w]
      /\ pc[w] \in Granted /\ clock < grant[w] =>
           /\ case.state = "ACTION_PROPOSED"
           /\ view.id = "approved" /\ pointer = "DRAFT" /\ mandate = "IN_FORCE"

(* A cleared proposal failed and an actioned one was sent, for good.        *)
SettledInv ==
    /\ pointer = "INVALIDATED" => execution.state = "FAILED"
    /\ case.state = "ACTIONED" => execution.state = "SENT"

AuthorityInv == IInv /\ TruthInv /\ FenceInv /\ SettledInv

-----------------------------------------------------------------------------
(* Properties.                                                              *)

(* One approval is at most one message: however many invocations deliver an *)
(* execution, and whatever each is told about its claim, SES is called at   *)
(* most once (REPLAY_TABLE, _claim, _owns).                                 *)
AtMostOneSesCall == ses.calls <= 1

AuthorityStands ==
    /\ case.state = "ACTION_PROPOSED"
    /\ view.id = "approved"
    /\ pointer = "DRAFT"
    /\ mandate = "IN_FORCE"
    /\ clock < ApprovalExpiry

(* What the fence is for: a call made before its expiry, by the clock row,  *)
(* goes out while everything people decided still stands -- the mandates    *)
(* relied on are in force, the case, the view and the proposal are the      *)
(* approved ones, the approval has not expired -- however decisions,        *)
(* compiles, clearings and other invocations raced it since the claim       *)
(* (authorize, require_no_live_fence of the decisions).                     *)
FenceKeepsAuthority ==
    [][ses.calls' > ses.calls =>
          \A w \in Workers : execution.owner = w /\ clock < grant[w] => AuthorityStands]_vars

(* The row never lies: SENT only if SES accepted the message, FAILED only   *)
(* if it did not and will not (_send_once, _persist_outcome, _classify).    *)
OutcomeIsTruthful ==
    /\ execution.state = "SENT" => ses.fate = "accepted"
    /\ execution.state = "FAILED" => ses.fate # "accepted"

(* A proposal a human cleared never goes out, before or after the clearing  *)
(* (InvalidateAction against _claim, _pointer_denials).                     *)
ClearedNeverGoesOut == pointer = "INVALIDATED" => ses.fate # "accepted"

(* The case says a message was sent only if one was (ProjectActionOutcome). *)
ActionedMeansAccepted == case.state = "ACTIONED" => ses.fate = "accepted"

(* A fence is an ordering window, not a lien on contributors' authority:    *)
(* one that is stored belongs to a worker between acquisition and release,  *)
(* running or lost there (_release, and the denial branch of authorize).    *)
FenceHasHolder ==
    fence # None =>
        \E w \in Workers :
            /\ grant[w] = fence
            /\ pc[w] \in {"validate", "check", "resolve", "call", "persist", "release"}

(* The execution implements the abstract attempt. *)
Attempt == INSTANCE SendAttempt WITH
    state <- execution.state,
    called <- ses.calls > 0,
    accepted <- (ses.fate = "accepted")

ImplementsAttempt == Attempt!Spec

-----------------------------------------------------------------------------
(* Statements of the repository that the code does not keep.                *)

(* 05-privacy-compiler-and-shareable-view.md:215: either a revocation       *)
(* commits first and the send is denied, or the fence does and SES is       *)
(* called within it; 07-action-ses-and-commitments.md:54: the clock is      *)
(* sampled once more immediately before the call.  SES is called only while *)
(* what people decided still stands.                                        *)
AuthorityStandsAtCall == [][ses.calls' > ses.calls => AuthorityStands]_vars

(* 05-privacy-compiler-and-shareable-view.md:215: authorization-sensitive   *)
(* case mutations conditionally require no unexpired send fence, so the     *)
(* epoch the fence validated is the epoch the message goes out under.       *)
EpochStandsAtCall == [][ses.calls' > ses.calls => case.epoch = 0]_vars

(* 07-action-ses-and-commitments.md:298: SENT moves the case to ACTIONED, and a *)
(* replay repairs a projection that was lost.                               *)
SentIsProjectable ==
    execution.state = "SENT" => case.state \in {"ACTION_PROPOSED", "ACTIONED"}
=============================================================================
