-------------------------- MODULE AgentOperations --------------------------
(***************************************************************************)
(* The operations that ask the Investigator about a case and the Action    *)
(* agent for a proposal, over the rows of CaseLifecycle: a start, a        *)
(* worker that reads, asks, applies and settles one step at a time, and    *)
(* the redeliveries that visit it, while everything else in the system     *)
(* goes on between its steps.                                              *)
(* Code: application/commands/run_investigation.py, propose_action.py and  *)
(* their *_operation.py workers, over application/operations.py and        *)
(* apps/api/chorus_api/routes/investigations.py and actions.py.            *)
(*                                                                         *)
(* The other commands, and the operations that are not opened up here,     *)
(* take the steps of CaseLifecycle whole.  An identifier is drawn by an    *)
(* apply, so a proposal operation is named by the action it would create.  *)
(* Wall and logical time are left out: a view may expire, and a worker     *)
(* outlive its window, between any two steps (StartOperation has the race  *)
(* of two starts under one key).                                           *)
(***************************************************************************)
EXTENDS CaseLifecycle

CONSTANTS
    Investigations,  \* investigation operations
    Drafts           \* proposal operations: the actions they would create

ASSUME OperationAssumption == Drafts \subseteq Actions /\ Investigations \cap Actions = {}

VARIABLES
    status,   \* per operation: status of its row, a FAILED one by its error code
    step,     \* per operation: what its worker does next
    named,    \* per operation: the view its request names
    seen,     \* per operation: the inputs that its worker's question is about
    moved,    \* per operation: rows written since the version it holds of them
    record    \* per operation: its durable agent invocation record

operationVars == <<status, step, named, seen, moved, record>>
allVars == <<vars, operationVars>>

Operations == Investigations \union Drafts

Rows == {"case", "view", "pointer"}

(* FAILED is REFUSED under the code of a refusal, UNKNOWN under the code of *)
(* a commit whose outcome is unknown, STALE when it was abandoned.          *)
Statuses == {"NONE", "PENDING", "RUNNING", "SUCCEEDED", "REFUSED", "UNKNOWN", "STALE"}

Steps == {"idle", "load", "read", "ask", "apply", "record", "succeed", "recheck", "resolve",
          "refused", "unknown"}

OperationTypes ==
    /\ status \in [Operations -> Statuses]
    /\ step \in [Operations -> Steps]
    /\ named \in [Operations -> Views]
    /\ seen \in [Operations -> Nat]
    /\ moved \in [Operations -> SUBSET Rows]
    /\ record \in [Operations -> {"NONE", "FAILED", "SUCCEEDED"}]

OperationsInit ==
    /\ Init
    /\ status = [o \in Operations |-> "NONE"]
    /\ step = [o \in Operations |-> "idle"]
    /\ named = [o \in Operations |-> NoView]
    /\ seen = [o \in Operations |-> 0]
    /\ moved = [o \in Operations |-> {}]
    /\ record = [o \in Operations |-> "NONE"]

-----------------------------------------------------------------------------
(* The rows whose version an operation holds: the case and, for a proposal, *)
(* the view from its request on; the pointer once its worker has read it.   *)
Held(o) ==
    IF status[o] # "PENDING" /\ step[o] \notin {"load", "read", "ask", "apply"} THEN {}
    ELSE IF o \in Investigations THEN {"case"}
    ELSE IF step[o] \in {"ask", "apply"} THEN Rows
    ELSE {"case", "view"}

(* A step of the system writes these rows. *)
Write(rows) == moved' = [o \in Operations |-> (moved[o] \union rows) \cap Held(o)']

Changed ==
    (IF case' # case THEN {"case"} ELSE {}) \union (IF view' # view THEN {"view"} ELSE {})
    \union (IF pointer' # pointer THEN {"pointer"} ELSE {})

(* What the worker read it has in hand until its apply. *)
Goto(o, next) ==
    /\ step' = [step EXCEPT ![o] = next]
    /\ seen' = [seen EXCEPT ![o] = CASE next = "ask" -> inputs [] next = "apply" -> @ [] OTHER -> 0]

(* The transition of the row, conditional on the version the claim gave it: *)
(* a RUNNING row is only ever ended.                                        *)
End(o, outcome) ==
    /\ status[o] = "RUNNING"
    /\ status' = [status EXCEPT ![o] = outcome]

Say(o, outcome) == record' = [record EXCEPT ![o] = outcome]

-----------------------------------------------------------------------------
(* POST .../investigations and .../actions: the request names the version   *)
(* of the case and the view that it was made for, whatever the case is.     *)
Start(o) ==
    /\ status[o] = "NONE"
    /\ o \in Drafts => view.id # 0
    /\ status' = [status EXCEPT ![o] = "PENDING"]
    /\ named' = IF o \in Drafts THEN [named EXCEPT ![o] = view] ELSE named
    /\ UNCHANGED <<vars, step, seen, record>>
    /\ Write({})

(* One delivery wins the claim; the answer of its write may be lost.        *)
Claim(o) ==
    /\ status[o] = "PENDING"
    /\ status' = [status EXCEPT ![o] = "RUNNING"]
    /\ \/ Goto(o, "load")
       \/ UNCHANGED <<step, seen>>
    /\ UNCHANGED <<vars, named, record>>
    /\ Write({})

(* Before the model is asked: the case is at the version named, where its   *)
(* state allows the question, and the view named is current and of the      *)
(* case's epoch.                                                            *)
Loadable(o) ==
    /\ moved[o] = {}
    /\ IF o \in Drafts THEN case.state = "READY_FOR_ACTION" /\ ViewStands ELSE Investigable

(* A view that expired and a read that fails refuse as well. *)
Load(o) ==
    /\ step[o] = "load"
    /\ \/ Loadable(o) /\ Goto(o, "read")
       \/ Goto(o, "refused")
    /\ UNCHANGED <<vars, status, named, record>>
    /\ Write({})

(* The reports, facts and evidence of the case, or the fence and the        *)
(* pointer with its execution.  Whatever is read in several reads the case  *)
(* row answers for.                                                         *)
Read(o) ==
    /\ step[o] = "read"
    /\ \/ /\ o \in Drafts => NoLiveFence /\ Replaceable
          /\ Goto(o, "ask")
       \/ Goto(o, "refused")
    /\ UNCHANGED <<vars, status, named, record>>
    /\ Write({})

(* The model answers, after one retry at most, or fails for good. *)
Ask(o) ==
    /\ step[o] = "ask"
    /\ Goto(o, "apply") \/ Goto(o, "record")
    /\ UNCHANGED <<vars, status, named, record>>
    /\ Write({})

(* Broken variants: the apply conditions on no row but the pointer; on no   *)
(* view.                                                                    *)
Unmoved_Pointer(o) == "pointer" \notin moved[o] /\ NoLiveFence
Unmoved_NoView(o) == moved[o] \subseteq {"view"} /\ NoLiveFence

Unmoved(o) == moved[o] = {} /\ NoLiveFence

(* The one transaction: what the answer changes and the record of it.       *)
Commit(o) ==
    /\ Unmoved(o)
    /\ IF o \in Drafts THEN Draft(o, named[o]) ELSE \E ready \in BOOLEAN : Assess(ready)
    /\ Say(o, "SUCCEEDED")

(* Broken variant: what is not known to be applied has failed. *)
Unknown_Failed(o) == "unknown"

(* A proposal whose commit is unknown is looked up; an investigation fails. *)
Unknown(o) == IF o \in Drafts THEN "resolve" ELSE "unknown"

(* It commits, it is refused -- for what has moved, or on other grounds --  *)
(* and the refusal recorded, it fails in storage, or nobody knows.          *)
Apply(o) ==
    /\ step[o] = "apply"
    /\ \/ Commit(o) /\ (Goto(o, "succeed") \/ Goto(o, Unknown(o)))
       \/ /\ \/ Goto(o, "record") \/ Goto(o, "refused") \/ Goto(o, Unknown(o))
          /\ UNCHANGED <<vars, record>>
    /\ UNCHANGED <<status, named>>
    /\ Write(Changed)

(* The invocation is over, durably; a write that fails is an error like any *)
(* other, and unknown if it is not known to have failed.                    *)
Record(o) ==
    /\ step[o] = "record"
    /\ \/ Say(o, "FAILED") /\ Goto(o, "refused")
       \/ UNCHANGED record /\ Goto(o, "refused")
       \/ (Say(o, "FAILED") \/ UNCHANGED record) /\ Goto(o, Unknown(o))
    /\ UNCHANGED <<vars, status, named>>
    /\ Write({})

-----------------------------------------------------------------------------
(* Settling.  A write of the row that is refused or fails leaves it.        *)

Settle(o) ==
    /\ step[o] \in {"refused", "unknown"}
    /\ \/ End(o, IF step[o] = "refused" THEN "REFUSED" ELSE "UNKNOWN")
       \/ UNCHANGED status
    /\ Goto(o, "idle")
    /\ UNCHANGED <<vars, named, record>>
    /\ Write({})

(* The worker that applied says so; refused, it looks once more. *)
Succeed(o) ==
    /\ step[o] = "succeed"
    /\ \/ End(o, "SUCCEEDED") /\ Goto(o, "idle")
       \/ UNCHANGED status /\ Goto(o, IF status[o] = "RUNNING" THEN "recheck" ELSE "idle")
    /\ UNCHANGED <<vars, named, record>>
    /\ Write({})

(* The record of a success is what ends an operation whose worker could not. *)
FinishIfRecorded(o) == record[o] = "SUCCEEDED" /\ End(o, "SUCCEEDED")

Recheck(o) ==
    /\ step[o] = "recheck"
    /\ FinishIfRecorded(o) \/ UNCHANGED status
    /\ Goto(o, "idle")
    /\ UNCHANGED <<vars, named, record>>
    /\ Write({})

(* The record answers for the transaction it is part of; while it cannot be *)
(* read the operation stays RUNNING.                                        *)
Resolve(o) ==
    /\ step[o] = "resolve"
    /\ \/ FinishIfRecorded(o) /\ Goto(o, "idle")
       \/ record[o] = "FAILED" /\ Goto(o, "refused") /\ UNCHANGED status
       \/ record[o] = "NONE" /\ Goto(o, "unknown") /\ UNCHANGED status
       \/ Goto(o, "idle") /\ UNCHANGED status
    /\ UNCHANGED <<vars, named, record>>
    /\ Write({})

(* A redelivery finds the row RUNNING: it finishes what is recorded, and    *)
(* ends what has outlived its window, its worker lost or only slow.         *)
Visit(o) ==
    /\ \/ FinishIfRecorded(o)
       \/ record[o] # "SUCCEEDED" /\ End(o, "STALE")
    /\ UNCHANGED <<vars, step, named, seen, record>>
    /\ Write({})

(* The worker is lost. *)
LoseWorker(o) ==
    /\ step[o] # "idle"
    /\ Goto(o, "idle")
    /\ UNCHANGED <<vars, status, named, record>>
    /\ Write({})

-----------------------------------------------------------------------------
(* Everybody else.  Clearing a cleared proposal writes the pointer again.   *)
Others ==
    /\ UNCHANGED <<status, step, named, seen, record>>
    /\ \/ Disclosure /\ Write(Changed)
       \/ FenceEnds /\ Write({})
       \/ \E a \in Actions \ Drafts : ProposeAction(a) /\ Write(Changed)
       \/ \E a \in Actions :
              \/ (Approve(a) \/ Reject(a) \/ ClaimSend(a) \/ AuthorizeSend(a) \/ RecordOutcome(a)
                    \/ ResolveUnknown(a) \/ ProjectActionOutcome(a) \/ PromiseStep(a))
                 /\ Write(Changed)
              \/ InvalidateAction(a) /\ Write(Changed \union {"pointer"})

OperationStep(o) ==
    \/ Start(o) \/ Claim(o) \/ Load(o) \/ Read(o) \/ Ask(o) \/ Apply(o) \/ Record(o)
    \/ Settle(o) \/ Succeed(o) \/ Recheck(o) \/ Resolve(o) \/ Visit(o) \/ LoseWorker(o)

OperationsNext ==
    \/ \E o \in Operations : OperationStep(o)
    \/ Others

OperationsSpec == OperationsInit /\ [][OperationsNext]_allVars

-----------------------------------------------------------------------------
(* Properties.                                                              *)

(* What an operation says is what happened to the case, whichever worker or *)
(* redelivery said it: SUCCEEDED is of an answer that was applied, and      *)
(* FAILED of one that never was nor will be -- but an abandoned one may yet *)
(* be applied by its slow worker, and an investigation whose commit is      *)
(* unknown may have been.  A proposal that was applied is bound to the view *)
(* its request named.  Code: both workers, load_verified_invocation_record. *)
OperationSaysWhatHappened ==
    /\ \A o \in Operations :
           /\ status[o] = "SUCCEEDED" => record[o] = "SUCCEEDED"
           /\ status[o] = "REFUSED" => record[o] # "SUCCEEDED"
    /\ \A o \in Drafts :
           /\ status[o] = "UNKNOWN" => record[o] # "SUCCEEDED"
           /\ record[o] = "SUCCEEDED" <=> execution[o] # "NONE"
           /\ record[o] = "SUCCEEDED" => proposal[o] = named[o]

(* A model's answer is applied only while nothing has changed of what it    *)
(* was asked about -- reports, facts, mandates, or the view -- however long *)
(* it took.  Code: the version conditions of both apply transactions.       *)
NothingStaleIsApplied ==
    [][\A o \in Operations :
          record[o] # "SUCCEEDED" /\ record'[o] = "SUCCEEDED" =>
              /\ seen[o] = inputs
              /\ o \in Drafts => (view = named[o] /\ view.inputs = inputs)]_allVars

(* Every apply is the one step of the case that CaseLifecycle takes for the *)
(* whole command, and nothing else an operation does is a step of the case. *)
ImplementsLifecycle == Spec

-----------------------------------------------------------------------------
(* What the properties rest on.                                             *)

Holding == {"load", "read", "ask", "apply"}

(* How far an operation is: only a RUNNING one has a worker at first, only  *)
(* a worker that applied says so, and a proposal is the one it named.       *)
RecordFact(o) ==
    /\ status[o] \in {"NONE", "PENDING"} => step[o] = "idle" /\ record[o] = "NONE"
    /\ status[o] \in {"REFUSED", "UNKNOWN"} => step[o] = "idle"
    /\ status[o] = "SUCCEEDED" => record[o] = "SUCCEEDED"
    /\ status[o] = "REFUSED" => record[o] # "SUCCEEDED"
    /\ step[o] \in Holding \union {"record"} => record[o] = "NONE"
    /\ step[o] = "refused" => record[o] # "SUCCEEDED"
    /\ step[o] \in {"succeed", "recheck"} => record[o] = "SUCCEEDED"
    /\ o \in Drafts =>
          /\ status[o] = "UNKNOWN" \/ step[o] = "unknown" => record[o] # "SUCCEEDED"
          /\ status[o] # "NONE" => named[o].id # 0
          /\ proposal[o] = IF record[o] = "SUCCEEDED" THEN named[o] ELSE NoView

(* What a worker found stands while the rows that it found it in have not   *)
(* moved: the case row answers for everything that is read beside it.       *)
HeldFact(o) ==
    /\ o \in Investigations /\ "case" \notin moved[o] /\ step[o] \in {"read", "ask", "apply"}
          => Investigable
    /\ "case" \notin moved[o] /\ step[o] \in {"ask", "apply"} => seen[o] = inputs
    /\ o \in Drafts =>
          /\ (status[o] = "PENDING" \/ step[o] \in Holding) /\ "view" \notin moved[o]
                => view = named[o]
          /\ step[o] \in {"read", "ask", "apply"} /\ moved[o] \subseteq {"pointer"}
                => (case.state = "READY_FOR_ACTION" /\ ViewStands)
          /\ step[o] \in {"ask", "apply"} /\ "pointer" \notin moved[o] => Replaceable

(* The inductive invariant. *)
OperationsInv == IInv /\ OperationTypes
                 /\ \A o \in Operations : RecordFact(o) /\ HeldFact(o)
=============================================================================
