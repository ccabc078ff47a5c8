----------------------------- MODULE DemoReset -----------------------------
(***************************************************************************)
(* One demo reset after another over a demo that is still in use.          *)
(* Code: composition/deployed_demo_reset.py, the lock, markers, receipts   *)
(* and purge of infrastructure/dynamodb/demo_reset_store.py, the interlock *)
(* of infrastructure/dynamodb/demo_mutation.py, the side-effect intents of *)
(* application/services/demo_side_effect.py.                               *)
(*                                                                         *)
(* A reset retires one world and seeds the next.  Worlds are numbered by   *)
(* the generation of the demo clock, which the reseed bumps.  What is      *)
(* purged is found without a scan: the roots the manifest names, the       *)
(* partitions a marker registers, and what the pointer chains of the cases *)
(* among them name.                                                        *)
(*                                                                         *)
(* Abstractions: a partition is one row, purged in one step; the manifest  *)
(* names its roots for good and is left out.  VIEW_CURRENT and the views   *)
(* it names behave as ACTION_CURRENT and the actions do, FENCE as CASE,    *)
(* COMM as the seed; objects and schedules are the external calls that     *)
(* make them.  AUDIT is the audit table's part of a case's partition.      *)
(***************************************************************************)
EXTENDS Naturals, FiniteSets

CONSTANTS
    Cases,       \* cases of the demo
    DemoCase,    \* the one predicted from the corpus, named by the manifest
    Actions,     \* identifiers of proposed actions, each used once
    Operations,  \* identifiers of Monitor operations, each used once
    Resets,      \* invocations of the reset function
    Keys,        \* idempotency keys
    KeyOf,       \* per invocation: the key it came with, or None
    None,
    MaxFaults    \* bound: errors inside a reset, and lost invocations

ASSUME ResetAssumption ==
    /\ DemoCase \in Cases
    /\ None \notin Resets \union Keys
    /\ KeyOf \in [Resets -> Keys \union {None}]
    /\ MaxFaults \in Nat

VARIABLES
    written,     \* per partition: the world its row was written in, 0 if none
    chain,       \* per case: the actions its ACTION_CURRENT partition names
    marked,      \* partitions registered by a marker
    execution,   \* per action: state of its execution row
    caseOf,      \* per action: the case it was proposed for
    proposed,    \* cases in ACTION_PROPOSED
    began,       \* per operation: the world it was started in, 0 if not started
    request,     \* per case: what is known outside of an external call for it
    world,       \* generation of the demo clock
    lock,        \* holder of DEMO_RESET_LOCK
    receipt,     \* per key: the world whose reset is recorded, 0 if none
    pc,          \* per invocation: its next step
    targets,     \* per invocation: the partitions it found
    faults       \* interruptions so far

demo  == <<written, chain, marked, execution, caseOf, proposed, began, request>>
vars  == <<demo, world, lock, receipt, pc, targets, faults>>

Seed          == <<"SEED", DemoCase>>
CaseWorld     == {"CASE", "AUDIT", "ACTION_CURRENT"} \X Cases
ActionWorld   == {"ACTION", "EXECUTION", "OUTBOUND"} \X Actions
OperationRows == {"OPERATION"} \X Operations
Partitions    == {Seed} \union CaseWorld \union ActionWorld \union OperationRows

(* RESET_IN_FLIGHT_STATES: SENDING and SEND_UNKNOWN are one state here, and *)
(* so are a draft and an approved execution.                                *)
Unsettled == "SENDING"

TypeOK ==
    /\ written \in [Partitions -> 0 .. world]
    /\ chain \in [Cases -> SUBSET Actions]
    /\ marked \subseteq Partitions
    /\ execution \in [Actions -> {"NONE", "OPEN", "SENDING", "SENT", "FAILED"}]
    /\ caseOf \in [Actions -> Cases]
    /\ proposed \subseteq Cases
    /\ began \in [Operations -> 0 .. world]
    /\ request \in [Cases -> {"NONE", "ASKED", "MADE"}]
    /\ world \in Nat \ {0}
    /\ lock \in Resets \union {None}
    /\ receipt \in [Keys -> 0 .. world]
    /\ pc \in [Resets -> {"idle", "acquire", "recheck", "resolve", "guard", "purge", "reseed",
                          "seed", "clear", "receipt", "release", "done", "failed", "lost"}]
    /\ targets \in [Resets -> SUBSET Partitions]
    /\ faults \in 0 .. MaxFaults

Init ==
    /\ written = [p \in Partitions |-> IF p = Seed THEN 1 ELSE 0]
    /\ chain = [c \in Cases |-> {}]
    /\ marked = {}
    /\ execution = [a \in Actions |-> "NONE"]
    /\ caseOf = [a \in Actions |-> DemoCase]
    /\ proposed = {}
    /\ began = [o \in Operations |-> 0]
    /\ request = [c \in Cases |-> "NONE"]
    /\ world = 1
    /\ lock = None
    /\ receipt = [k \in Keys |-> 0]
    /\ pc = [r \in Resets |-> "idle"]
    /\ targets = [r \in Resets |-> {}]
    /\ faults = 0

------------------------------------------------------------------------------
(* The demo in use.  Every normal write is conditional, in its own          *)
(* transaction, on the absence of the lock.                                 *)
Stands(p) == written[p] # 0

Unlocked == lock = None

InUse == UNCHANGED <<world, lock, receipt, pc, targets, faults>>

Write(ps) == written' = [p \in Partitions |-> IF p \in ps THEN world ELSE written[p]]

(* An operation is created together with the marker of its partition.       *)
StartOperation(o) ==
    /\ Unlocked
    /\ began[o] = 0
    /\ began' = [began EXCEPT ![o] = world]
    /\ Write({<<"OPERATION", o>>})
    /\ marked' = marked \union {<<"OPERATION", o>>}
    /\ UNCHANGED <<chain, execution, caseOf, proposed, request>> /\ InUse

(* Only the writer of a new case registers its roots, create-only like the  *)
(* case: a marker that is already there refuses the transaction.            *)
Registration(c) == {"CASE", "AUDIT", "ACTION_CURRENT"} \X {c}

(* The Monitor's worker commits a step: progress and proof in the           *)
(* operation's partition and, with the first, a new case.  It asks nothing   *)
(* of the operation's own row, so a worker that outlives its world goes on.  *)
ApplyMonitorStep(o, c) ==
    /\ Unlocked
    /\ began[o] # 0
    /\ ~Stands(<<"CASE", c>>) /\ Registration(c) \intersect marked = {}
    /\ Write({<<"OPERATION", o>>, <<"CASE", c>>, <<"AUDIT", c>>})
    /\ marked' = marked \union Registration(c)
    /\ UNCHANGED <<chain, execution, caseOf, proposed, began, request>> /\ InUse

(* An action is proposed: action, execution, pointer and locator together.  *)
ProposeAction(a, c) ==
    /\ Unlocked
    /\ execution[a] = "NONE" /\ Stands(<<"CASE", c>>)
    /\ Write({<<"ACTION", a>>, <<"EXECUTION", a>>, <<"ACTION_CURRENT", c>>, <<"AUDIT", c>>})
    /\ chain' = [chain EXCEPT ![c] = @ \union {a}]
    /\ caseOf' = [caseOf EXCEPT ![a] = c]
    /\ proposed' = proposed \union {c}
    /\ execution' = [execution EXCEPT ![a] = "OPEN"]
    /\ UNCHANGED <<marked, began, request>> /\ InUse

(* The claim asks for the execution row only: its sender read the action    *)
(* before.  Like every step of a send it leaves an audit event by its case, *)
(* and asks nothing of the case.                                            *)
BeginSend(a) ==
    /\ Unlocked
    /\ execution[a] = "OPEN" /\ Stands(<<"EXECUTION", a>>)
    /\ execution' = [execution EXCEPT ![a] = "SENDING"]
    /\ Write({<<"EXECUTION", a>>, <<"AUDIT", caseOf[a]>>})
    /\ UNCHANGED <<chain, marked, caseOf, proposed, began, request>> /\ InUse

(* The outcome is a normal write too: while a reset holds the lock it is    *)
(* refused, and the row says SENDING until the outcome is settled.  The     *)
(* grant behind a SENT asked for the current pointer.                       *)
RecordSend(a) ==
    /\ Unlocked
    /\ execution[a] = "SENDING" /\ Stands(<<"EXECUTION", a>>)
    /\ \/ a \in chain[caseOf[a]] /\ execution' = [execution EXCEPT ![a] = "SENT"]
       \/ execution' = [execution EXCEPT ![a] = "FAILED"]
    /\ Write({<<"EXECUTION", a>>, <<"AUDIT", caseOf[a]>>})
    /\ UNCHANGED <<chain, marked, caseOf, proposed, began, request>> /\ InUse

(* The projection moves the case and writes the locator a reply is matched  *)
(* by, in a partition of its own.                                           *)
ProjectActionOutcome(a) ==
    /\ Unlocked
    /\ execution[a] = "SENT" /\ Stands(<<"EXECUTION", a>>) /\ ~Stands(<<"OUTBOUND", a>>)
    /\ Stands(<<"CASE", caseOf[a]>>) /\ caseOf[a] \in proposed
    /\ proposed' = proposed \ {caseOf[a]}
    /\ Write({<<"OUTBOUND", a>>, <<"CASE", caseOf[a]>>, <<"AUDIT", caseOf[a]>>, <<"EXECUTION", a>>})
    /\ UNCHANGED <<chain, marked, execution, caseOf, began, request>> /\ InUse

(* A side effect is admitted by an intent in a partition of its case, which *)
(* stands in progress for as long as the request may still do something.    *)
BeginSideEffect(c) ==
    /\ Unlocked
    /\ Stands(<<"CASE", c>>) /\ request[c] = "NONE"
    /\ request' = [request EXCEPT ![c] = "ASKED"]
    /\ UNCHANGED <<written, chain, marked, execution, caseOf, proposed, began>> /\ InUse

(* The request takes effect outside, whoever holds the lock by then.        *)
SideEffectHappens(c) ==
    /\ request[c] = "ASKED"
    /\ request' = [request EXCEPT ![c] = "MADE"]
    /\ UNCHANGED <<written, chain, marked, execution, caseOf, proposed, began>> /\ InUse

(* A definite answer completes the intent; without one it is retained.      *)
CompleteSideEffect(c) ==
    /\ Unlocked
    /\ request[c] = "MADE" /\ Stands(<<"CASE", c>>)
    /\ request' = [request EXCEPT ![c] = "NONE"]
    /\ UNCHANGED <<written, chain, marked, execution, caseOf, proposed, began>> /\ InUse

------------------------------------------------------------------------------
(* The reset.                                                               *)
Go(r, step) == pc' = [pc EXCEPT ![r] = step]

Replays(r) == KeyOf[r] # None /\ receipt[KeyOf[r]] # 0

(* The optimistic look at the receipt.                                      *)
ReadReceipt(r) ==
    /\ pc[r] = "idle"
    /\ Go(r, IF Replays(r) THEN "done" ELSE "acquire")
    /\ UNCHANGED <<demo, world, lock, receipt, targets, faults>>

(* The lock outlives its holder: the lock's 300 seconds are more than the   *)
(* 120 the function may run, so it expires only once the holder is gone.    *)
Expired == lock # None /\ pc[lock] = "lost"

Acquirable == lock = None \/ Expired

Acquire(r) ==
    /\ pc[r] = "acquire"
    /\ Acquirable
    /\ lock' = r
    /\ Go(r, "recheck")
    /\ UNCHANGED <<demo, world, receipt, targets, faults>>

(* Without a key at once, with one after two minutes.                       *)
Contended(r) ==
    /\ pc[r] = "acquire" /\ lock # None
    /\ Go(r, "failed")
    /\ UNCHANGED <<demo, world, lock, receipt, targets, faults>>

(* Broken variant: the receipt is not read again under the lock.            *)
Recheck_Skipped(r) ==
    /\ pc[r] = "recheck"
    /\ Go(r, "resolve") /\ UNCHANGED lock
    /\ UNCHANGED <<demo, world, receipt, targets, faults>>

(* Whoever waited for an identical request answers what that one recorded.  *)
Recheck(r) ==
    /\ pc[r] = "recheck"
    /\ IF Replays(r) THEN Go(r, "done") /\ lock' = None
                     ELSE Go(r, "resolve") /\ UNCHANGED lock
    /\ UNCHANGED <<demo, world, receipt, targets, faults>>

Roots == {Seed} \union Registration(DemoCase) \union marked

(* The pointer chain of a case: its actions, their executions, and for each *)
(* execution that is there and SENT the outbound locator.                   *)
Reconciled(c) ==
    {"ACTION", "EXECUTION"} \X chain[c]
        \union {<<"OUTBOUND", a>> : a \in {b \in chain[c] : /\ Stands(<<"EXECUTION", b>>)
                                                            /\ execution[b] = "SENT"}}

Inventory == Roots \union UNION {Reconciled(c) : c \in {d \in Cases : <<"CASE", d>> \in Roots}}

ResolveTargets(r) ==
    /\ pc[r] = "resolve"
    /\ targets' = [targets EXCEPT ![r] = Inventory]
    /\ Go(r, "guard")
    /\ UNCHANGED <<demo, world, lock, receipt, faults>>

(* Broken variant: only executions are looked at.                           *)
InFlight_SendsOnly(found) ==
    \E a \in Actions : <<"EXECUTION", a>> \in found /\ execution[a] = Unsettled

(* An intent in progress, or a send under way or of unknown outcome.        *)
InFlight(found) ==
    \/ \E c \in Cases : <<"CASE", c>> \in found /\ request[c] # "NONE"
    \/ \E a \in Actions : <<"EXECUTION", a>> \in found /\ Stands(<<"EXECUTION", a>>)
                             /\ execution[a] = Unsettled

(* Refused before anything is deleted; the lock is given back.              *)
Guard(r) ==
    /\ pc[r] = "guard"
    /\ IF InFlight(targets[r]) THEN Go(r, "failed") /\ lock' = None
                               ELSE Go(r, "purge") /\ UNCHANGED lock
    /\ UNCHANGED <<demo, world, receipt, targets, faults>>

(* The targets are purged in the order of their keys.                       *)
Order(p) ==
    CASE p[1] = "SEED" -> 1 [] p[1] = "ACTION" -> 2 [] p[1] = "ACTION_CURRENT" -> 3
      [] p[1] = "CASE" -> 4 [] p[1] = "AUDIT" -> 5 [] p[1] = "EXECUTION" -> 6
      [] p[1] = "OPERATION" -> 7 [] p[1] = "OUTBOUND" -> 8

(* Broken variant: the markers go with the partition they are in, the first. *)
Registered_Purged(p) == IF p = Seed THEN {} ELSE marked

(* The markers are kept: they are what a later reset finds the rest by.     *)
Registered(p) == marked

PurgePartition(r, p) ==
    /\ pc[r] = "purge"
    /\ p \in targets[r] /\ Stands(p)
    /\ \A q \in targets[r] : Stands(q) => Order(p) <= Order(q)
    /\ written' = [written EXCEPT ![p] = 0]
    /\ chain' = IF p[1] = "ACTION_CURRENT" THEN [chain EXCEPT ![p[2]] = {}] ELSE chain
    /\ proposed' = IF p[1] = "CASE" THEN proposed \ {p[2]} ELSE proposed
    /\ marked' = Registered(p)
    /\ UNCHANGED <<execution, caseOf, began, request, world, lock, receipt, pc, targets, faults>>

(* Verified: no target still holds a row.                                   *)
VerifyPurged(r) ==
    /\ pc[r] = "purge"
    /\ \A p \in targets[r] : ~Stands(p)
    /\ Go(r, "reseed")
    /\ UNCHANGED <<demo, world, lock, receipt, targets, faults>>

(* Broken variant: the clock row is recreated, its generations start over.  *)
Reseed_Recreated(r) ==
    /\ pc[r] = "reseed"
    /\ world' = 0
    /\ Go(r, "seed")
    /\ UNCHANGED <<demo, lock, receipt, targets, faults>>

(* A generation never used before, then the seed and the new manifest.      *)
Reseed(r) ==
    /\ pc[r] = "reseed"
    /\ world' = world + 1
    /\ Go(r, "seed")
    /\ UNCHANGED <<demo, lock, receipt, targets, faults>>

SeedDemo(r) ==
    /\ pc[r] = "seed"
    /\ Write({Seed})
    /\ Go(r, "clear")
    /\ UNCHANGED <<chain, marked, execution, caseOf, proposed, began, request, world, lock, receipt,
                   targets, faults>>

(* The markers of what is gone go last.                                     *)
ClearRegistrations(r) ==
    /\ pc[r] = "clear"
    /\ marked' = {}
    /\ Go(r, "receipt")
    /\ UNCHANGED <<written, chain, execution, caseOf, proposed, began, request, world, lock, receipt,
                   targets, faults>>

(* Create-only, and only for a request with a key.                          *)
PutReceipt(r) ==
    receipt' = IF KeyOf[r] = None \/ Replays(r) THEN receipt
                                                ELSE [receipt EXCEPT ![KeyOf[r]] = world]

RecordReceipt(r) ==
    /\ pc[r] = "receipt"
    /\ PutReceipt(r)
    /\ Go(r, "release")
    /\ UNCHANGED <<demo, world, lock, targets, faults>>

(* The put took effect and raised: nobody is answered, the receipt stands.  *)
ReceiptUnanswered(r) ==
    /\ pc[r] = "receipt" /\ KeyOf[r] # None /\ faults < MaxFaults
    /\ PutReceipt(r)
    /\ faults' = faults + 1
    /\ Go(r, "failed") /\ lock' = None
    /\ UNCHANGED <<demo, world, targets>>

(* Only by its owner.                                                       *)
Release(r) ==
    /\ pc[r] = "release" /\ lock = r
    /\ lock' = None
    /\ Go(r, "done")
    /\ UNCHANGED <<demo, world, receipt, targets, faults>>

Destructive == {"purge", "reseed", "seed", "clear", "receipt"}
Running     == Destructive \union {"recheck", "resolve", "guard"}

(* A stage that fails is not answered, and its lock is given back.          *)
StageFails(r) ==
    /\ pc[r] \in Running /\ faults < MaxFaults
    /\ faults' = faults + 1
    /\ Go(r, "failed") /\ lock' = None
    /\ UNCHANGED <<demo, world, receipt, targets>>

(* The invocation is lost, and leaves its lock standing.                    *)
LoseInvocation(r) ==
    /\ pc[r] \in Running \union {"release"} /\ faults < MaxFaults
    /\ faults' = faults + 1
    /\ Go(r, "lost")
    /\ UNCHANGED <<demo, world, lock, receipt, targets>>

------------------------------------------------------------------------------
Use ==
    \/ \E o \in Operations : StartOperation(o) \/ \E c \in Cases : ApplyMonitorStep(o, c)
    \/ \E a \in Actions : \/ BeginSend(a) \/ RecordSend(a) \/ ProjectActionOutcome(a)
                          \/ \E c \in Cases : ProposeAction(a, c)
    \/ \E c \in Cases : BeginSideEffect(c) \/ SideEffectHappens(c) \/ CompleteSideEffect(c)

Reset(r) ==
    \/ ReadReceipt(r) \/ Acquire(r) \/ Contended(r) \/ Recheck(r)
    \/ ResolveTargets(r) \/ Guard(r) \/ \E p \in Partitions : PurgePartition(r, p)
    \/ VerifyPurged(r) \/ Reseed(r) \/ SeedDemo(r) \/ ClearRegistrations(r)
    \/ RecordReceipt(r) \/ ReceiptUnanswered(r) \/ Release(r) \/ StageFails(r) \/ LoseInvocation(r)

Next == Use \/ \E r \in Resets : Reset(r)

Spec == Init /\ [][Next]_vars

------------------------------------------------------------------------------
(* What an interrupted purge takes from an action whose send rows it        *)
(* leaves: the action, and the pointer that names it.  Its sender may still *)
(* write by the case for as long as the execution row stands.               *)
Unnamed(a) == ~Stands(<<"ACTION", a>>) /\ a \notin chain[caseOf[a]]

SenderLeft(c) == \E a \in Actions : caseOf[a] = c /\ Unnamed(a) /\ Stands(<<"EXECUTION", a>>)

(* What a world may leave behind, to the row.  A row of a retired world is  *)
(* - a send row of an action that an interrupted purge left unnamed, or what *)
(*   the sender of such an action wrote by its case since;                  *)
(* - or progress that a worker of a retired operation wrote.                *)
(* Everything else is found and purged, whoever writes, fails or is lost    *)
(* meanwhile, and a world whose resets were not interrupted leaves nothing  *)
(* but the second (the interlock, the markers, _all_target_partitions).     *)
(* That the first is left at all is InventoryIsComplete, below.             *)
OldWorldIsGone ==
    \A p \in Partitions :
        Stands(p) /\ written[p] < world
            => \/ /\ faults > 0
                  /\ \/ p[1] \in {"EXECUTION", "OUTBOUND"} /\ Unnamed(p[2])
                     \/ p[1] = "AUDIT" /\ SenderLeft(p[2])
               \/ p[1] = "OPERATION" /\ began[p[2]] < written[p]

(* A send whose outcome is open keeps its record, and a request that may    *)
(* still take effect keeps its case: a reset that would forget either is    *)
(* refused, at whatever moment it came (_guard_no_side_effects,             *)
(* _guard_no_in_flight_send, the interlock on the claim).                   *)
InFlightKeepsItsRecord ==
    /\ \A a \in Actions : execution[a] = Unsettled => Stands(<<"EXECUTION", a>>)
    /\ \A c \in Cases : request[c] = "ASKED" => Stands(<<"CASE", c>>)

(* One request, one destruction: nothing is destroyed for a key whose       *)
(* receipt is recorded, nor by anybody who does not hold the lock           *)
(* (deployed_demo_reset.py, reset; DynamoDbDemoResetLock).                   *)
DestroyedOnce ==
    \A r \in Resets : pc[r] \in Destructive => lock = r /\ ~Replays(r)

------------------------------------------------------------------------------
(* A statement of the repository that the code does not keep.               *)

(* ports/demo_reset.py: "a durable resource can never exist outside the     *)
(* reset inventory", and an interrupted reset "is left recoverable": while  *)
(* none is under way, the next would find every row there is.               *)
InventoryIsComplete == lock = None => \A p \in Partitions : Stands(p) => p \in Inventory
=============================================================================
