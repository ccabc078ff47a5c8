----------------------------- MODULE MonitorRun -----------------------------
(***************************************************************************)
(* Monitor operations over one community: the worker that claims, resumes  *)
(* and settles an operation (MonitorOperationWorker), the run it makes     *)
(* (RunMonitor), and the arithmetic that turns one model answer into       *)
(* bounded transactions (monitor_apply).                                   *)
(*                                                                         *)
(* The model is asked, its answer is planned against the cases as they     *)
(* stand, the plan is frozen, and the plan is then applied one transaction *)
(* at a time; the last transaction records the invocation.  An attempt     *)
(* that stops between two of them is resumed from the frozen plan.  Several*)
(* operations, and writers that are not the Monitor, work on the same cases*)
(* at once, and a redelivered job visits an operation another worker runs. *)
(***************************************************************************)
EXTENDS Naturals, FiniteSets

CONSTANTS
    Ops,           \* Monitor operations
    Cases,         \* case identities, numbered in the order of their ids; 0 is no case
    Messages,      \* community messages
    Reports,       \* report identities
    Cites,         \* per report: the messages it cites
    Issue,         \* per report: its issue type; "OTHER" names no subject
    CandidateOf,   \* per set of reports: the case identity derived for a new candidate
    Answers,       \* what the model may answer: sets of groups
    MinReports,    \* MIN_REPORTS_FOR_NEW_CANDIDATE
    ItemBudget,    \* MONITOR_APPLY_ITEM_BUDGET
    MaxFacts,      \* MAX_ACTIVE_FACTS_PER_CASE
    SeedCase,      \* a case an earlier operation detected
    SeedReports,   \* the reports it holds
    Faults,        \* the failures that may happen in this instance
    MaxMoves,      \* bound: writes of one case by others
    MaxEvents      \* bound: operations at work, failures beside a write's, cases others write

FaultKinds == {"crash",  \* a worker is lost
               "slow",   \* the logical clock passes the execution window under a live worker or visitor
               "duplicate",  \* a job is delivered again while a worker is at it
               "write",      \* a write is refused by storage, or only its answer is lost
               "read",       \* a read fails
               "agent"}      \* the model fails

ASSUME CaseAssumption == Cases \subseteq Nat \ {0} /\ SeedCase \in Cases
ASSUME NumberAssumption ==
    /\ Messages \subseteq Nat /\ Reports \subseteq Nat
    /\ MinReports \in Nat /\ MaxFacts \in Nat /\ ItemBudget \in Nat \ {0}
    /\ MaxMoves \in Nat /\ MaxEvents \in Nat
ASSUME FiniteAssumption == IsFiniteSet(Ops) /\ IsFiniteSet(Messages) /\ IsFiniteSet(Reports)
ASSUME ReportAssumption ==
    /\ Cites \in [Reports -> SUBSET Messages]
    /\ DOMAIN Issue = Reports
    /\ SeedReports \subseteq Reports
ASSUME FaultsAssumption == Faults \subseteq FaultKinds

VARIABLES
    cases,     \* per case: the row, its reports and its facts
    signals,   \* per message: the feed signal that shows which case it belongs to
    audited,   \* the candidate events appended: pairs of an operation and a case
    op,        \* per operation: status, row version, and whether its claim is over-age
    input,     \* per operation: the frozen input, reduced to the case versions it shows
    plan,      \* per operation: the frozen plan, an answer and the steps it implies
    progress,  \* per operation: steps committed
    record,    \* per operation: the durable invocation record
    asked,     \* per operation: calls made to the model
    pc,        \* per operation: next step of the worker that claimed it
    held,      \* per operation: row version that worker holds
    answer,    \* per operation: the validated answer in its memory
    seen,      \* per operation: the cases it has loaded
    todo,      \* per operation: the steps it still owes
    visit,     \* per operation: row version a redelivery saw RUNNING without a record, or 0
    faults,    \* the failures so far, each of a kind of its own
    moves      \* per case: writes by others so far

store  == <<cases, signals, audited, progress, record>>
worker == <<answer, seen, todo>>
vars   == <<store, op, input, plan, asked, pc, held, worker, visit, faults, moves>>

NoAnswer == {}
NoInput  == [c \in Cases |-> 0]
NoPlan   == [answer |-> {}, steps |-> {}, frozen |-> FALSE]
NoCase   == [version |-> 0, state |-> "NONE", reports |-> {}, facts |-> {}]
NothingSeen == [c \in Cases |-> NoCase]
NoSignal == [case |-> 0, state |-> "NONE", related |-> 0, version |-> 0]

(* Case states: CANDIDATE, any other state that still accepts reports       *)
(* (OPEN), and RESOLVED or CLOSED_UNRESOLVED (CLOSED).                       *)
CaseStates == {"CANDIDATE", "OPEN", "CLOSED"}
Linkable   == {"CANDIDATE", "OPEN"}
Terminal   == {"SUCCEEDED", "FAILED"}

(* Facts are pairs of a slot and a value. *)
Rows    == [version : Nat, state : CaseStates \union {"NONE"},
            reports : SUBSET Reports, facts : SUBSET (Nat \X Nat)]
Signals == [case : Cases \union {0}, state : CaseStates \union {"NONE"},
            related : Nat, version : Nat]

TypeOK ==
    /\ cases \in [Cases -> Rows]
    /\ \A c \in Cases : IF cases[c].version = 0 THEN cases[c] = NoCase
                                                ELSE cases[c].state \in CaseStates
    /\ signals \in [Messages -> Signals]
    /\ audited \subseteq Ops \X Cases
    /\ op \in [Ops -> [status : {"PENDING", "RUNNING"} \union Terminal,
                       version : Nat, aged : BOOLEAN]]
    /\ input \in [Ops -> [Cases -> Nat]]
    /\ DOMAIN plan = Ops
    /\ \A o \in Ops : plan[o].answer \in Answers \union {NoAnswer} /\ plan[o].frozen \in BOOLEAN
    /\ progress \in [Ops -> Nat]
    /\ record \in [Ops -> {"NONE", "SUCCEEDED", "FAILED"}]
    /\ asked \in [Ops -> 0..2]
    /\ pc \in [Ops -> {"idle", "begin", "context", "invoke", "load", "derive", "freeze", "prove",
                       "commit", "refuse", "succeed", "recheck", "settle", "release"}]
    /\ held \in [Ops -> Nat]
    /\ answer \in [Ops -> Answers \union {NoAnswer}]
    /\ DOMAIN seen = Ops /\ DOMAIN todo = Ops
    /\ visit \in [Ops -> Nat]
    /\ faults \subseteq FaultKinds
    /\ moves \in [Cases -> 0..MaxMoves]

(* An earlier operation linked the seed case's reports in one step.         *)
SeedMessages == UNION {Cites[r] : r \in SeedReports}

Init ==
    /\ cases = [c \in Cases |->
                  IF c = SeedCase
                  THEN [version |-> 1, state |-> "CANDIDATE", reports |-> SeedReports, facts |-> {}]
                  ELSE NoCase]
    /\ signals = [m \in Messages |->
                    IF m \in SeedMessages
                    THEN [case |-> SeedCase, state |-> "CANDIDATE",
                          related |-> Cardinality(SeedMessages), version |-> 1]
                    ELSE NoSignal]
    /\ audited = {}
    /\ op = [o \in Ops |-> [status |-> "PENDING", version |-> 1, aged |-> FALSE]]
    /\ input = [o \in Ops |-> NoInput]
    /\ plan = [o \in Ops |-> NoPlan]
    /\ progress = [o \in Ops |-> 0]
    /\ record = [o \in Ops |-> "NONE"]
    /\ asked = [o \in Ops |-> 0]
    /\ pc = [o \in Ops |-> "idle"]
    /\ held = [o \in Ops |-> 0]
    /\ answer = [o \in Ops |-> NoAnswer]
    /\ seen = [o \in Ops |-> NothingSeen]
    /\ todo = [o \in Ops |-> {}]
    /\ visit = [o \in Ops |-> 0]
    /\ faults = {}
    /\ moves = [c \in Cases |-> 0]

Goto(o, step) == pc' = [pc EXCEPT ![o] = step]

Room ==
    Cardinality({o \in Ops : op[o].version > 1}) + Cardinality(faults \ {"write"})
        + Cardinality({c \in Cases : moves[c] > 0}) < MaxEvents

Fails(kind) ==
    /\ kind \in Faults \ faults
    /\ kind = "write" \/ Room
    /\ faults' = faults \union {kind}

-----------------------------------------------------------------------------
(* Identity.  A group is the case it extends (0 for a new candidate), its   *)
(* reports, and its facts.                                                  *)

Groups == [target : Cases \union {0}, reports : SUBSET Reports, facts : SUBSET (Nat \X Nat)]

MessagesOf(g) == UNION {Cites[r] : r \in g.reports}

IssuesOf(reports) == {Issue[r] : r \in reports}

(* Reports that make a case of their own. *)
Detectable(reports) ==
    Cardinality(reports) >= MinReports /\ "OTHER" \notin IssuesOf(reports)

CaseOf(g) ==
    IF g.target # 0 THEN g.target
    ELSE IF Detectable(g.reports) THEN CandidateOf[g.reports]
    ELSE 0

(* A new candidate below the threshold stays provisional: nothing is written. *)
Addressed(a) == {g \in a : CaseOf(g) # 0}

(* Links are grouped by the case they name.  A candidate is its set of      *)
(* reports: the identities derived for two sets are different.              *)
ASSUME AnswerAssumption ==
    \A a \in Answers :
        /\ IsFiniteSet(a) /\ a \subseteq Groups
        /\ \A g \in a : IsFiniteSet(g.facts)
        /\ \A g, h \in a : g.target = h.target /\ g.target # 0 => g = h

Proposed == {g.reports : g \in UNION Answers} \union {SeedReports}

ASSUME CandidateAssumption ==
    /\ CandidateOf \in [SUBSET Reports -> Cases]
    /\ \A r, t \in Proposed :
          Detectable(r) /\ Detectable(t) /\ CandidateOf[r] = CandidateOf[t] => r = t
    /\ Detectable(SeedReports) /\ Cardinality(IssuesOf(SeedReports)) = 1
    /\ CandidateOf[SeedReports] = SeedCase

(* Whole-output validation: links only to cases that were shown, groups of  *)
(* one issue type, merges only under one that names a subject, no report in *)
(* two groups and no message cited by two reports.                          *)
Acceptable(shown, a) ==
    /\ \A g \in a :
          /\ Cardinality(IssuesOf(g.reports)) = 1
          /\ "OTHER" \in IssuesOf(g.reports) => g.target = 0 /\ Cardinality(g.reports) = 1
          /\ g.target # 0 => /\ shown[g.target] > 0
                             /\ IssuesOf(g.reports) = IssuesOf(cases[g.target].reports)
    /\ \A g, h \in a : g # h => g.reports \intersect h.reports = {}
    /\ \A r, t \in UNION {g.reports : g \in a} : r # t => Cites[r] \intersect Cites[t] = {}

(* The cases the window's messages point at that still accept reports, each *)
(* with the version it is shown at.                                         *)
CandidateSummaries ==
    [c \in Cases |->
        IF (\E m \in Messages : signals[m].case = c) /\ cases[c].state \in Linkable
        THEN cases[c].version ELSE 0]

-----------------------------------------------------------------------------
(* The frozen plan.  A step names a case, whether it is for a new candidate,*)
(* the version the case must be at, and the items it writes; items are <<kind, id, detail>>: reports (kind 1),   *)
(* signals (2, with the version replaced), facts (3, with the value), which *)
(* is also their order.  Steps run case by case; a group that extends a case*)
(* comes before one whose new candidate turns out to be that same case; and *)
(* the steps of one group by version.                                       *)

SameGroup(s, t) == s.case = t.case /\ s.new = t.new

Earlier(s, t) ==
    \/ s.case < t.case
    \/ s.case = t.case /\ ~s.new /\ t.new
    \/ SameGroup(s, t) /\ s.expected < t.expected

Position(steps, s) == 1 + Cardinality({t \in steps : Earlier(t, s)})
Prefix(steps, n)   == {s \in steps : Position(steps, s) <= n}
First(steps)       == CHOOSE s \in steps : Position(steps, s) = 1

Describe(s) ==
    [case |-> s.case, new |-> s.new, expected |-> s.expected, first |-> s.first,
     items |-> {<<i[1], i[2], IF i[1] = 2 THEN i[3] ELSE 0>> : i \in s.items}]

(* What must be reproduced, in the same order; whether it is the case's     *)
(* first step is no part of it.                                             *)
Content(s) == <<s.case, s.new, s.expected, Describe(s).items>>

DataSteps(o) == Cardinality(plan[o].steps)
Remaining(o) == plan[o].steps \ Prefix(plan[o].steps, progress[o])

(* Broken variant: the versions of the frozen input are kept on a resume. *)
OwnSteps_Unbound(o, c) == 0

(* How far this operation's own steps have moved a case since it was shown. *)
OwnSteps(o, c) == Cardinality({s \in Prefix(plan[o].steps, progress[o]) : s.case = c})

-----------------------------------------------------------------------------
(* The gates and the plan, from the cases loaded and the signals read now.  *)

Ineligible(o, g, row) ==
    IF g.target = 0
    THEN row.version > 0 /\ row.state \notin Linkable
    ELSE \/ row.version = 0
         \/ row.state \notin Linkable
         \/ "OTHER" \in IssuesOf(row.reports)
         \/ row.version # input[o][g.target] + OwnSteps(o, g.target)

AlreadyLinked(g) == \E m \in MessagesOf(g) : signals[m].case \notin {0, CaseOf(g)}

AmbiguousOrDrifted(g, row) ==
    \E f \in g.facts, h \in g.facts \union row.facts : f[1] = h[1] /\ f[2] # h[2]

NewFacts(g, row) == {f \in g.facts : \A h \in row.facts : f[1] # h[1]}

(* Broken variant: what the answer proposes is counted, not what results. *)
OverCapacity_Proposed(g, row) == Cardinality(NewFacts(g, row)) > MaxFacts

OverCapacity(g, row) == Cardinality(row.facts \union NewFacts(g, row)) > MaxFacts

Denied(o) ==
    \E g \in Addressed(answer[o]) :
        LET row == seen[o][CaseOf(g)]
        IN \/ Ineligible(o, g, row)
           \/ AmbiguousOrDrifted(g, row)
           \/ AlreadyLinked(g)
           \/ OverCapacity(g, row)

(* Broken variant: a new case is given no state. *)
StateOf_Unset(row) == row.state

StateOf(row) == IF row.version = 0 THEN "CANDIDATE" ELSE row.state

(* Broken variant: a message whose report is already linked is skipped. *)
Undisplayed_NewReports(g, row) ==
    {m \in UNION {Cites[r] : r \in g.reports \ row.reports} :
        \/ signals[m].case = 0
        \/ signals[m].state # StateOf(row)
        \/ signals[m].related # Cardinality(MessagesOf(g))}

(* A message needs a signal write unless its signal already shows exactly this. *)
Undisplayed(g, row) ==
    {m \in MessagesOf(g) : \/ signals[m].case = 0
                           \/ signals[m].state # StateOf(row)
                           \/ signals[m].related # Cardinality(MessagesOf(g))}

Items(g, row) ==
    {<<1, r, 0>> : r \in g.reports \ row.reports}
    \union {<<2, m, signals[m].version>> : m \in Undisplayed(g, row)}
    \union {<<3, f[1], f[2]>> : f \in NewFacts(g, row)}

Rank(items, i) ==
    Cardinality({j \in items : j[1] < i[1] \/ (j[1] = i[1] /\ j[2] < i[2])})

StepCount(items) == (Cardinality(items) + ItemBudget - 1) \div ItemBudget

Window(items, k) == {i \in items : Rank(items, i) \div ItemBudget = k}

(* The case row as it stands once step k commits: a prefix of the whole. *)
CaseAtStep(row, items, k) ==
    LET covered == {i \in items : Rank(items, i) \div ItemBudget <= k}
    IN [version |-> row.version + k + 1,
        state   |-> StateOf(row),
        reports |-> row.reports \union {i[2] : i \in {j \in covered : j[1] = 1}},
        facts   |-> row.facts \union {<<i[2], i[3]>> : i \in {j \in covered : j[1] = 3}}]

CutSteps(g, row) ==
    LET items == Items(g, row)
    IN {[case     |-> CaseOf(g),
         new      |-> g.target = 0,
         expected |-> row.version + k,
         first    |-> k = 0,
         items    |-> Window(items, k),
         row      |-> CaseAtStep(row, items, k),
         related  |-> Cardinality(MessagesOf(g))] : k \in 0 .. (StepCount(items) - 1)}

Planned(o) == UNION {CutSteps(g, seen[o][CaseOf(g)]) : g \in Addressed(answer[o])}

-----------------------------------------------------------------------------
(* The worker claims the operation and finds what earlier attempts left.    *)

Transition(o, status) ==
    op' = [op EXCEPT ![o] = [status |-> status, version |-> @.version + 1, aged |-> FALSE]]

Claim(o) ==
    /\ op[o].status = "PENDING"
    /\ pc[o] = "idle"
    /\ op[o].version > 1 \/ Room
    /\ Transition(o, "RUNNING")
    /\ \/ /\ Goto(o, "begin")
          /\ held' = [held EXCEPT ![o] = op[o].version + 1]
          /\ UNCHANGED faults
       \/ Fails("write") /\ UNCHANGED <<pc, held>>
    /\ UNCHANGED <<store, input, plan, asked, worker, visit, moves>>

Begin(o) ==
    /\ pc[o] = "begin"
    /\ Goto(o, CASE record[o] = "FAILED"    -> "settle"
                 [] record[o] = "SUCCEEDED" -> "succeed"
                 [] record[o] = "NONE" /\ plan[o].frozen       -> "load"
                 [] record[o] = "NONE" /\ ~plan[o].frozen      ->
                        IF input[o] = NoInput THEN "context" ELSE "invoke")
    /\ answer' = [answer EXCEPT ![o] = plan[o].answer]
    /\ UNCHANGED <<store, op, input, plan, asked, held, seen, todo, visit, faults, moves>>

(* The input is assembled and frozen; a batch nobody can be named for is a  *)
(* successful run that changed nothing, and one that cannot be rendered a   *)
(* failure.                                                                 *)
FreezeInput(o) ==
    /\ pc[o] = "context"
    /\ \/ /\ input' = [input EXCEPT ![o] = CandidateSummaries]
          /\ Goto(o, "invoke")
          /\ UNCHANGED faults
       \/ /\ Goto(o, "succeed")
          /\ UNCHANGED <<input, faults>>
       \/ /\ Fails("write")
          /\ input' \in {input, [input EXCEPT ![o] = CandidateSummaries]}
          /\ Goto(o, "settle")
    /\ UNCHANGED <<store, op, plan, asked, held, worker, visit, moves>>

(* The model is asked; a failure that may be retried is retried once. *)
Invoke(o) ==
    /\ pc[o] = "invoke"
    /\ asked' = [asked EXCEPT ![o] = @ + 1]
    /\ \/ /\ \E a \in Answers :
                /\ answer' = [answer EXCEPT ![o] = a]
                /\ Goto(o, IF Acceptable(input[o], a) THEN "load" ELSE "refuse")
          /\ UNCHANGED faults
       \/ /\ Fails("agent")
          /\ \/ Goto(o, "refuse")
             \/ asked[o] = 0 /\ UNCHANGED pc
          /\ UNCHANGED answer
    /\ UNCHANGED <<store, op, input, plan, held, seen, todo, visit, moves>>

(* The cases the groups name are read, and then the signals. *)
LoadCases(o) ==
    /\ pc[o] = "load"
    /\ seen' = [seen EXCEPT ![o] = cases]
    /\ Goto(o, "derive")
    /\ UNCHANGED <<store, op, input, plan, asked, held, answer, todo, visit, faults, moves>>

Derive(o) ==
    /\ pc[o] = "derive"
    /\ \/ /\ ~Denied(o)
          /\ todo' = [todo EXCEPT ![o] = Planned(o)]
          /\ Goto(o, IF plan[o].frozen THEN "prove" ELSE "freeze")
       \/ /\ Denied(o)
          /\ Goto(o, IF plan[o].frozen THEN "settle" ELSE "refuse")
          /\ UNCHANGED todo
    /\ UNCHANGED <<store, op, input, plan, asked, held, answer, seen, visit, faults, moves>>

FreezePlan(o) ==
    /\ pc[o] = "freeze"
    /\ LET frozen == [plan EXCEPT ![o] = [answer |-> answer[o], frozen |-> TRUE,
                                          steps  |-> {Describe(s) : s \in todo[o]}]]
       IN \/ plan' = frozen /\ Goto(o, "prove") /\ UNCHANGED faults
          \/ plan' \in {plan, frozen} /\ Goto(o, "settle") /\ Fails("write")
    /\ UNCHANGED <<store, op, input, asked, held, worker, visit, moves>>

(* What was derived must be exactly the tail of what was frozen. *)
Prove(o) ==
    /\ pc[o] = "prove"
    /\ Goto(o, IF {Content(s) : s \in todo[o]} = {Content(s) : s \in Remaining(o)}
               THEN "commit" ELSE "settle")
    /\ UNCHANGED <<store, op, input, plan, asked, held, worker, visit, faults, moves>>

-----------------------------------------------------------------------------
(* One transaction per step: the case under the version expected, its new   *)
(* rows, the signals under the versions they replace, the audit event if    *)
(* the frozen plan calls the step the case's first, and the progress row.   *)

Number(o) == DataSteps(o) - Cardinality(todo[o]) + 1

Frozen(o, s) == CHOOSE d \in plan[o].steps : Position(plan[o].steps, d) = Number(o)

Audits(o, s) == IF Frozen(o, s).first THEN {<<o, s.case>>} ELSE {}

(* Broken variant: the case is overwritten whatever it has become. *)
CaseHolds_Unconditional(s) == TRUE

CaseHolds(s) == cases[s.case].version = s.expected

SignalsHold(s) == \A i \in s.items : i[1] = 2 => signals[i[2]].version = i[3]

Applicable(o, s) ==
    /\ CaseHolds(s)
    /\ SignalsHold(s)
    /\ Audits(o, s) \intersect audited = {}
    /\ progress[o] = Number(o) - 1

Apply(o, s) ==
    LET displayed == {i[2] : i \in {j \in s.items : j[1] = 2}}
    IN /\ cases' = [cases EXCEPT ![s.case] = s.row]
       /\ signals' = [m \in Messages |->
                        IF m \in displayed
                        THEN [case |-> s.case, state |-> s.row.state, related |-> s.related,
                              version |-> signals[m].version + 1]
                        ELSE signals[m]]
       /\ audited' = audited \union Audits(o, s)
       /\ progress' = [progress EXCEPT ![o] = Number(o)]
       /\ UNCHANGED record

CommitStep(o) ==
    /\ pc[o] = "commit"
    /\ todo[o] # {}
    /\ LET s == First(todo[o])
       IN \/ /\ Applicable(o, s)
             /\ Apply(o, s)
             /\ todo' = [todo EXCEPT ![o] = @ \ {s}]
             /\ UNCHANGED <<pc, faults>>
          \/ /\ ~Applicable(o, s)
             /\ Goto(o, "release")
             /\ UNCHANGED <<store, todo, faults>>
          \/ /\ Fails("write")
             /\ \/ UNCHANGED store
                \/ Applicable(o, s) /\ Apply(o, s)
             /\ Goto(o, "release")
             /\ UNCHANGED todo
    /\ UNCHANGED <<op, input, plan, asked, held, answer, seen, visit, moves>>

(* The last step: the invocation record and the completing progress row in  *)
(* one transaction.                                                         *)
Complete(o) ==
    /\ record' = [record EXCEPT ![o] = "SUCCEEDED"]
    /\ progress' = [progress EXCEPT ![o] = DataSteps(o) + 1]
    /\ UNCHANGED <<cases, signals, audited>>

Finalizable(o) == progress[o] = DataSteps(o) /\ record[o] = "NONE"

Finalize(o) ==
    /\ pc[o] = "commit"
    /\ todo[o] = {}
    /\ \/ Finalizable(o) /\ Complete(o) /\ Goto(o, "succeed") /\ UNCHANGED faults
       \/ /\ Fails("write")
          /\ \/ UNCHANGED store
             \/ Finalizable(o) /\ Complete(o)
          /\ Goto(o, "release")
    /\ UNCHANGED <<op, input, plan, asked, held, worker, visit, moves>>

(* An answer that was refused is recorded before the operation fails. *)
Refuse(o) ==
    /\ pc[o] = "refuse"
    /\ Goto(o, "settle")
    /\ \/ record' = [record EXCEPT ![o] = "FAILED"] /\ UNCHANGED faults
       \/ record' \in {record, [record EXCEPT ![o] = "FAILED"]} /\ Fails("write")
    /\ UNCHANGED <<cases, signals, audited, progress>>
    /\ UNCHANGED <<op, input, plan, asked, held, worker, visit, moves>>

(* A read that fails ends the attempt; while an answer is being planned for *)
(* the first time it is a verdict on the answer.                            *)
ReadFails(o) ==
    /\ \/ pc[o] \in {"begin", "context", "load", "prove"}
       \/ pc[o] = "commit" /\ todo[o] = {}
    /\ Fails("read")
    /\ Goto(o, IF pc[o] = "load" /\ ~plan[o].frozen THEN "refuse" ELSE "settle")
    /\ UNCHANGED <<store, op, input, plan, asked, held, worker, visit, moves>>

-----------------------------------------------------------------------------
(* The operation is settled, each time by one write conditional on the      *)
(* version held; a writer that lost it takes the row as it stands.          *)

Holds(o) == op[o].version = held[o]


Settled ==
    [step \in {"succeed", "recheck", "settle", "release"} |->
        CASE step = "settle"  -> "FAILED"
          [] step = "release" -> "PENDING"
          [] OTHER            -> "SUCCEEDED"]

Forget(o) ==
    /\ answer' = [answer EXCEPT ![o] = NoAnswer]
    /\ seen' = [seen EXCEPT ![o] = NothingSeen]
    /\ todo' = [todo EXCEPT ![o] = {}]

(* A success whose write is refused is looked up again, and written once    *)
(* more if the record is there.                                             *)
Rechecks(o) == pc[o] = "succeed" /\ Holds(o) /\ record[o] = "SUCCEEDED"

Settle(o) ==
    /\ pc[o] \in DOMAIN Settled
    /\ \/ /\ Holds(o)
          /\ Transition(o, Settled[pc[o]])
          /\ UNCHANGED faults \/ Fails("write")
          /\ Goto(o, "idle")
          /\ held' = [held EXCEPT ![o] = 0]
       \/ /\ \/ ~Holds(o) /\ UNCHANGED faults
             \/ ~Rechecks(o) /\ Fails("write")
          /\ UNCHANGED op
          /\ Goto(o, "idle")
          /\ held' = [held EXCEPT ![o] = 0]
       \/ /\ Rechecks(o)
          /\ Fails("write")
          /\ Goto(o, "recheck")
          /\ UNCHANGED <<op, held>>
    /\ Forget(o)
    /\ UNCHANGED <<store, input, plan, asked, visit, moves>>

Crash(o) ==
    /\ pc[o] # "idle"
    /\ Fails("crash")
    /\ Goto(o, "idle")
    /\ held' = [held EXCEPT ![o] = 0]
    /\ Forget(o)
    /\ UNCHANGED <<store, op, input, plan, asked, visit, moves>>

(* A claim outlives the execution window; "slow" when it does so under a    *)
(* worker, or between the two reads of a redelivery.                        *)
Age(o) ==
    /\ op[o].status = "RUNNING"
    /\ ~op[o].aged
    /\ IF pc[o] = "idle" /\ visit[o] = 0 THEN UNCHANGED faults ELSE Fails("slow")
    /\ op' = [op EXCEPT ![o].aged = TRUE]
    /\ UNCHANGED <<store, input, plan, asked, pc, held, worker, visit, moves>>

(* A redelivery that finds the operation RUNNING: a finished one is         *)
(* transcribed, and of any other it keeps the version it saw.               *)
Visit(o) ==
    /\ op[o].status = "RUNNING"
    /\ visit[o] = 0
    /\ IF pc[o] = "idle" THEN UNCHANGED faults ELSE Fails("duplicate")
    /\ \/ /\ record[o] = "SUCCEEDED"
          /\ Transition(o, "SUCCEEDED")
          /\ UNCHANGED visit
       \/ /\ record[o] # "SUCCEEDED"
          /\ visit' = [visit EXCEPT ![o] = op[o].version]
          /\ UNCHANGED op
    /\ UNCHANGED <<store, input, plan, asked, pc, held, worker, moves>>

(* ... and ends it if its claim is over-age and the row has not moved. *)
Abandon(o) ==
    /\ visit[o] # 0
    /\ visit' = [visit EXCEPT ![o] = 0]
    /\ \/ /\ op[o].version = visit[o]
          /\ op[o].aged
          /\ Transition(o, "FAILED")
       \/ /\ op[o].version # visit[o] \/ ~op[o].aged
          /\ UNCHANGED op
    /\ UNCHANGED <<store, input, plan, asked, pc, held, worker, faults, moves>>

(* A writer that is not the Monitor: an investigation, a decision, a        *)
(* resolution.  Each moves the case's version.                              *)
MoveCase(c) ==
    /\ cases[c].version > 0
    /\ moves[c] < MaxMoves
    /\ moves[c] > 0 \/ Room
    /\ moves' = [moves EXCEPT ![c] = @ + 1]
    /\ \E state \in {"OPEN", "CLOSED"} :
          /\ cases[c].state = "CANDIDATE" => state = "OPEN"
          /\ cases[c].state # "CLOSED"
          /\ cases' = [cases EXCEPT ![c].state = state, ![c].version = @ + 1]
    /\ UNCHANGED <<signals, audited, progress, record>>
    /\ UNCHANGED <<op, input, plan, asked, pc, held, worker, visit, faults>>

Work(o) ==
    \/ Begin(o) \/ FreezeInput(o) \/ Invoke(o) \/ LoadCases(o) \/ Derive(o)
    \/ FreezePlan(o) \/ Prove(o) \/ CommitStep(o) \/ Finalize(o) \/ Refuse(o) \/ Settle(o)

Next ==
    \/ \E o \in Ops : \/ Claim(o) \/ Work(o) \/ ReadFails(o) \/ Crash(o)
                      \/ Age(o) \/ Visit(o) \/ Abandon(o)
    \/ \E c \in Cases : MoveCase(c)

Spec == Init /\ [][Next]_vars

-----------------------------------------------------------------------------
(* Properties.                                                              *)

(* The steps an operation has committed. *)
Committed(o) == Prefix(plan[o].steps, progress[o])

(* The records tell the truth of the store.  A successful invocation record *)
(* means the whole answer is in it: every report and fact of every addressed*)
(* group in its case, every message it cites signalled for that case.  A    *)
(* failed one means no case was touched.  And an operation that succeeded   *)
(* has its answer recorded, or had nothing to ask.                          *)
(* Code: _finalize as the last counted step, _record_failed_invocation,     *)
(* MonitorOperationWorker._execute.                                         *)
RecordIsHonest ==
    \A o \in Ops :
        /\ record[o] = "SUCCEEDED" =>
              /\ progress[o] = DataSteps(o) + 1
              /\ \A g \in Addressed(plan[o].answer) :
                    /\ g.reports \subseteq cases[CaseOf(g)].reports
                    /\ g.facts \subseteq cases[CaseOf(g)].facts
                    /\ \A m \in MessagesOf(g) : signals[m].case = CaseOf(g)
        /\ record[o] = "FAILED" => progress[o] = 0 /\ ~plan[o].frozen
        /\ op[o].status = "SUCCEEDED" => record[o] = "SUCCEEDED" \/ asked[o] = 0

(* A case holds exactly what it started with and what the committed steps   *)
(* of the frozen plans wrote into it, its version counts every one of those *)
(* steps and of the writes of others, and each operation that committed     *)
(* work in it has its one candidate event there: no update is lost, applied *)
(* twice, applied beyond the prefix progress names, or left unaudited.      *)
(* Code: _commit_step, the versions every step expects, first_for_case.     *)
Writes(c) == {p \in UNION {{o} \X Committed(o) : o \in Ops} : p[2].case = c}

Initially(c) == IF c = SeedCase THEN [version |-> 1, reports |-> SeedReports]
                                ELSE [version |-> 0, reports |-> {}]

CaseIsWhatWasCommitted ==
    \A c \in Cases :
        LET steps == Writes(c)
            items == UNION {p[2].items : p \in steps}
        IN /\ cases[c].version = Initially(c).version + moves[c] + Cardinality(steps)
           /\ cases[c].reports = Initially(c).reports \union {i[2] : i \in {j \in items : j[1] = 1}}
           /\ {f[1] : f \in cases[c].facts} = {i[2] : i \in {j \in items : j[1] = 3}}
           /\ {o \in Ops : <<o, c>> \in audited} = {p[1] : p \in steps}

(* However many operations extend it at once, a case stays within its bound *)
(* of facts, settles no slot twice, and merges reports only under one issue *)
(* type that names a subject.                                               *)
(* Code: _check_projected_case_capacity, _plan_facts,                       *)
(* _validate_candidate_links, derive_identities.                            *)
CaseStaysSound ==
    \A c \in Cases :
        /\ Cardinality(cases[c].facts) <= MaxFacts
        /\ \A f, h \in cases[c].facts : f[1] = h[1] => f = h
        /\ Cardinality(cases[c].reports) > 1 =>
              \E issue \in {Issue[r] : r \in Reports} \ {"OTHER"} :
                  IssuesOf(cases[c].reports) = {issue}

(* An answer two of whose groups address one case: a new candidate turns    *)
(* out to be a case that another group extends.  Both are cut from the      *)
(* version the case is at, so the steps of the first make the second stale. *)
Rivals(a) == \E g, h \in Addressed(a) : g # h /\ CaseOf(g) = CaseOf(h)

(* Without a writer that disturbed it, and groups that are no rivals, an    *)
(* operation's own committed steps never stand in the way of its remaining  *)
(* ones: what it derives on a resume is the tail of what it froze.          *)
(* Code: _rebind_expected_versions, _cut_steps, ApplyStepDescriptor.content.*)
Undisturbed(o) ==
    /\ ~Rivals(answer[o])
    /\ \A g \in Addressed(answer[o]) :
        \E s \in plan[o].steps :
            /\ s.case = CaseOf(g)
            /\ \A t \in plan[o].steps : t.case = s.case => s.expected <= t.expected
            /\ seen[o][s.case].version = s.expected + Cardinality({t \in Committed(o) : t.case = s.case})
            /\ cases[s.case] = seen[o][s.case]
            /\ \A t \in Remaining(o) : t.case = s.case => SignalsHold(t)

OwnWorkIsNoConflict ==
    \A o \in Ops :
        pc[o] = "derive" /\ plan[o].frozen /\ Undisturbed(o) =>
            /\ ~Denied(o)
            /\ {Content(s) : s \in Planned(o)} = {Content(s) : s \in Remaining(o)}

(* Something that is not the operation's own: a writer that moved a case its *)
(* answer names, or another operation that wrote there or showed one of its *)
(* messages first.                                                          *)
Contested(o) ==
    \/ Rivals(plan[o].answer)
    \/ \E g \in Addressed(plan[o].answer) :
          \/ moves[CaseOf(g)] > 0
          \/ \E p \in Ops \ {o} : \E t \in Committed(p) :
                \/ t.case = CaseOf(g)
                \/ \E m \in MessagesOf(g) : signals[m].case = t.case


(* What 09-observability-errors-and-failures.md says of a finalization that *)
(* fails: it is an interruption, and a redelivery finishes the one step.    *)
(* Read as: an operation whose every data step is committed does not end as *)
(* FAILED.                                                                  *)
WholePlanNeverFails ==
    \A o \in Ops : progress[o] > 0 /\ progress[o] >= DataSteps(o) => op[o].status # "FAILED"
=============================================================================
