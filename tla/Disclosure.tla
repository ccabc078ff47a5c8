----------------------------- MODULE Disclosure -----------------------------
(***************************************************************************)
(* What may leave a case: the mandates its contributors decide, and the     *)
(* privacy compiler that turns facts, mandates and a request into the one   *)
(* current shareable view.  Decisions, compiles, the Monitor's new facts,   *)
(* investigations and the clock interleave; a compile reads the clock, the  *)
(* case, the mandates and the view pointer one after the other.             *)
(*                                                                         *)
(* A fact is a number, because the compiler takes facts in the order of     *)
(* their ids; so is a photo.  Reason codes, hashes, audit rows, replays and *)
(* the structural gates that storage satisfies by construction are left     *)
(* out, and so is the one destination and purpose of policy/v1.             *)
(***************************************************************************)
EXTENDS Integers, FiniteSets, FiniteSetsExt, Functions

CONSTANTS
    Facts,         \* every fact the case may ever hold, in the order of their ids
    OwnerOf,       \* the contributor of a fact
    TypeOf,        \* its FactType
    Sensitive,     \* the facts of a sensitivity policy/v1 keeps internal
    CodeOf,        \* the impact code of a SERVICE_IMPACT
    Cites,         \* the photos a fact cites
    RootOf,        \* the earliest known origin of a photo
    Safe,          \* the photos with a clean, reviewed derivative
    Seeded,        \* the facts of the candidate
    Terms,         \* the terms contributors submit, within policy or not
    Requests,      \* the compile requests
    Compiles,      \* the compile commands in flight
    AggregateMin,  \* AGGREGATE_PRIVACY_MIN, 3 in policy/v1
    ViewLifetime,  \* VIEW_LIFETIME_SECONDS
    Horizon,       \* bound: the last instant
    MaxVersion,    \* bound: the last version of the case
    MaxViews,      \* bound: the views after which no compile begins
    None

Contributors == {OwnerOf[f] : f \in Facts}

Scopes == {"INTERNAL_ONLY", "AGGREGATE_ONLY", "ANONYMOUS_CASE", "NAMED_CASE", "EXTERNAL_ACTION"}

Grants == UNION {[S -> [scope : Scopes, transform : BOOLEAN]] : S \in SUBSET Facts}

States == {"CANDIDATE", "AWAITING_MANDATES", "INVESTIGATING", "READY_FOR_ACTION",
           "ACTION_PROPOSED", "ACTIONED", "VERIFYING", "RESOLVED"}

CaseRows == [state : States, version : Nat, epoch : Nat, facts : SUBSET Facts, sources : Nat]

Mandates == [status : {"PROPOSED", "APPROVED", "REFUSED", "REVOKED"}, version : Nat,
             from : Nat, expires : Nat \union {None}, identity : Scopes, grants : Grants]

Exports == [facts : SUBSET Facts, scope : Scopes, photos : SUBSET DOMAIN RootOf]

Views == [row : Nat, epoch : Nat, expires : Nat, exports : SUBSET Exports]

NoView == [row |-> 0, epoch |-> 0, expires |-> 0, exports |-> {}]

Idle == [pc |-> "idle"]

(* What a compile command has read so far. *)
Jobs == {Idle}
  \union [pc : {"started"}, request : Requests, at : Nat]
  \union [pc : {"read"}, request : Requests, at : Nat, row : CaseRows]
  \union [pc : {"allowed"}, version : Nat, epoch : Nat, expires : Nat,
          exports : SUBSET Exports]
  \union [pc : {"bound"}, version : Nat, epoch : Nat, expires : Nat,
          exports : SUBSET Exports, row : Nat]

ASSUME DisclosureAssumption ==
    /\ Facts \subseteq Nat /\ IsFiniteSet(Facts)
    /\ Seeded \subseteq Facts /\ Sensitive \subseteq Facts
    /\ DOMAIN RootOf \subseteq Nat
    /\ \A f \in Facts : Cites[f] \subseteq DOMAIN RootOf
    /\ Horizon \in Nat /\ ViewLifetime \in Nat \ {0} /\ MaxVersion \in Nat
    /\ MaxViews \in Nat
    /\ AggregateMin \in Nat
    /\ \A t \in Terms : /\ t.grants \in Grants
                        /\ t.identity \in Scopes
                        /\ t.expires \in Nat \union {None}
    /\ \A q \in Requests : /\ DOMAIN q.usage \subseteq Facts /\ DOMAIN q.usage # {}
                           /\ q.required \subseteq DOMAIN q.usage
    /\ None \notin Nat /\ None \notin Mandates

VARIABLES
    clock,    \* the clock every command reads
    case,     \* state, version, epoch (authorization_version), facts, recorded sources
    mandate,  \* the current version of each contributor's mandate
    offered,  \* the facts of its version 1
    fence,    \* whether a send fence is live
    job,      \* the compile commands
    view,     \* the view the current pointer names, and the row version of the pointer
    drafted   \* what the open proposal was written from

vars == <<clock, case, mandate, offered, fence, job, view, drafted>>

(* Everything has its shape; no view is from a later epoch than the case; a *)
(* contributor has a mandate once something was offered, and a refused or   *)
(* revoked one grants nothing.                                              *)
TypeOK ==
    /\ clock \in 0 .. Horizon
    /\ case \in CaseRows
    /\ mandate \in [Contributors -> Mandates \union {None}]
    /\ offered \in [Contributors -> SUBSET Facts]
    /\ fence \in BOOLEAN
    /\ job \in [Compiles -> Jobs]
    /\ view \in Views
    /\ drafted \in SUBSET Exports
    /\ view.epoch <= case.epoch
    /\ \A c \in Contributors :
         /\ offered[c] # {} <=> mandate[c] # None
         /\ mandate[c] # None /\ mandate[c].status \in {"REFUSED", "REVOKED"}
              => DOMAIN mandate[c].grants = {}

Init ==
    /\ clock = 0
    /\ case = [state |-> "CANDIDATE", version |-> 1, epoch |-> 1, facts |-> Seeded,
               sources |-> 0]
    /\ mandate = [c \in Contributors |-> None]
    /\ offered = [c \in Contributors |-> {}]
    /\ fence = FALSE
    /\ job = [k \in Compiles |-> Idle]
    /\ view = NoView
    /\ drafted = {}

-----------------------------------------------------------------------------
(* Policy.                                                                  *)

(* Which scopes a ceiling permits: a table, and not an order. *)
Permits ==
    [INTERNAL_ONLY |-> {"INTERNAL_ONLY"},
     AGGREGATE_ONLY |-> {"INTERNAL_ONLY", "AGGREGATE_ONLY"},
     ANONYMOUS_CASE |-> {"INTERNAL_ONLY", "AGGREGATE_ONLY", "ANONYMOUS_CASE"},
     NAMED_CASE |-> Scopes \ {"EXTERNAL_ACTION"},
     EXTERNAL_ACTION |-> Scopes]

Outward == {"INCIDENT_OCCURRENCE", "SERVICE_IMPACT", "LOCATION_AREA", "CONTRADICTION"}

(* The most a contributor may grant for a fact. *)
Ceiling(f) ==
    IF f \in Sensitive THEN "INTERNAL_ONLY"
    ELSE IF TypeOf[f] \in Outward \union {"EVIDENCE_DESCRIPTION"} THEN "EXTERNAL_ACTION"
    ELSE IF TypeOf[f] = "IDENTITY_ATTRIBUTE" THEN "NAMED_CASE"
    ELSE "INTERNAL_ONLY"

IdentityCeiling == "NAMED_CASE"

(* What a proposal offers, which is never the ceiling. *)
ProposedScope(f) ==
    IF TypeOf[f] \in Outward /\ "ANONYMOUS_CASE" \in Permits[Ceiling(f)]
    THEN "ANONYMOUS_CASE" ELSE "INTERNAL_ONLY"

Expired(m, now) == m.expires # None /\ now >= m.expires

(* Broken variant: any fact of the contributor's may be granted. *)
Offered_Any(c, f) == TRUE

(* A mandate is about the facts its version 1 offered, whatever the current *)
(* version still mentions.                                                  *)
Offered(c, f) == f \in offered[c]

WithinPolicy(c, t, now) ==
    /\ \A f \in DOMAIN t.grants :
         /\ f \in case.facts
         /\ OwnerOf[f] = c
         /\ Offered(c, f)
         /\ t.grants[f].scope \in Permits[Ceiling(f)]
    /\ t.identity \in Permits[IdentityCeiling]
    /\ t.expires # None => now < t.expires

-----------------------------------------------------------------------------
(* Mandates.                                                                *)

(* Broken variant: a decision that moves no state moves no epoch. *)
MoveAuthority_OnEdges(state) ==
    /\ case.version < MaxVersion
    /\ case' = [case EXCEPT !.state = state, !.version = @ + 1,
                            !.epoch = IF state = case.state THEN @ ELSE @ + 1]

(* Both counters move: the edges here are the authorization-sensitive ones. *)
MoveAuthority(state) ==
    /\ case.version < MaxVersion
    /\ case' = [case EXCEPT !.state = state, !.version = @ + 1, !.epoch = @ + 1]

(* Lifecycle progress moves the version and is no disclosure authority. *)
MoveLifecycle(from, to) ==
    /\ case.state = from
    /\ case.version < MaxVersion
    /\ case' = [case EXCEPT !.state = to, !.version = @ + 1]

OwnedBy(c) == {f \in case.facts : OwnerOf[f] = c}

(* A person accepts the candidate: version 1 of a mandate for every owner,  *)
(* over every fact of theirs.                                               *)
ProposeMandates ==
    /\ case.state = "CANDIDATE"
    /\ ~fence
    /\ case.facts # {}
    /\ MoveAuthority("AWAITING_MANDATES")
    /\ offered' = [c \in Contributors |-> OwnedBy(c)]
    /\ mandate' =
         [c \in Contributors |->
            IF OwnedBy(c) = {} THEN None
            ELSE [status |-> "PROPOSED", version |-> 1, from |-> clock, expires |-> None,
                  identity |-> "ANONYMOUS_CASE",
                  grants |-> [f \in OwnedBy(c) |->
                                [scope |-> ProposedScope(f),
                                 transform |-> ProposedScope(f) # "INTERNAL_ONLY"]]]]
    /\ UNCHANGED <<clock, fence, job, view, drafted>>

Edges ==
    {<<"PROPOSED", "APPROVE">>, <<"PROPOSED", "ADJUST">>, <<"PROPOSED", "REFUSE">>,
     <<"APPROVED", "ADJUST">>, <<"APPROVED", "REVOKE">>}

Decided == [APPROVE |-> "APPROVED", ADJUST |-> "APPROVED",
            REFUSE |-> "REFUSED", REVOKE |-> "REVOKED"]

(* Broken variant: a "no" leaves the terms in place. *)
Carried_Kept(m, d) ==
    IF d = "ADJUST" THEN Terms
    ELSE {[grants |-> m.grants, identity |-> m.identity, expires |-> m.expires]}

(* What a decision may carry: approval repeats the current terms, only an   *)
(* adjustment brings its own, and a "no" grants nothing.                    *)
Carried(m, d) ==
    CASE d = "APPROVE" -> {[grants |-> m.grants, identity |-> m.identity,
                            expires |-> m.expires]}
      [] d = "ADJUST" -> Terms
      [] OTHER -> {[grants |-> << >>, identity |-> "ANONYMOUS_CASE", expires |-> None]}

(* Broken variant: grants are counted and not compared. *)
Withdraws_ByCount(d, old, new) ==
    \/ d \in {"REFUSE", "REVOKE"}
    \/ d = "ADJUST" /\ Cardinality(DOMAIN new) < Cardinality(DOMAIN old)

(* Any granted fact dropped or changed; identity and expiry do not count. *)
Withdraws(d, old, new) ==
    \/ d \in {"REFUSE", "REVOKE"}
    \/ d = "ADJUST" /\ \E f \in DOMAIN old : f \notin DOMAIN new \/ new[f] # old[f]

(* The first decision starts the investigation, and one that takes          *)
(* something back costs a case that could act its readiness.                *)
Reconciled(d, old, new) ==
    IF \/ case.state = "AWAITING_MANDATES"
       \/ Withdraws(d, old, new) /\ case.state \in {"READY_FOR_ACTION", "ACTION_PROPOSED"}
    THEN "INVESTIGATING" ELSE case.state

(* The clock is read first and the commit stands on the versions read, so a *)
(* decision may be older than the instant it commits at.                    *)
DecideMandate(c, d) ==
    \E now \in 0 .. clock :
      LET m == mandate[c] IN
        /\ m # None
        /\ case.state # "RESOLVED"
        /\ ~fence
        /\ now >= m.from /\ ~Expired(m, now)
        /\ <<m.status, d>> \in Edges
        /\ \E t \in Carried(m, d) :
             /\ WithinPolicy(c, t, now)
             /\ mandate' = [mandate EXCEPT ![c] =
                              [m EXCEPT !.status = Decided[d], !.version = @ + 1,
                                        !.grants = t.grants, !.identity = t.identity,
                                        !.expires = IF d \in {"REFUSE", "REVOKE"} THEN @
                                                    ELSE t.expires]]
             /\ MoveAuthority(Reconciled(d, m.grants, t.grants))
             /\ drafted' = IF case'.state = "INVESTIGATING" THEN {} ELSE drafted
        /\ UNCHANGED <<clock, offered, fence, job, view>>

-----------------------------------------------------------------------------
(* The compiler.                                                            *)

(* The origins a contributor's facts rest on: the photos' roots, and the    *)
(* contributor where a fact shows no photo.                                 *)
SourcesOf(c, facts) ==
    LET own == {f \in facts : OwnerOf[f] = c}
    IN  {<<"reporter", c>> : f \in {g \in own : Cites[g] = {}}}
          \union {<<"root", RootOf[e]>> : e \in UNION {Cites[f] : f \in own}}

(* Independent sources: the most contributors that can each be given an     *)
(* origin of their own.                                                     *)
IndependentSources(facts) ==
    LET owners == {OwnerOf[f] : f \in facts}
        origins == UNION {SourcesOf(c, facts) : c \in owners}
    IN  Max({Cardinality(S) : S \in
              {T \in SUBSET owners :
                 \E give \in Injection(T, origins) :
                   \A c \in T : give[c] \in SourcesOf(c, facts)}})

(* Gates 9 to 11: decided by its contributor, not revoked, in force at the  *)
(* instant the compile was asked for.                                       *)
InForce(m, at) == m.status = "APPROVED" /\ m.from <= at /\ ~Expired(m, at)

(* Gate 14. *)
ScopeAllows(f, g, usage) ==
    /\ f \notin Sensitive /\ TypeOf[f] \notin {"UNIT_LOCATION", "HEALTH_DETAIL"}
    /\ g.scope # "INTERNAL_ONLY"
    /\ g.transform
    /\ usage = "AGGREGATION_INPUT" <=> g.scope = "AGGREGATE_ONLY"
    /\ usage = "EVIDENCE" => g.scope = "EXTERNAL_ACTION"

(* Gate 15: a name needs the contributor's leave beside the fact's grant. *)
IdentityAllows(f, m) ==
    TypeOf[f] = "IDENTITY_ATTRIBUTE" =>
      /\ m.grants[f].scope \in {"NAMED_CASE", "EXTERNAL_ACTION"}
      /\ m.identity \in {"NAMED_CASE", "EXTERNAL_ACTION"}
      /\ m.grants[f].scope = "EXTERNAL_ACTION" => m.identity = "EXTERNAL_ACTION"

ScopeIn(ms, f) == ms[OwnerOf[f]].grants[f].scope

(* Gates 7 to 15 look at one fact at a time. *)
Authorized(q, ms, at) ==
    {f \in DOMAIN q.usage :
       LET m == ms[OwnerOf[f]] IN
         /\ m # None
         /\ InForce(m, at)
         /\ f \in DOMAIN m.grants
         /\ ScopeAllows(f, m.grants[f], q.usage[f])
         /\ IdentityAllows(f, m)}

(* The facts one aggregate is made of. *)
Peers(E, ms, f) ==
    {g \in E : ScopeIn(ms, g) = "AGGREGATE_ONLY" /\ TypeOf[g] = TypeOf[f]}

(* Gate 16. *)
ManyEnough(E, ms) ==
    {f \in E : ScopeIn(ms, f) = "AGGREGATE_ONLY" =>
                 Cardinality({OwnerOf[g] : g \in Peers(E, ms, f)}) >= AggregateMin}

(* Gate 18: a statement is a quote; an aggregate needs more than one        *)
(* category, and only impacts have any.                                     *)
NotIdentifying(E, ms) ==
    {f \in E : /\ TypeOf[f] # "MANAGEMENT_STATEMENT"
               /\ ScopeIn(ms, f) = "AGGREGATE_ONLY" =>
                    /\ TypeOf[f] = "SERVICE_IMPACT"
                    /\ Cardinality({CodeOf[g] : g \in Peers(E, ms, f)}) > 1}

(* Gate 19. *)
Necessary(E, q) ==
    {f \in E : /\ TypeOf[f] \in Outward \union {"IDENTITY_ATTRIBUTE", "EVIDENCE_DESCRIPTION"}
               /\ TypeOf[f] = "EVIDENCE_DESCRIPTION" =>
                    q.usage[f] = "EVIDENCE" /\ q.photos \intersect Cites[f] # {}}

Unsafe(q, ms, f) ==
    LET asked == q.photos \intersect Cites[f]
    IN  \/ q.usage[f] = "EVIDENCE" /\ asked = {}
        \/ TypeOf[f] = "EVIDENCE_DESCRIPTION" /\ Cardinality(asked) # 1
        \/ asked # {} /\ (ScopeIn(ms, f) # "EXTERNAL_ACTION" \/ ~(asked \subseteq Safe))

(* Gate 20 stops at the first unsafe fact and excludes that one alone. *)
WithSafePhotos(E, q, ms) ==
    LET unsafe == {f \in E : Unsafe(q, ms, f)}
    IN  IF unsafe = {} THEN E ELSE E \ {Min(unsafe)}

(* What is left of a request: a fact that fails a gate is excluded. *)
Included(q, ms, at) ==
    WithSafePhotos(
        Necessary(NotIdentifying(ManyEnough(Authorized(q, ms, at), ms), ms), q), q, ms)

Photo(q, f) ==
    IF TypeOf[f] = "EVIDENCE_DESCRIPTION" THEN {Min(q.photos \intersect Cites[f])} ELSE {}

(* Gate 21: impacts of one aggregate become one export, so do incidents of  *)
(* one scope; every other fact is exported by itself.                       *)
Grouped(E, q, ms) ==
    LET together(f, g) ==
          \/ f = g
          \/ /\ TypeOf[f] = TypeOf[g] /\ ScopeIn(ms, f) = ScopeIn(ms, g)
             /\ ScopeIn(ms, f) = "AGGREGATE_ONLY" \/ TypeOf[f] = "INCIDENT_OCCURRENCE"
    IN  {[facts |-> {g \in E : together(f, g)}, scope |-> ScopeIn(ms, f),
          photos |-> Photo(q, f)] : f \in E}

(* Gates 3 to 6 and 17 are about the request and the case as a whole. *)
Compilable(q, row) ==
    /\ row.state # "RESOLVED"
    /\ DOMAIN q.usage \subseteq row.facts
    /\ q.photos \subseteq UNION {Cites[f] : f \in DOMAIN q.usage}
    /\ IndependentSources(row.facts) >= 2 /\ row.sources >= 2

(* The request is allowed unless a required fact is excluded, nothing is    *)
(* left, or an excluded photo is looked up and is not there.                *)
Allowed(q, row, ms, at) ==
    /\ Compilable(q, row)
    /\ LET E == Included(q, ms, at)
       IN  E # {} /\ q.required \subseteq E /\ \A f \in E : Photo(q, f) \subseteq Safe

(* A view ends with its lifetime or with the first mandate it relies on. *)
Until(E, ms, at) ==
    Min({at + ViewLifetime} \union ({ms[OwnerOf[f]].expires : f \in E} \ {None}))

-----------------------------------------------------------------------------
(* A compile command.                                                       *)

SetJob(k, j) ==
    /\ job' = [job EXCEPT ![k] = j]
    /\ UNCHANGED <<clock, mandate, offered, fence, drafted>>

(* The command reads the clock, *)
BeginCompile(k, q) ==
    /\ job[k].pc = "idle"
    /\ view.row < MaxViews
    /\ SetJob(k, [pc |-> "started", request |-> q, at |-> clock])
    /\ UNCHANGED <<case, view>>

(* then the case and its facts, *)
LoadCase(k) ==
    /\ job[k].pc = "started"
    /\ SetJob(k, [pc |-> "read", request |-> job[k].request, at |-> job[k].at, row |-> case])
    /\ UNCHANGED <<case, view>>

(* then the mandates; what follows is a function of what was read.  A       *)
(* denial is recorded and changes nothing here.                             *)
LoadMandates(k) ==
    LET j == job[k]
        E == Included(j.request, mandate, j.at)
    IN  /\ j.pc = "read"
        /\ IF Allowed(j.request, j.row, mandate, j.at)
           THEN SetJob(k, [pc |-> "allowed", version |-> j.row.version, epoch |-> j.row.epoch,
                           expires |-> Until(E, mandate, j.at),
                           exports |-> Grouped(E, j.request, mandate)])
           ELSE SetJob(k, Idle)
        /\ UNCHANGED <<case, view>>

(* The pointer the view is to replace is read last, *)
BindPointer(k) ==
    /\ job[k].pc = "allowed"
    /\ SetJob(k, [pc |-> "bound", version |-> job[k].version, epoch |-> job[k].epoch,
                  expires |-> job[k].expires, exports |-> job[k].exports,
                  row |-> view.row])
    /\ UNCHANGED <<case, view>>

CaseUnmoved(j) == case.version = j.version /\ case.epoch = j.epoch

(* and the view becomes current if nothing it stands on has moved. *)
CommitView(k) ==
    LET j == job[k]
    IN  /\ j.pc = "bound"
        /\ view' = IF CaseUnmoved(j) /\ ~fence /\ view.row = j.row
                   THEN [row |-> j.row + 1, epoch |-> j.epoch, expires |-> j.expires,
                         exports |-> j.exports]
                   ELSE view
        /\ SetJob(k, Idle)
        /\ UNCHANGED case

-----------------------------------------------------------------------------
(* The rest of the case, as far as it touches what may be shared.           *)

(* The Monitor attaches another fact, with no fence condition. *)
LinkFact(f) ==
    /\ case.state # "RESOLVED"
    /\ f \notin case.facts
    /\ case.version < MaxVersion
    /\ case' = [case EXCEPT !.facts = @ \union {f}, !.version = @ + 1, !.epoch = @ + 1]
    /\ UNCHANGED <<clock, mandate, offered, fence, job, view, drafted>>

(* Every fact of the case, optional, as a claim. *)
Preflight == [usage |-> [f \in case.facts |-> "CLAIM"], required |-> {}, photos |-> {}]

(* An investigation records the sources it counted; a case is ready if two  *)
(* sources and a compilable claim stand behind it and the model agrees.     *)
Investigate(agrees) ==
    LET sources == IndependentSources(case.facts)
        row == [case EXCEPT !.sources = sources]
        ready == agrees /\ sources >= 2 /\ Allowed(Preflight, row, mandate, clock)
        state == CASE case.state = "INVESTIGATING" /\ ready -> "READY_FOR_ACTION"
                   [] case.state = "READY_FOR_ACTION" /\ ~ready -> "INVESTIGATING"
                   [] OTHER -> case.state
    IN  /\ case.state \notin {"CANDIDATE", "RESOLVED"}
        /\ ~fence
        /\ case.version < MaxVersion
        /\ case' = [row EXCEPT !.state = state, !.version = @ + 1, !.epoch = @ + 1]
        /\ UNCHANGED <<clock, mandate, offered, fence, job, view, drafted>>

AuthorityStands == view.row > 0 /\ view.epoch = case.epoch /\ clock < view.expires

(* A message is drafted from the current view, which must stand. *)
ProposeAction ==
    /\ AuthorityStands
    /\ ~fence
    /\ MoveLifecycle("READY_FOR_ACTION", "ACTION_PROPOSED")
    /\ drafted' = view.exports
    /\ UNCHANGED <<clock, mandate, offered, fence, job, view>>

(* The proposal is cleared, or cleared once more; the case may act again if *)
(* the view still stands and stays where it is otherwise.                   *)
ClearProposal ==
    /\ ~fence
    /\ \/ AuthorityStands /\ MoveLifecycle("ACTION_PROPOSED", "READY_FOR_ACTION")
       \/ ~AuthorityStands /\ case.state = "ACTION_PROPOSED" /\ UNCHANGED case
    /\ drafted' = {}
    /\ UNCHANGED <<clock, mandate, offered, fence, job, view>>

(* The message is sent under a fence; SendAction has how. *)
TakeFence ==
    /\ case.state = "ACTION_PROPOSED" /\ drafted # {}
    /\ ~fence
    /\ fence' = TRUE
    /\ UNCHANGED <<clock, case, mandate, offered, job, view, drafted>>

EndFence ==
    /\ fence
    /\ fence' = FALSE
    /\ UNCHANGED <<clock, case, mandate, offered, job, view, drafted>>

(* It went out, and a promise may follow that is kept, or missed, which     *)
(* lets the case act again.                                                 *)
FollowUp ==
    /\ \/ drafted # {} /\ MoveLifecycle("ACTION_PROPOSED", "ACTIONED")
       \/ MoveLifecycle("ACTIONED", "VERIFYING")
       \/ MoveLifecycle("VERIFYING", "READY_FOR_ACTION")
       \/ MoveLifecycle("VERIFYING", "RESOLVED")
    /\ drafted' = {}
    /\ UNCHANGED <<clock, mandate, offered, fence, job, view>>

Tick ==
    /\ clock < Horizon
    /\ clock' = clock + 1
    /\ UNCHANGED <<case, mandate, offered, fence, job, view, drafted>>

Next ==
    \/ ProposeMandates
    \/ \E c \in Contributors, d \in DOMAIN Decided : DecideMandate(c, d)
    \/ \E k \in Compiles, q \in Requests : BeginCompile(k, q)
    \/ \E k \in Compiles : LoadCase(k) \/ LoadMandates(k) \/ BindPointer(k) \/ CommitView(k)
    \/ \E f \in Facts : LinkFact(f)
    \/ \E agrees \in BOOLEAN : Investigate(agrees)
    \/ ProposeAction
    \/ ClearProposal
    \/ TakeFence
    \/ EndFence
    \/ FollowUp
    \/ Tick

Spec == Init /\ [][Next]_vars

-----------------------------------------------------------------------------
(* A view a message may still be drafted from is what the contributors      *)
(* allow now: each exported fact is granted at exactly the scope it was     *)
(* exported at, by an approved mandate that has not expired, a name with    *)
(* its own leave and a photo for external action.  Decisions, expiries and  *)
(* compiles race freely; only the epoch, the expiry and the conditions of   *)
(* the write hold them together.                                            *)
ViewStillAuthorized ==
    AuthorityStands =>
      \A x \in view.exports : \A f \in x.facts :
        LET m == mandate[OwnerOf[f]] IN
          /\ InForce(m, clock)
          /\ f \in DOMAIN m.grants
          /\ m.grants[f] = [scope |-> x.scope, transform |-> TRUE]
          /\ TypeOf[f] = "IDENTITY_ATTRIBUTE" => m.identity = "NAMED_CASE"
          /\ x.photos # {} => x.scope = "EXTERNAL_ACTION"

(* No view holds a fact its contributor was never offered: a fact that came *)
(* after the proposal waits for a fresh one, whatever terms are submitted   *)
(* and however the Monitor's links, decisions and compiles interleave.      *)
OnlyOfferedIsShared ==
    \A x \in view.exports : \A f \in x.facts : f \in offered[OwnerOf[f]]

(* While a message is open, everything it was written from is still granted *)
(* as it was: a contributor who takes back or changes any of it takes the   *)
(* case out of ACTION_PROPOSED.                                             *)
OpenDraftKeepsItsGrants ==
    case.state = "ACTION_PROPOSED" =>
      \A x \in drafted : \A f \in x.facts :
        LET m == mandate[OwnerOf[f]] IN
          m.status = "APPROVED" /\ f \in DOMAIN m.grants /\ m.grants[f].scope = x.scope

(* docs/architecture/12-evaluation-and-testing.md:82: an aggregate is       *)
(* always backed by AggregateMin contributors.                              *)
AggregatesHideContributors ==
    \A x \in view.exports :
      x.scope = "AGGREGATE_ONLY" =>
        Cardinality({OwnerOf[f] : f \in x.facts}) >= AggregateMin
=============================================================================
