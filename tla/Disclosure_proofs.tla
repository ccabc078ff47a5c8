------------------------- MODULE Disclosure_proofs -------------------------
(***************************************************************************)
(* Proofs about Disclosure, for any facts, contributors, terms, requests,   *)
(* compile commands and bounds.                                             *)
(***************************************************************************)
EXTENDS Disclosure, FiniteSetTheorems, WellFoundedInduction, TLAPS

-----------------------------------------------------------------------------
(* Least and greatest elements of sets of natural numbers.                  *)

Below == {p \in Nat \X Nat : p[1] < p[2]}

LEMMA BelowWellFounded == IsWellFoundedOn(Below, Nat)
BY NatLessThanWellFounded DEF OpToRel, Below

LEMMA BelowPair == ASSUME NEW a \in Nat, NEW b \in Nat, a < b PROVE <<a, b>> \in Below
BY DEF Below

LEMMA LeastOf ==
    ASSUME NEW S \in SUBSET Nat, S # {}
    PROVE  Min(S) \in S /\ \A y \in S : Min(S) <= y
<1>1. PICK x \in S : \A y \in S : ~ (<<y, x>> \in Below)
  BY BelowWellFounded, WFMin
<1>2. \A y \in S : x <= y
  <2> SUFFICES ASSUME NEW y \in S, y < x PROVE FALSE
    BY SMT
  <2> QED BY <1>1, BelowPair
<1> QED BY <1>2 DEF Min

LEMMA GreatestOf ==
    ASSUME NEW S \in SUBSET Nat, S # {}, NEW n \in Nat, \A y \in S : y <= n
    PROVE  Max(S) \in S
<1> DEFINE B == {k \in Nat : \A y \in S : y <= k}
           b == Min(B)
<1>1. b \in B /\ \A k \in B : b <= k
  <2>1. B \in SUBSET Nat /\ B # {}
    OBVIOUS
  <2> QED BY <2>1, LeastOf
<1> HIDE DEF b
<1>2. b \in S
  <2> SUFFICES ASSUME b \notin S PROVE FALSE
    OBVIOUS
  <2>1. \A y \in S : y \in Nat /\ y < b
    BY <1>1
  <2>2. b \in Nat /\ b > 0
    <3>1. PICK y \in S : TRUE
      OBVIOUS
    <3>2. y \in Nat /\ y < b /\ b \in Nat
      BY <1>1, <2>1
    <3> QED BY <3>2
  <2>3. b - 1 \in Nat /\ \A y \in S : y <= b - 1
    BY <2>1, <2>2
  <2> QED BY <2>2, <2>3, <1>1
<1> QED BY <1>1, <1>2 DEF Max

-----------------------------------------------------------------------------
(* What the compiler returns.                                               *)

(* Sources are counted by a number. *)
LEMMA SourcesCounted ==
    ASSUME NEW facts \in SUBSET Facts
    PROVE  IndependentSources(facts) \in Nat
<1> DEFINE owners == {OwnerOf[f] : f \in facts}
           origins == UNION {SourcesOf(c, facts) : c \in owners}
           Shown == {T \in SUBSET owners :
                       \E give \in Injection(T, origins) :
                         \A c \in T : give[c] \in SourcesOf(c, facts)}
           sizes == {Cardinality(S) : S \in Shown}
<1>1. IsFiniteSet(owners)
  <2>1. IsFiniteSet(facts)
    BY FS_Subset, DisclosureAssumption
  <2> DEFINE own == [f \in facts |-> OwnerOf[f]]
  <2>2. own \in Surjection(facts, owners)
    BY DEF Surjection
  <2> QED BY <2>1, <2>2, FS_Surjection
<1>2. sizes \in SUBSET Nat /\ \A n \in sizes : n <= Cardinality(owners)
  BY <1>1, FS_Subset, FS_CardinalityType
<1>3. sizes # {}
  <2> DEFINE none == [c \in {} |-> c]
  <2>1. none \in Injection({}, origins)
    BY DEF Injection, IsInjective
  <2>2. {} \in Shown
    BY <2>1
  <2> QED BY <2>2
<1>4. Cardinality(owners) \in Nat
  BY <1>1, FS_CardinalityType
<1>5. Max(sizes) \in sizes
  BY <1>2, <1>3, <1>4, GreatestOf
<1> HIDE DEF sizes
<1>6. Max(sizes) \in Nat
  BY <1>2, <1>5
<1> QED BY <1>6 DEF IndependentSources, sizes

(* A fact that is included passed gates 7 to 15, and a photo's description  *)
(* is there as evidence, with a photo that was asked for.                   *)
LEMMA IncludedFacts ==
    ASSUME NEW q \in Requests, NEW ms, NEW at, NEW f \in Included(q, ms, at)
    PROVE  /\ f \in Authorized(q, ms, at)
           /\ TypeOf[f] = "EVIDENCE_DESCRIPTION" =>
                q.usage[f] = "EVIDENCE" /\ q.photos \intersect Cites[f] # {}
<1>1. \A E : WithSafePhotos(E, q, ms) \subseteq E
  BY DEF WithSafePhotos
<1>2. \A E : Necessary(E, q) \subseteq E /\ NotIdentifying(E, ms) \subseteq E
               /\ ManyEnough(E, ms) \subseteq E
  BY DEF Necessary, NotIdentifying, ManyEnough
<1> DEFINE E == NotIdentifying(ManyEnough(Authorized(q, ms, at), ms), ms)
<1>3. f \in Necessary(E, q) /\ E \subseteq Authorized(q, ms, at)
  BY <1>1, <1>2 DEF Included
<1> HIDE DEF E
<1> QED BY <1>3 DEF Necessary

(* What may be said until some instant: every fact is granted at the scope  *)
(* it is exported at, by a mandate that is in force until then.             *)
Backed(exports, until, ms, now) ==
    \A x \in exports : \A f \in x.facts :
      LET m == ms[OwnerOf[f]] IN
        /\ m # None
        /\ m.status = "APPROVED"
        /\ m.from <= now
        /\ m.expires # None => until <= m.expires
        /\ f \in DOMAIN m.grants
        /\ m.grants[f] = [scope |-> x.scope, transform |-> TRUE]
        /\ TypeOf[f] = "IDENTITY_ATTRIBUTE" => m.identity = "NAMED_CASE"
        /\ x.photos # {} => x.scope = "EXTERNAL_ACTION"

(* Nobody granted more identity than the policy's ceiling, nor a fact that  *)
(* was not offered.                                                         *)
MandateInv ==
    \A c \in Contributors :
      mandate[c] # None =>
        /\ mandate[c].identity \in Permits[IdentityCeiling]
        /\ DOMAIN mandate[c].grants \subseteq offered[c]

LEMMA GrantTyped ==
    ASSUME NEW g \in Grants, NEW f \in DOMAIN g
    PROVE  f \in Facts /\ g[f] \in [scope : Scopes, transform : BOOLEAN]
BY DEF Grants

(* Everything the gates ask of one fact. *)
LEMMA AuthorizedFact ==
    ASSUME TypeOK, MandateInv, NEW q \in Requests, NEW at \in Nat,
           NEW f \in Authorized(q, mandate, at)
    PROVE  LET m == mandate[OwnerOf[f]] IN
             /\ f \in Facts
             /\ m # None /\ m \in Mandates
             /\ m.status = "APPROVED"
             /\ m.from <= at
             /\ m.expires # None => at < m.expires
             /\ f \in DOMAIN m.grants /\ f \in offered[OwnerOf[f]]
             /\ m.grants[f] \in [scope : Scopes, transform : {TRUE}]
             /\ TypeOf[f] = "IDENTITY_ATTRIBUTE" => m.identity = "NAMED_CASE"
             /\ q.usage[f] = "EVIDENCE" => m.grants[f].scope = "EXTERNAL_ACTION"
<1> DEFINE m == mandate[OwnerOf[f]]
<1>1. f \in DOMAIN q.usage /\ m # None /\ InForce(m, at) /\ f \in DOMAIN m.grants
        /\ ScopeAllows(f, m.grants[f], q.usage[f]) /\ IdentityAllows(f, m)
  BY DEF Authorized
<1>2. f \in Facts /\ OwnerOf[f] \in Contributors
  BY <1>1, DisclosureAssumption DEF Contributors
<1>3. m \in Mandates
  BY <1>1, <1>2 DEF TypeOK
<1>4. m.grants[f] \in [scope : Scopes, transform : BOOLEAN]
  BY <1>1, <1>3, GrantTyped DEF Mandates
<1>5. m.grants[f].transform /\ (q.usage[f] = "EVIDENCE" => m.grants[f].scope = "EXTERNAL_ACTION")
  BY <1>1 DEF ScopeAllows
<1>6. m.grants[f] \in [scope : Scopes, transform : {TRUE}]
  BY <1>4, <1>5
<1>7. TypeOf[f] = "IDENTITY_ATTRIBUTE" => m.identity = "NAMED_CASE"
  <2>1. m.identity \in Permits["NAMED_CASE"]
    BY <1>1, <1>2 DEF MandateInv, IdentityCeiling
  <2>2. Permits["NAMED_CASE"] = Scopes \ {"EXTERNAL_ACTION"}
    BY DEF Permits
  <2> QED BY <1>1, <2>1, <2>2 DEF IdentityAllows
<1>8. m.status = "APPROVED" /\ m.from <= at /\ (m.expires # None => at < m.expires)
  BY <1>1, <1>3 DEF InForce, Expired, Mandates
<1>9. f \in offered[OwnerOf[f]]
  BY <1>1, <1>2 DEF MandateInv
<1> QED BY <1>1, <1>2, <1>3, <1>5, <1>6, <1>7, <1>8, <1>9

(* A view ends no later than any mandate it relies on. *)
LEMMA EndsInTime ==
    ASSUME TypeOK, MandateInv, NEW q \in Requests, NEW at \in Nat,
           NEW E \in SUBSET Authorized(q, mandate, at)
    PROVE  /\ Until(E, mandate, at) \in Nat
           /\ \A f \in E : mandate[OwnerOf[f]].expires # None
                             => Until(E, mandate, at) <= mandate[OwnerOf[f]].expires
<1> DEFINE ends == {at + ViewLifetime} \union ({mandate[OwnerOf[f]].expires : f \in E} \ {None})
<1>1. ends \in SUBSET Nat /\ ends # {}
  <2>1. at + ViewLifetime \in Nat
    BY DisclosureAssumption
  <2>2. \A f \in E : mandate[OwnerOf[f]].expires \in Nat \union {None}
    BY AuthorizedFact DEF Mandates
  <2> QED BY <2>1, <2>2
<1>2. Min(ends) \in ends /\ \A y \in ends : Min(ends) <= y
  BY <1>1, LeastOf
<1>3. Min(ends) \in Nat
  BY <1>1, <1>2
<1>4. Until(E, mandate, at) = Min(ends)
  BY DEF Until
<1> HIDE DEF ends
<1>5. \A f \in E : mandate[OwnerOf[f]].expires # None => mandate[OwnerOf[f]].expires \in ends
  BY DEF ends
<1> QED BY <1>2, <1>3, <1>4, <1>5

(* A compile exports what the mandates it read allow, and nothing else. *)
LEMMA CompiledIsBacked ==
    ASSUME TypeOK, MandateInv, NEW q \in Requests, NEW at \in Nat, at <= clock,
           NEW E, E = Included(q, mandate, at)
    PROVE  /\ Until(E, mandate, at) \in Nat
           /\ Grouped(E, q, mandate) \in SUBSET Exports
           /\ Backed(Grouped(E, q, mandate), Until(E, mandate, at), mandate, clock)
           /\ \A x \in Grouped(E, q, mandate) : \A f \in x.facts : f \in offered[OwnerOf[f]]
<1> DEFINE until == Until(E, mandate, at)
<1>1. E \in SUBSET Authorized(q, mandate, at)
  BY IncludedFacts
<1>2. until \in Nat /\ \A f \in E : mandate[OwnerOf[f]].expires # None
                                      => until <= mandate[OwnerOf[f]].expires
  BY <1>1, EndsInTime
<1> HIDE DEF until
<1>3. ASSUME NEW f \in E
      PROVE  /\ Photo(q, f) \in SUBSET DOMAIN RootOf
             /\ Photo(q, f) # {} =>
                  TypeOf[f] = "EVIDENCE_DESCRIPTION" /\ ScopeIn(mandate, f) = "EXTERNAL_ACTION"
  <2>1. CASE TypeOf[f] # "EVIDENCE_DESCRIPTION"
    BY <2>1 DEF Photo
  <2>2. CASE TypeOf[f] = "EVIDENCE_DESCRIPTION"
    <3>1. q.usage[f] = "EVIDENCE" /\ q.photos \intersect Cites[f] # {}
      BY <2>2, IncludedFacts
    <3>2. f \in Facts /\ ScopeIn(mandate, f) = "EXTERNAL_ACTION"
      BY <1>1, <3>1, AuthorizedFact DEF ScopeIn
    <3>3. q.photos \intersect Cites[f] \in SUBSET (DOMAIN RootOf)
            /\ q.photos \intersect Cites[f] \in SUBSET Nat
      BY <3>2, DisclosureAssumption
    <3>4. Min(q.photos \intersect Cites[f]) \in DOMAIN RootOf
      BY <3>1, <3>3, LeastOf
    <3> QED BY <2>2, <3>2, <3>4 DEF Photo
  <2> QED BY <2>1, <2>2
<1>4. ASSUME NEW x \in Grouped(E, q, mandate)
      PROVE  /\ x \in Exports
             /\ x.facts \subseteq E
             /\ \A f \in x.facts : ScopeIn(mandate, f) = x.scope
             /\ x.photos # {} => x.scope = "EXTERNAL_ACTION"
  <2> DEFINE together(f, g) ==
               \/ f = g
               \/ /\ TypeOf[f] = TypeOf[g] /\ ScopeIn(mandate, f) = ScopeIn(mandate, g)
                  /\ ScopeIn(mandate, f) = "AGGREGATE_ONLY" \/ TypeOf[f] = "INCIDENT_OCCURRENCE"
  <2>1. PICK f \in E : x = [facts |-> {g \in E : together(f, g)}, scope |-> ScopeIn(mandate, f),
                            photos |-> Photo(q, f)]
    BY DEF Grouped
  <2>2. \A g \in E : together(f, g) => ScopeIn(mandate, g) = ScopeIn(mandate, f)
    OBVIOUS
  <2>3. ScopeIn(mandate, f) \in Scopes
    BY <1>1, AuthorizedFact DEF ScopeIn
  <2>4. E \subseteq Facts
    BY <1>1, AuthorizedFact
  <2> HIDE DEF together
  <2> QED BY <1>3, <2>1, <2>2, <2>3, <2>4 DEF Exports
<1>5. Backed(Grouped(E, q, mandate), until, mandate, clock)
  <2> SUFFICES ASSUME NEW x \in Grouped(E, q, mandate), NEW f \in x.facts
               PROVE  LET m == mandate[OwnerOf[f]] IN
                        /\ m # None
                        /\ m.status = "APPROVED"
                        /\ m.from <= clock
                        /\ m.expires # None => until <= m.expires
                        /\ f \in DOMAIN m.grants
                        /\ m.grants[f] = [scope |-> x.scope, transform |-> TRUE]
                        /\ TypeOf[f] = "IDENTITY_ATTRIBUTE" => m.identity = "NAMED_CASE"
                        /\ x.photos # {} => x.scope = "EXTERNAL_ACTION"
    BY DEF Backed
  <2> DEFINE m == mandate[OwnerOf[f]]
  <2>1. f \in E /\ m.grants[f].scope = x.scope /\ (x.photos # {} => x.scope = "EXTERNAL_ACTION")
    BY <1>4 DEF ScopeIn
  <2>2. /\ m # None /\ m \in Mandates /\ m.status = "APPROVED" /\ m.from <= at
        /\ f \in DOMAIN m.grants /\ m.grants[f] \in [scope : Scopes, transform : {TRUE}]
        /\ TypeOf[f] = "IDENTITY_ATTRIBUTE" => m.identity = "NAMED_CASE"
    BY <1>1, <2>1, AuthorizedFact
  <2>3. m.from <= clock
    BY <2>2 DEF Mandates, TypeOK
  <2> QED BY <1>2, <2>1, <2>2, <2>3
<1>6. \A x \in Grouped(E, q, mandate) : \A f \in x.facts : f \in offered[OwnerOf[f]]
  BY <1>1, <1>4, AuthorizedFact
<1> QED BY <1>2, <1>4, <1>5, <1>6 DEF until

-----------------------------------------------------------------------------
(* The inductive invariant.                                                 *)

(* What was compiled at an epoch stays backed as long as the epoch stays,   *)
(* and was offered for good.  A view and a compile that was allowed are     *)
(* both of this kind.                                                       *)
Standing(r, ms, off, now, epoch) ==
    /\ r.epoch <= epoch
    /\ r.epoch = epoch => Backed(r.exports, r.expires, ms, now)
    /\ \A x \in r.exports : \A f \in x.facts : f \in off[OwnerOf[f]]

(* A compile looks at no later instant and no later epoch than the present. *)
JobOK(j, ms, off, now, epoch) ==
    /\ j.pc \in {"started", "read"} => j.at <= now
    /\ j.pc = "read" => j.row.epoch <= epoch
    /\ j.pc \in {"allowed", "bound"} => Standing(j, ms, off, now, epoch)

DraftBacked ==
    case.state = "ACTION_PROPOSED" =>
      \A x \in drafted : \A f \in x.facts :
        LET m == mandate[OwnerOf[f]] IN
          /\ m # None /\ m.status = "APPROVED"
          /\ f \in DOMAIN m.grants /\ m.grants[f].scope = x.scope

IInv ==
    /\ TypeOK
    /\ MandateInv
    /\ case.state = "CANDIDATE" => \A c \in Contributors : offered[c] = {}
    /\ \A k \in Compiles : JobOK(job[k], mandate, offered, clock, case.epoch)
    /\ Standing(view, mandate, offered, clock, case.epoch)
    /\ DraftBacked

(* Time passes over what stands. *)
LEMMA StandsInTime ==
    ASSUME NEW ms \in [Contributors -> Mandates \union {None}], NEW off,
           NEW now \in Nat, NEW later \in Nat, now <= later, NEW epoch,
           NEW r, r.exports \in SUBSET Exports, Standing(r, ms, off, now, epoch)
    PROVE  Standing(r, ms, off, later, epoch)
<1> SUFFICES ASSUME r.epoch = epoch, NEW x \in r.exports, NEW f \in x.facts
             PROVE  ms[OwnerOf[f]].from <= later
  BY DEF Standing, Backed
<1>1. f \in Facts
  BY DEF Exports
<1>2. ms[OwnerOf[f]] # None /\ ms[OwnerOf[f]].from <= now
  BY DEF Standing, Backed
<1>3. ms[OwnerOf[f]] \in Mandates
  BY <1>1, <1>2 DEF Contributors
<1> QED BY <1>2, <1>3 DEF Mandates

(* A new epoch asks nothing of what was compiled before it. *)
LEMMA StandsBehind ==
    ASSUME NEW ms, NEW off, NEW now, NEW epoch \in Nat,
           NEW ms2, NEW off2, NEW now2, NEW epoch2 \in Nat, epoch < epoch2,
           NEW r, r.exports \in SUBSET Exports, r.epoch \in Nat,
           \A c \in Contributors : off[c] \subseteq off2[c],
           Standing(r, ms, off, now, epoch)
    PROVE  Standing(r, ms2, off2, now2, epoch2)
<1>1. r.epoch < epoch2
  BY DEF Standing
<1>2. \A x \in r.exports : \A f \in x.facts : OwnerOf[f] \in Contributors
  BY DEF Exports, Contributors
<1> QED BY <1>1, <1>2 DEF Standing

LEMMA JobShape ==
    ASSUME NEW j \in Jobs
    PROVE  /\ j.pc \in {"idle", "started", "read", "allowed", "bound"}
           /\ j.pc \in {"started", "read"} => j.request \in Requests /\ j.at \in Nat
           /\ j.pc = "read" => j.row \in CaseRows
           /\ j.pc \in {"allowed", "bound"} =>
                /\ j.version \in Nat /\ j.epoch \in Nat /\ j.expires \in Nat
                /\ j.exports \in SUBSET Exports
           /\ j.pc = "bound" => j.row \in Nat
BY DEF Jobs, Idle

LEMMA JobInTime ==
    ASSUME NEW ms \in [Contributors -> Mandates \union {None}], NEW off,
           NEW now \in Nat, NEW later \in Nat, now <= later, NEW epoch,
           NEW j \in Jobs, JobOK(j, ms, off, now, epoch)
    PROVE  JobOK(j, ms, off, later, epoch)
<1>1. j.pc \in {"allowed", "bound"} => Standing(j, ms, off, later, epoch)
  BY StandsInTime, JobShape DEF JobOK
<1>2. j.pc \in {"started", "read"} => j.at <= later
  BY JobShape DEF JobOK
<1> QED BY <1>1, <1>2 DEF JobOK

LEMMA JobBehind ==
    ASSUME NEW ms, NEW off, NEW now, NEW epoch \in Nat,
           NEW ms2, NEW off2, NEW epoch2 \in Nat, epoch < epoch2,
           \A c \in Contributors : off[c] \subseteq off2[c],
           NEW j \in Jobs, JobOK(j, ms, off, now, epoch)
    PROVE  JobOK(j, ms2, off2, now, epoch2)
<1>1. j.pc \in {"allowed", "bound"} => Standing(j, ms2, off2, now, epoch2)
  BY StandsBehind, JobShape DEF JobOK
<1>2. j.pc = "read" => j.row.epoch <= epoch2
  BY JobShape DEF JobOK, CaseRows
<1> QED BY <1>1, <1>2 DEF JobOK

(* A command that moves the epoch leaves what was compiled behind. *)
LEMMA EpochMoves ==
    ASSUME IInv, case'.epoch = case.epoch + 1,
           UNCHANGED <<clock, job, view>>,
           \A c \in Contributors : offered[c] \subseteq offered'[c]
    PROVE  /\ \A k \in Compiles : JobOK(job'[k], mandate', offered', clock', case'.epoch)
           /\ Standing(view', mandate', offered', clock', case'.epoch)
<1>1. case.epoch \in Nat /\ case.epoch + 1 \in Nat /\ case.epoch < case.epoch + 1
  BY DEF IInv, TypeOK, CaseRows
<1>2. \A k \in Compiles : JobOK(job[k], mandate', offered', clock, case.epoch + 1)
  BY <1>1, JobBehind DEF IInv, TypeOK
<1>3. view.exports \in SUBSET Exports /\ view.epoch \in Nat
  BY DEF IInv, TypeOK, Views
<1>4. Standing(view, mandate', offered', clock, case.epoch + 1)
  BY <1>1, <1>3, StandsBehind DEF IInv
<1> QED BY <1>2, <1>4

LEMMA InitOK == ASSUME Init PROVE IInv
<1>1. TypeOK
  <2>1. case \in CaseRows
    BY DisclosureAssumption DEF Init, CaseRows, States
  <2>2. job \in [Compiles -> Jobs]
    BY DEF Init, Jobs
  <2>3. view \in Views /\ view.epoch <= case.epoch
    BY DEF Init, Views, NoView
  <2>4. clock \in 0 .. Horizon
    BY DisclosureAssumption DEF Init
  <2> QED BY <2>1, <2>2, <2>3, <2>4 DEF Init, TypeOK
<1>2. \A k \in Compiles : JobOK(job[k], mandate, offered, clock, case.epoch)
  BY DEF Init, JobOK, Idle
<1>3. Standing(view, mandate, offered, clock, case.epoch)
  BY DEF Init, NoView, Standing, Backed
<1> QED BY <1>1, <1>2, <1>3 DEF Init, IInv, MandateInv, DraftBacked

(* What the moves of the case make of its row.                              *)
Bumped(r, s, v, e) == [r EXCEPT !.state = s, !.version = v, !.epoch = e]
Moved(r, s, v) == [r EXCEPT !.state = s, !.version = v]

LEMMA AuthorityRow ==
    ASSUME NEW r \in CaseRows, NEW s \in States, NEW v \in Nat, NEW e \in Nat
    PROVE  /\ Bumped(r, s, v, e) \in CaseRows
           /\ Bumped(r, s, v, e).state = s /\ Bumped(r, s, v, e).epoch = e
<1>1. Bumped(r, s, v, e) \in CaseRows
  BY DEF CaseRows, Bumped
<1>2. Bumped(r, s, v, e).state = s /\ Bumped(r, s, v, e).epoch = e
  BY DEF CaseRows, Bumped
<1> QED BY <1>1, <1>2

LEMMA LifecycleRow ==
    ASSUME NEW r \in CaseRows, NEW s \in States, NEW v \in Nat
    PROVE  /\ Moved(r, s, v) \in CaseRows
           /\ Moved(r, s, v).state = s /\ Moved(r, s, v).epoch = r.epoch
<1>1. Moved(r, s, v) \in CaseRows
  BY DEF CaseRows, Moved
<1>2. Moved(r, s, v).state = s
  BY DEF CaseRows, Moved
<1>3. Moved(r, s, v).epoch = r.epoch
  BY DEF CaseRows, Moved
<1> QED BY <1>1, <1>2, <1>3

LEMMA CaseTyped ==
    ASSUME TypeOK, NEW s \in States
    PROVE  /\ MoveAuthority(s) => /\ case' \in CaseRows /\ case'.state = s
                                  /\ case'.epoch = case.epoch + 1
           /\ \A f \in States : MoveLifecycle(f, s) =>
                /\ case' \in CaseRows /\ case.state = f /\ case'.state = s
                /\ case'.epoch = case.epoch
<1>1. case \in CaseRows /\ case.version \in Nat /\ case.epoch \in Nat
  BY DEF TypeOK, CaseRows
<1>2. ASSUME MoveAuthority(s)
      PROVE  case' \in CaseRows /\ case'.state = s /\ case'.epoch = case.epoch + 1
  <2>1. case' = Bumped(case, s, case.version + 1, case.epoch + 1)
    BY <1>2, Zenon DEF MoveAuthority, Bumped
  <2>2. case.version + 1 \in Nat /\ case.epoch + 1 \in Nat
    BY <1>1
  <2>3. Bumped(case, s, case.version + 1, case.epoch + 1) \in CaseRows
          /\ Bumped(case, s, case.version + 1, case.epoch + 1).state = s
          /\ Bumped(case, s, case.version + 1, case.epoch + 1).epoch = case.epoch + 1
    <3> DEFINE v == case.version + 1
               e == case.epoch + 1
    <3>1. v \in Nat /\ e \in Nat
      BY <2>2
    <3> HIDE DEF v, e
    <3>2. Bumped(case, s, v, e) \in CaseRows /\ Bumped(case, s, v, e).state = s
            /\ Bumped(case, s, v, e).epoch = e
      BY <1>1, <3>1, AuthorityRow
    <3> QED BY <3>2 DEF v, e
  <2> QED BY <2>1, <2>3
<1>3. ASSUME NEW f \in States, MoveLifecycle(f, s)
      PROVE  /\ case' \in CaseRows /\ case.state = f /\ case'.state = s
             /\ case'.epoch = case.epoch
  <2>1. case.state = f /\ case' = Moved(case, s, case.version + 1)
    BY <1>3, Zenon DEF MoveLifecycle, Moved
  <2>2. case.version + 1 \in Nat
    BY <1>1
  <2> QED BY <1>1, <2>1, <2>2, LifecycleRow
<1> QED BY <1>2, <1>3

LEMMA PolicyTyped ==
    /\ Scopes \in SUBSET Scopes
    /\ \A f : ProposedScope(f) \in Scopes
    /\ "ANONYMOUS_CASE" \in Permits[IdentityCeiling] /\ "ANONYMOUS_CASE" \in Scopes
BY DEF ProposedScope, Scopes, Permits, IdentityCeiling

LEMMA ProposeMandatesOK == ASSUME IInv, ProposeMandates PROVE IInv'
<1>1. /\ case' \in CaseRows /\ case'.state = "AWAITING_MANDATES"
      /\ case'.epoch = case.epoch + 1
  BY CaseTyped DEF ProposeMandates, IInv, States
<1>2. ASSUME NEW c \in Contributors, OwnedBy(c) # {}
      PROVE  /\ mandate'[c] \in Mandates /\ mandate'[c] # None
             /\ mandate'[c].status = "PROPOSED" /\ mandate'[c].identity = "ANONYMOUS_CASE"
             /\ DOMAIN mandate'[c].grants = OwnedBy(c)
  <2> DEFINE g == [f \in OwnedBy(c) |-> [scope |-> ProposedScope(f),
                                         transform |-> ProposedScope(f) # "INTERNAL_ONLY"]]
             m == [status |-> "PROPOSED", version |-> 1, from |-> clock, expires |-> None,
                   identity |-> "ANONYMOUS_CASE", grants |-> g]
  <2>1. OwnedBy(c) \in SUBSET Facts
    BY DEF IInv, TypeOK, CaseRows, OwnedBy
  <2>2. g \in [OwnedBy(c) -> [scope : Scopes, transform : BOOLEAN]]
    BY PolicyTyped
  <2>3. g \in Grants /\ DOMAIN g = OwnedBy(c)
    BY <2>1, <2>2 DEF Grants
  <2>4. clock \in Nat
    BY DisclosureAssumption DEF IInv, TypeOK
  <2>5. mandate'[c] = m
    BY <1>2 DEF ProposeMandates
  <2> HIDE DEF g
  <2>6. m \in Mandates
    BY <2>3, <2>4, PolicyTyped DEF Mandates
  <2> QED BY <2>3, <2>5, <2>6, DisclosureAssumption
<1>3. \A c \in Contributors : OwnedBy(c) = {} => mandate'[c] = None
  BY DEF ProposeMandates
<1>4. /\ mandate' \in [Contributors -> Mandates \union {None}]
      /\ offered' \in [Contributors -> SUBSET Facts]
      /\ \A c \in Contributors : offered'[c] = OwnedBy(c)
  <2>1. DOMAIN mandate' = Contributors
    BY DEF ProposeMandates
  <2>2. mandate' = [c \in Contributors |-> mandate'[c]]
    BY DEF ProposeMandates
  <2>3. \A c \in Contributors : OwnedBy(c) \in SUBSET Facts
    BY DEF IInv, TypeOK, CaseRows, OwnedBy
  <2> QED BY <1>2, <1>3, <2>1, <2>2, <2>3 DEF ProposeMandates
<1>5. TypeOK'
  <2>1. view.epoch <= case'.epoch
    BY <1>1 DEF IInv, TypeOK, CaseRows, Views
  <2>2. ASSUME NEW c \in Contributors
        PROVE  /\ offered'[c] # {} <=> mandate'[c] # None
               /\ mandate'[c] # None /\ mandate'[c].status \in {"REFUSED", "REVOKED"}
                    => DOMAIN mandate'[c].grants = {}
    BY <1>2, <1>3, <1>4
  <2> QED BY <1>1, <1>4, <2>1, <2>2 DEF IInv, TypeOK, ProposeMandates
<1>6. MandateInv'
  BY <1>2, <1>3, <1>4, PolicyTyped DEF MandateInv
<1>7. \A c \in Contributors : offered[c] \subseteq offered'[c]
  BY DEF IInv, ProposeMandates
<1>8. /\ \A k \in Compiles : JobOK(job'[k], mandate', offered', clock', case'.epoch)
      /\ Standing(view', mandate', offered', clock', case'.epoch)
  BY <1>1, <1>7, EpochMoves DEF ProposeMandates
<1> QED BY <1>1, <1>5, <1>6, <1>8 DEF IInv, DraftBacked

LEMMA CarriedTyped ==
    ASSUME NEW m \in Mandates, NEW d \in DOMAIN Decided, NEW t \in Carried(m, d)
    PROVE  t.grants \in Grants /\ t.identity \in Scopes /\ t.expires \in Nat \union {None}
<1>1. CASE d = "APPROVE"
  BY <1>1 DEF Carried, Mandates
<1>2. CASE d = "ADJUST"
  BY <1>2, DisclosureAssumption DEF Carried
<1>3. CASE d # "APPROVE" /\ d # "ADJUST"
  <2>1. t = [grants |-> << >>, identity |-> "ANONYMOUS_CASE", expires |-> None]
    BY <1>3 DEF Carried
  <2>2. << >> \in [{} -> [scope : Scopes, transform : BOOLEAN]]
    OBVIOUS
  <2>3. << >> \in Grants
    BY <2>2 DEF Grants
  <2> QED BY <2>1, <2>3, PolicyTyped
<1> QED BY <1>1, <1>2, <1>3

(* What a decision makes of a mandate.                                      *)
Statuses == {"PROPOSED", "APPROVED", "REFUSED", "REVOKED"}

Redecided(m, status, version, t, expires) ==
    [m EXCEPT !.status = status, !.version = version, !.grants = t.grants,
              !.identity = t.identity, !.expires = expires]

LEMMA RedecidedFields ==
    ASSUME NEW m \in Mandates, NEW status \in Statuses, NEW version \in Nat, NEW t, t.grants \in Grants, t.identity \in Scopes,
           NEW expires \in Nat \union {None}
    PROVE  /\ Redecided(m, status, version, t, expires) \in Mandates
           /\ Redecided(m, status, version, t, expires).status = status
           /\ Redecided(m, status, version, t, expires).grants = t.grants
           /\ Redecided(m, status, version, t, expires).identity = t.identity
<1> DEFINE n == Redecided(m, status, version, t, expires)
<1>1. n \in Mandates
  BY DEF Redecided, Mandates, Statuses
<1>2. n.status = status
  BY DEF Redecided, Mandates, Statuses
<1>3. n.grants = t.grants
  BY DEF Redecided, Mandates, Statuses
<1>4. n.identity = t.identity
  BY DEF Redecided, Mandates, Statuses
<1> QED BY <1>1, <1>2, <1>3, <1>4

LEMMA DecideMandateOK ==
    ASSUME IInv, NEW c \in Contributors, NEW d \in DOMAIN Decided, DecideMandate(c, d)
    PROVE  IInv'
<1> DEFINE m == mandate[c]
<1>1. PICK now \in 0 .. clock :
        /\ m # None
        /\ <<m.status, d>> \in Edges
        /\ \E t \in Carried(m, d) :
             /\ WithinPolicy(c, t, now)
             /\ mandate' = [mandate EXCEPT ![c] =
                              [m EXCEPT !.status = Decided[d], !.version = m.version + 1,
                                        !.grants = t.grants, !.identity = t.identity,
                                        !.expires = IF d \in {"REFUSE", "REVOKE"}
                                                    THEN m.expires ELSE t.expires]]
             /\ MoveAuthority(Reconciled(d, m.grants, t.grants))
             /\ drafted' = IF case'.state = "INVESTIGATING" THEN {} ELSE drafted
        /\ UNCHANGED <<clock, offered, fence, job, view>>
  BY Zenon DEF DecideMandate
<1>2. PICK t \in Carried(m, d) :
        /\ WithinPolicy(c, t, now)
        /\ mandate' = [mandate EXCEPT ![c] =
                         [m EXCEPT !.status = Decided[d], !.version = m.version + 1,
                                   !.grants = t.grants, !.identity = t.identity,
                                   !.expires = IF d \in {"REFUSE", "REVOKE"}
                                               THEN m.expires ELSE t.expires]]
        /\ MoveAuthority(Reconciled(d, m.grants, t.grants))
        /\ drafted' = IF case'.state = "INVESTIGATING" THEN {} ELSE drafted
  BY <1>1
<1>3. m \in Mandates
  BY <1>1 DEF IInv, TypeOK
<1>4. t.grants \in Grants /\ t.identity \in Scopes /\ t.expires \in Nat \union {None}
  BY <1>3, CarriedTyped
<1> DEFINE until == IF d \in {"REFUSE", "REVOKE"} THEN m.expires ELSE t.expires
           status == Decided[d]
           version == m.version + 1
           n == Redecided(m, status, version, t, until)
           s == Reconciled(d, m.grants, t.grants)
<1>5. /\ n \in Mandates /\ n.status = Decided[d]
      /\ n.grants = t.grants /\ n.identity = t.identity
  <2>1. status \in Statuses
    BY DEF Decided, Statuses
  <2>2. version \in Nat /\ until \in Nat \union {None}
    BY <1>3, <1>4 DEF Mandates
  <2> HIDE DEF until, m, status, version
  <2>3. Redecided(m, status, version, t, until) \in Mandates
    BY <1>3, <1>4, <2>1, <2>2, RedecidedFields
  <2>4. Redecided(m, status, version, t, until).status = status
    BY <1>3, <1>4, <2>1, <2>2, RedecidedFields
  <2>5. Redecided(m, status, version, t, until).grants = t.grants
    BY <1>3, <1>4, <2>1, <2>2, RedecidedFields
  <2>6. Redecided(m, status, version, t, until).identity = t.identity
    BY <1>3, <1>4, <2>1, <2>2, RedecidedFields
  <2> QED BY <2>3, <2>4, <2>5, <2>6 DEF status
<1>6. mandate' = [mandate EXCEPT ![c] = n]
  BY <1>2, Zenon DEF Redecided
<1>7. s \in States /\ case' \in CaseRows /\ case'.state = s /\ case'.epoch = case.epoch + 1
  <2>1. s \in States
    BY DEF IInv, TypeOK, CaseRows, Reconciled, States
  <2> HIDE DEF s
  <2>2. MoveAuthority(s)
    BY <1>2 DEF s
  <2> QED BY <2>1, <2>2, CaseTyped DEF IInv
<1> HIDE DEF n
<1>8. mandate' \in [Contributors -> Mandates \union {None}]
  BY <1>5, <1>6 DEF IInv, TypeOK
<1>9. mandate'[c] = n /\ \A b \in Contributors : b # c => mandate'[b] = mandate[b]
  BY <1>6 DEF IInv, TypeOK
<1>10. n # None /\ offered[c] # {}
  BY <1>1, <1>5, DisclosureAssumption DEF IInv, TypeOK
<1>11. n.status \in {"REFUSED", "REVOKED"} => DOMAIN n.grants = {}
  <2>1. SUFFICES ASSUME Decided[d] \in {"REFUSED", "REVOKED"} PROVE DOMAIN t.grants = {}
    BY <1>5
  <2>2. d # "APPROVE" /\ d # "ADJUST"
    BY <2>1 DEF Decided
  <2>3. t.grants = << >>
    BY <2>2 DEF Carried
  <2> QED BY <2>3
<1>12. TypeOK'
  <2>1. view.epoch <= case'.epoch
    BY <1>7 DEF IInv, TypeOK, CaseRows, Views
  <2>2. drafted' \in SUBSET Exports
    BY <1>2 DEF IInv, TypeOK
  <2>3. ASSUME NEW b \in Contributors
        PROVE  /\ offered[b] # {} <=> mandate'[b] # None
               /\ mandate'[b] # None /\ mandate'[b].status \in {"REFUSED", "REVOKED"}
                    => DOMAIN mandate'[b].grants = {}
    BY <1>9, <1>10, <1>11 DEF IInv, TypeOK
  <2> QED BY <1>1, <1>7, <1>8, <2>1, <2>2, <2>3 DEF IInv, TypeOK
<1>13. MandateInv'
  <2>1. n.identity \in Permits[IdentityCeiling] /\ DOMAIN n.grants \subseteq offered[c]
    BY <1>2, <1>5 DEF WithinPolicy, Offered
  <2> QED BY <1>1, <1>9, <2>1 DEF IInv, MandateInv
<1>14. /\ \A k \in Compiles : JobOK(job'[k], mandate', offered', clock', case'.epoch)
       /\ Standing(view', mandate', offered', clock', case'.epoch)
  BY <1>1, <1>7, EpochMoves
<1>15. DraftBacked'
  <2> SUFFICES ASSUME case'.state = "ACTION_PROPOSED", NEW x \in drafted', NEW f \in x.facts
               PROVE  /\ mandate'[OwnerOf[f]] # None /\ mandate'[OwnerOf[f]].status = "APPROVED"
                      /\ f \in DOMAIN mandate'[OwnerOf[f]].grants
                      /\ mandate'[OwnerOf[f]].grants[f].scope = x.scope
    BY DEF DraftBacked
  <2>1. x \in drafted
    BY <1>2
  <2>2. case.state = "ACTION_PROPOSED" /\ ~ Withdraws(d, m.grants, t.grants)
    BY <1>7 DEF Reconciled
  <2>3. LET p == mandate[OwnerOf[f]] IN
          p # None /\ p.status = "APPROVED" /\ f \in DOMAIN p.grants /\ p.grants[f].scope = x.scope
    BY <2>1, <2>2 DEF IInv, DraftBacked
  <2>4. OwnerOf[f] \in Contributors
    BY <2>1 DEF IInv, TypeOK, Exports, Contributors
  <2>5. CASE OwnerOf[f] # c
    BY <1>9, <2>3, <2>4, <2>5
  <2>6. CASE OwnerOf[f] = c
    <3>1. d \in {"APPROVE", "ADJUST"} /\ Decided[d] = "APPROVED"
      BY <2>2 DEF Withdraws, Decided
    <3>2. d = "APPROVE" => t.grants = m.grants
      BY DEF Carried
    <3>3. d = "ADJUST" => \A g \in DOMAIN m.grants : g \in DOMAIN t.grants /\ t.grants[g] = m.grants[g]
      BY <2>2 DEF Withdraws
    <3>4. f \in DOMAIN t.grants /\ t.grants[f] = m.grants[f]
      BY <2>3, <2>6, <3>1, <3>2, <3>3
    <3> QED BY <1>5, <1>9, <1>10, <2>3, <2>6, <3>1, <3>4
  <2> QED BY <2>5, <2>6
<1>16. case'.state # "CANDIDATE" \/ \A b \in Contributors : offered[b] = {}
  BY <1>7, <1>10 DEF Reconciled, IInv
<1> QED BY <1>1, <1>12, <1>13, <1>14, <1>15, <1>16 DEF IInv

-----------------------------------------------------------------------------
(* A compile command.                                                       *)

LEMMA JobSet ==
    ASSUME TypeOK, NEW k \in Compiles, NEW j \in Jobs, SetJob(k, j),
           UNCHANGED <<case, offered, clock, mandate>>,
           \A i \in Compiles : JobOK(job[i], mandate, offered, clock, case.epoch),
           JobOK(j, mandate, offered, clock, case.epoch)
    PROVE  /\ job' \in [Compiles -> Jobs]
           /\ \A i \in Compiles : JobOK(job'[i], mandate', offered', clock', case'.epoch)
<1>1. job' = [job EXCEPT ![k] = j]
  BY DEF SetJob
<1>2. job' \in [Compiles -> Jobs]
  BY <1>1 DEF TypeOK
<1>3. \A i \in Compiles : job'[i] = IF i = k THEN j ELSE job[i]
  BY <1>1 DEF TypeOK
<1>4. \A i \in Compiles : JobOK(job'[i], mandate, offered, clock, case.epoch)
  BY <1>3
<1> QED BY <1>2, <1>4

(* A step of a compile that writes nothing yet. *)
LEMMA JobStep ==
    ASSUME IInv, NEW k \in Compiles, NEW j \in Jobs, SetJob(k, j), UNCHANGED <<case, view>>,
           JobOK(j, mandate, offered, clock, case.epoch)
    PROVE  IInv'
<1>1. UNCHANGED <<clock, case, mandate, offered, fence, view, drafted>>
  BY DEF SetJob
<1>2. /\ job' \in [Compiles -> Jobs]
      /\ \A i \in Compiles : JobOK(job'[i], mandate', offered', clock', case'.epoch)
  BY <1>1, JobSet DEF IInv
<1>3. TypeOK'
  BY <1>1, <1>2 DEF IInv, TypeOK
<1> QED BY <1>1, <1>2, <1>3 DEF IInv, MandateInv, DraftBacked

LEMMA BeginCompileOK ==
    ASSUME IInv, NEW k \in Compiles, NEW q \in Requests, BeginCompile(k, q)
    PROVE  IInv'
<1> DEFINE j == [pc |-> "started", request |-> q, at |-> clock]
<1>1. clock \in Nat
  BY DisclosureAssumption DEF IInv, TypeOK
<1>2. j \in Jobs
  BY <1>1 DEF Jobs
<1>3. JobOK(j, mandate, offered, clock, case.epoch)
  BY <1>1 DEF JobOK
<1>4. SetJob(k, j) /\ UNCHANGED <<case, view>>
  BY DEF BeginCompile
<1> HIDE DEF j
<1> QED BY <1>2, <1>3, <1>4, JobStep

LEMMA LoadCaseOK ==
    ASSUME IInv, NEW k \in Compiles, LoadCase(k)
    PROVE  IInv'
<1> DEFINE j == [pc |-> "read", request |-> job[k].request, at |-> job[k].at, row |-> case]
<1>1. /\ job[k] \in Jobs /\ job[k].pc = "started"
      /\ JobOK(job[k], mandate, offered, clock, case.epoch)
  BY DEF IInv, TypeOK, LoadCase
<1>2. job[k].request \in Requests /\ job[k].at \in Nat /\ job[k].at <= clock
  BY <1>1, JobShape DEF JobOK
<1>3. case \in CaseRows /\ case.epoch \in Nat
  BY DEF IInv, TypeOK, CaseRows
<1>4. j \in Jobs
  BY <1>2, <1>3 DEF Jobs
<1>5. JobOK(j, mandate, offered, clock, case.epoch)
  BY <1>2, <1>3 DEF JobOK
<1>6. SetJob(k, j) /\ UNCHANGED <<case, view>>
  BY DEF LoadCase
<1> HIDE DEF j
<1> QED BY <1>4, <1>5, <1>6, JobStep

(* The mandates are read when what they allow is computed, so it is backed  *)
(* at the epoch of the case now, and at the one read if it is the same.     *)
LEMMA LoadMandatesOK ==
    ASSUME IInv, NEW k \in Compiles, LoadMandates(k)
    PROVE  IInv'
<1> DEFINE was == job[k]
           E == Included(was.request, mandate, was.at)
           until == Until(E, mandate, was.at)
           exports == Grouped(E, was.request, mandate)
           j == [pc |-> "allowed", version |-> was.row.version, epoch |-> was.row.epoch,
                 expires |-> until, exports |-> exports]
<1>1. was \in Jobs /\ was.pc = "read" /\ JobOK(was, mandate, offered, clock, case.epoch)
  BY DEF IInv, TypeOK, LoadMandates
<1>2. /\ was.request \in Requests /\ was.at \in Nat /\ was.at <= clock
      /\ was.row \in CaseRows /\ was.row.epoch <= case.epoch
  BY <1>1, JobShape DEF JobOK
<1>3. /\ until \in Nat /\ exports \in SUBSET Exports
      /\ Backed(exports, until, mandate, clock)
      /\ \A x \in exports : \A f \in x.facts : f \in offered[OwnerOf[f]]
  BY <1>2, CompiledIsBacked DEF IInv
<1>4. (SetJob(k, j) \/ SetJob(k, Idle)) /\ UNCHANGED <<case, view>>
  BY DEF LoadMandates
<1> HIDE DEF until, exports, was
<1>5. CASE SetJob(k, j)
  <2>1. was.row.version \in Nat /\ was.row.epoch \in Nat
    BY <1>2 DEF CaseRows
  <2>2. j \in Jobs
    BY <1>3, <2>1 DEF Jobs
  <2>3. JobOK(j, mandate, offered, clock, case.epoch)
    BY <1>2, <1>3 DEF JobOK, Standing
  <2> HIDE DEF j
  <2> QED BY <1>4, <1>5, <2>2, <2>3, JobStep
<1>6. CASE SetJob(k, Idle)
  <2>1. Idle \in Jobs /\ JobOK(Idle, mandate, offered, clock, case.epoch)
    BY DEF Jobs, Idle, JobOK
  <2> QED BY <1>4, <1>6, <2>1, JobStep
<1> QED BY <1>4, <1>5, <1>6

LEMMA BindPointerOK ==
    ASSUME IInv, NEW k \in Compiles, BindPointer(k)
    PROVE  IInv'
<1> DEFINE was == job[k]
           j == [pc |-> "bound", version |-> was.version, epoch |-> was.epoch,
                 expires |-> was.expires, exports |-> was.exports, row |-> view.row]
<1>1. was \in Jobs /\ was.pc = "allowed" /\ JobOK(was, mandate, offered, clock, case.epoch)
  BY DEF IInv, TypeOK, BindPointer
<1>2. SetJob(k, j) /\ UNCHANGED <<case, view>>
  BY DEF BindPointer
<1>3. view.row \in Nat
  BY DEF IInv, TypeOK, Views
<1> HIDE DEF was
<1>4. /\ was.version \in Nat /\ was.epoch \in Nat /\ was.expires \in Nat
      /\ was.exports \in SUBSET Exports
  BY <1>1, JobShape
<1>5. j \in Jobs
  BY <1>3, <1>4 DEF Jobs
<1>6. Standing(was, mandate, offered, clock, case.epoch)
  BY <1>1 DEF JobOK
<1>7. Standing(j, mandate, offered, clock, case.epoch)
  BY <1>6 DEF Standing
<1>8. JobOK(j, mandate, offered, clock, case.epoch)
  BY <1>7 DEF JobOK
<1> HIDE DEF j
<1> QED BY <1>2, <1>5, <1>8, JobStep

LEMMA CommitViewOK ==
    ASSUME IInv, NEW k \in Compiles, CommitView(k)
    PROVE  IInv'
<1> DEFINE was == job[k]
           new == [row |-> was.row + 1, epoch |-> was.epoch, expires |-> was.expires,
                   exports |-> was.exports]
<1>1. was \in Jobs /\ was.pc = "bound" /\ JobOK(was, mandate, offered, clock, case.epoch)
  BY DEF IInv, TypeOK, CommitView
<1>2. SetJob(k, Idle) /\ UNCHANGED case /\ (view' = view \/ (CaseUnmoved(was) /\ view' = new))
  BY DEF CommitView
<1> HIDE DEF was
<1>3. /\ was.epoch \in Nat /\ was.expires \in Nat /\ was.exports \in SUBSET Exports
      /\ was.row \in Nat
  BY <1>1, JobShape
<1>4. Standing(was, mandate, offered, clock, case.epoch)
  BY <1>1 DEF JobOK
<1>5. UNCHANGED <<clock, case, mandate, offered, fence, drafted>>
  BY <1>2 DEF SetJob
<1>6. /\ job' \in [Compiles -> Jobs]
      /\ \A i \in Compiles : JobOK(job'[i], mandate', offered', clock', case'.epoch)
  <2>1. Idle \in Jobs /\ JobOK(Idle, mandate, offered, clock, case.epoch)
    BY DEF Jobs, Idle, JobOK
  <2> QED BY <1>2, <1>5, <2>1, JobSet DEF IInv
<1>7. /\ view' \in Views /\ view'.epoch <= case.epoch
      /\ Standing(view', mandate, offered, clock, case.epoch)
  <2>1. CASE view' = view
    BY <2>1 DEF IInv, TypeOK
  <2>2. CASE CaseUnmoved(was) /\ view' = new
    <3>1. new \in Views /\ new.epoch = was.epoch
      BY <1>3 DEF Views
    <3>2. new.epoch <= case.epoch
      BY <1>4 DEF Standing
    <3>3. Standing(new, mandate, offered, clock, case.epoch)
      BY <1>4 DEF Standing
    <3> HIDE DEF new
    <3> QED BY <2>2, <3>1, <3>2, <3>3
  <2> QED BY <1>2, <2>1, <2>2
<1>8. TypeOK'
  BY <1>5, <1>6, <1>7 DEF IInv, TypeOK
<1>9. Standing(view', mandate', offered', clock', case'.epoch)
  BY <1>5, <1>7
<1> QED BY <1>5, <1>6, <1>8, <1>9 DEF IInv, MandateInv, DraftBacked

-----------------------------------------------------------------------------
(* The rest of the case.                                                    *)

(* A command that moves the epoch and opens no message. *)
LEMMA EpochStep ==
    ASSUME IInv, case' \in CaseRows, case'.epoch = case.epoch + 1,
           case'.state = "ACTION_PROPOSED" => case.state = "ACTION_PROPOSED",
           case'.state = "CANDIDATE" => case.state = "CANDIDATE",
           UNCHANGED <<clock, mandate, offered, fence, job, view, drafted>>
    PROVE  IInv'
<1>1. /\ \A k \in Compiles : JobOK(job'[k], mandate', offered', clock', case'.epoch)
      /\ Standing(view', mandate', offered', clock', case'.epoch)
  BY EpochMoves
<1>2. view'.epoch <= case'.epoch
  BY <1>1 DEF Standing
<1>3. TypeOK'
  BY <1>2 DEF IInv, TypeOK
<1>4. MandateInv' /\ DraftBacked'
  BY DEF IInv, MandateInv, DraftBacked
<1> QED BY <1>1, <1>3, <1>4 DEF IInv

(* One that moves the version alone, or nothing of the case. *)
LEMMA VersionStep ==
    ASSUME IInv, case' \in CaseRows, case'.epoch = case.epoch,
           case'.state = "CANDIDATE" => case.state = "CANDIDATE",
           UNCHANGED <<clock, mandate, offered, job, view>>,
           fence' \in BOOLEAN, drafted' \in SUBSET Exports, DraftBacked'
    PROVE  IInv'
<1>1. TypeOK'
  BY DEF IInv, TypeOK
<1> QED BY <1>1 DEF IInv, MandateInv

(* The rows that LinkFact and Investigate write. *)
Linked(r, facts, v, e) == [r EXCEPT !.facts = facts, !.version = v, !.epoch = e]

LEMMA LinkedRow ==
    ASSUME NEW r \in CaseRows, NEW facts \in SUBSET Facts, NEW v \in Nat, NEW e \in Nat
    PROVE  /\ Linked(r, facts, v, e) \in CaseRows
           /\ Linked(r, facts, v, e).state = r.state /\ Linked(r, facts, v, e).epoch = e
<1>1. Linked(r, facts, v, e) \in CaseRows
  BY DEF CaseRows, Linked
<1>2. Linked(r, facts, v, e).state = r.state
  BY DEF CaseRows, Linked
<1>3. Linked(r, facts, v, e).epoch = e
  BY DEF CaseRows, Linked
<1> QED BY <1>1, <1>2, <1>3

LEMMA LinkFactOK ==
    ASSUME IInv, NEW f \in Facts, LinkFact(f)
    PROVE  IInv'
<1> DEFINE facts == case.facts \union {f}
           v == case.version + 1
           e == case.epoch + 1
<1>1. case \in CaseRows /\ facts \in SUBSET Facts /\ v \in Nat /\ e \in Nat
  BY DEF IInv, TypeOK, CaseRows
<1>2. case' = Linked(case, facts, v, e)
  BY Zenon DEF LinkFact, Linked
<1> HIDE DEF facts, v, e
<1>3. case' \in CaseRows /\ case'.state = case.state /\ case'.epoch = e
  BY <1>1, <1>2, LinkedRow
<1>4. UNCHANGED <<clock, mandate, offered, fence, job, view, drafted>>
  BY DEF LinkFact
<1> QED BY <1>3, <1>4, EpochStep DEF e

Recorded(r, sources) == [r EXCEPT !.sources = sources]

LEMMA RecordedRow ==
    ASSUME NEW r \in CaseRows, NEW sources \in Nat
    PROVE  Recorded(r, sources) \in CaseRows
BY DEF CaseRows, Recorded

(* The preflight compile decides between two states, neither of which opens *)
(* a message.                                                               *)
LEMMA InvestigateOK ==
    ASSUME IInv, NEW agrees \in BOOLEAN, Investigate(agrees)
    PROVE  IInv'
<1> DEFINE sources == IndependentSources(case.facts)
           row == Recorded(case, sources)
           ready == agrees /\ sources >= 2 /\ Allowed(Preflight, row, mandate, clock)
           state == CASE case.state = "INVESTIGATING" /\ ready -> "READY_FOR_ACTION"
                      [] case.state = "READY_FOR_ACTION" /\ ~ready -> "INVESTIGATING"
                      [] OTHER -> case.state
           v == case.version + 1
           e == case.epoch + 1
<1>1. case \in CaseRows /\ case.state \in States /\ v \in Nat /\ e \in Nat
  BY DEF IInv, TypeOK, CaseRows
<1>2. /\ case.state # "CANDIDATE"
      /\ case' = [row EXCEPT !.state = state, !.version = row.version + 1,
                             !.epoch = row.epoch + 1]
      /\ UNCHANGED <<clock, mandate, offered, fence, job, view, drafted>>
  BY Zenon DEF Investigate, Recorded
<1>3. sources \in Nat
  BY <1>1, SourcesCounted DEF CaseRows
<1>4. row \in CaseRows
  BY <1>1, <1>3, RecordedRow
<1>5. row.version = case.version /\ row.epoch = case.epoch
  BY <1>1 DEF Recorded, CaseRows
<1>6. /\ state \in States
      /\ state = "ACTION_PROPOSED" => case.state = "ACTION_PROPOSED"
      /\ state = "CANDIDATE" => case.state = "CANDIDATE"
  <2> HIDE DEF ready
  <2> QED BY <1>1 DEF States
<1> HIDE DEF state, row, sources
<1>7. case' = Bumped(row, state, v, e)
  BY <1>2, <1>5 DEF Bumped
<1> HIDE DEF v, e
<1>8. case' \in CaseRows /\ case'.state = state /\ case'.epoch = e
  BY <1>1, <1>4, <1>6, <1>7, AuthorityRow
<1> QED BY <1>2, <1>6, <1>8, EpochStep DEF e

(* A draft is written from a view of the present epoch, which is backed. *)
LEMMA ProposeActionOK ==
    ASSUME IInv, ProposeAction
    PROVE  IInv'
<1>1. /\ case' \in CaseRows /\ case.state = "READY_FOR_ACTION"
      /\ case'.state = "ACTION_PROPOSED" /\ case'.epoch = case.epoch
  BY CaseTyped DEF ProposeAction, IInv, States
<1>2. /\ view.epoch = case.epoch /\ drafted' = view.exports
      /\ UNCHANGED <<clock, mandate, offered, fence, job, view>>
  BY DEF ProposeAction, AuthorityStands
<1>3. Backed(view.exports, view.expires, mandate, clock)
  BY <1>2 DEF IInv, Standing
<1>4. view.exports \in SUBSET Exports /\ fence \in BOOLEAN
  BY DEF IInv, TypeOK, Views
<1>5. DraftBacked'
  <2> SUFFICES ASSUME NEW x \in view.exports, NEW f \in x.facts
               PROVE  LET m == mandate[OwnerOf[f]] IN
                        /\ m # None /\ m.status = "APPROVED"
                        /\ f \in DOMAIN m.grants /\ m.grants[f].scope = x.scope
    BY <1>2 DEF DraftBacked
  <2> DEFINE m == mandate[OwnerOf[f]]
  <2>1. /\ m # None /\ m.status = "APPROVED" /\ f \in DOMAIN m.grants
        /\ m.grants[f] = [scope |-> x.scope, transform |-> TRUE]
    BY <1>3 DEF Backed
  <2> HIDE DEF m
  <2>2. m.grants[f].scope = x.scope
    BY <2>1
  <2> QED BY <2>1, <2>2 DEF m
<1> QED BY <1>1, <1>2, <1>4, <1>5, VersionStep

LEMMA ClearProposalOK ==
    ASSUME IInv, ClearProposal
    PROVE  IInv'
<1>1. case' \in CaseRows /\ case'.epoch = case.epoch /\ case'.state # "CANDIDATE"
  <2>1. CASE MoveLifecycle("ACTION_PROPOSED", "READY_FOR_ACTION")
    BY <2>1, CaseTyped DEF IInv, States
  <2>2. CASE case.state = "ACTION_PROPOSED" /\ UNCHANGED case
    BY <2>2 DEF IInv, TypeOK
  <2> QED BY <2>1, <2>2 DEF ClearProposal
<1>2. drafted' = {} /\ UNCHANGED <<clock, mandate, offered, fence, job, view>>
  BY DEF ClearProposal
<1>3. DraftBacked'
  BY <1>2 DEF DraftBacked
<1>4. fence' \in BOOLEAN /\ drafted' \in SUBSET Exports
  BY <1>2 DEF IInv, TypeOK
<1> QED BY <1>1, <1>2, <1>3, <1>4, VersionStep

LEMMA FenceOK ==
    ASSUME IInv, TakeFence \/ EndFence
    PROVE  IInv'
<1>1. UNCHANGED <<clock, case, mandate, offered, job, view, drafted>> /\ fence' \in BOOLEAN
  BY DEF TakeFence, EndFence
<1>2. DraftBacked'
  BY <1>1 DEF IInv, DraftBacked
<1>3. case' \in CaseRows /\ drafted' \in SUBSET Exports
  BY <1>1 DEF IInv, TypeOK
<1> QED BY <1>1, <1>2, <1>3, VersionStep

LEMMA FollowUpOK ==
    ASSUME IInv, FollowUp
    PROVE  IInv'
<1>1. case' \in CaseRows /\ case'.epoch = case.epoch /\ case'.state # "CANDIDATE"
  <2>1. PICK from \in States, to \in States \ {"CANDIDATE"} : MoveLifecycle(from, to)
    BY DEF FollowUp, States
  <2> QED BY <2>1, CaseTyped DEF IInv
<1>2. drafted' = {} /\ UNCHANGED <<clock, mandate, offered, fence, job, view>>
  BY DEF FollowUp
<1>3. DraftBacked'
  BY <1>2 DEF DraftBacked
<1>4. fence' \in BOOLEAN /\ drafted' \in SUBSET Exports
  BY <1>2 DEF IInv, TypeOK
<1> QED BY <1>1, <1>2, <1>3, <1>4, VersionStep

LEMMA TickOK ==
    ASSUME IInv, Tick
    PROVE  IInv'
<1>1. /\ clock \in Nat /\ clock' \in Nat /\ clock <= clock' /\ clock' \in 0 .. Horizon
      /\ UNCHANGED <<case, mandate, offered, fence, job, view, drafted>>
  BY DisclosureAssumption DEF IInv, TypeOK, Tick
<1>2. mandate \in [Contributors -> Mandates \union {None}]
  BY DEF IInv, TypeOK
<1>3. \A k \in Compiles : JobOK(job[k], mandate, offered, clock', case.epoch)
  BY <1>1, <1>2, JobInTime DEF IInv, TypeOK
<1>4. Standing(view, mandate, offered, clock', case.epoch)
  <2>1. view.exports \in SUBSET Exports
    BY DEF IInv, TypeOK, Views
  <2> QED BY <1>1, <1>2, <2>1, StandsInTime DEF IInv
<1>5. TypeOK'
  BY <1>1 DEF IInv, TypeOK
<1> QED BY <1>1, <1>3, <1>4, <1>5 DEF IInv, MandateInv, DraftBacked

-----------------------------------------------------------------------------
(* The invariant, and what it says of views and drafts.                     *)

LEMMA NextOK == ASSUME IInv, [Next]_vars PROVE IInv'
<1>1. CASE ProposeMandates
  BY <1>1, ProposeMandatesOK
<1>2. ASSUME NEW c \in Contributors, NEW d \in DOMAIN Decided, DecideMandate(c, d) PROVE IInv'
  BY <1>2, DecideMandateOK
<1>3. ASSUME NEW k \in Compiles, NEW q \in Requests, BeginCompile(k, q) PROVE IInv'
  BY <1>3, BeginCompileOK
<1>4. ASSUME NEW k \in Compiles,
             LoadCase(k) \/ LoadMandates(k) \/ BindPointer(k) \/ CommitView(k)
      PROVE  IInv'
  BY <1>4, LoadCaseOK, LoadMandatesOK, BindPointerOK, CommitViewOK
<1>5. ASSUME NEW f \in Facts, LinkFact(f) PROVE IInv'
  BY <1>5, LinkFactOK
<1>6. ASSUME NEW agrees \in BOOLEAN, Investigate(agrees) PROVE IInv'
  BY <1>6, InvestigateOK
<1>7. CASE ProposeAction \/ ClearProposal
  BY <1>7, ProposeActionOK, ClearProposalOK
<1>8. CASE TakeFence \/ EndFence \/ FollowUp \/ Tick
  BY <1>8, FenceOK, FollowUpOK, TickOK
<1>9. CASE UNCHANGED vars
  BY <1>9 DEF vars, IInv, TypeOK, MandateInv, DraftBacked
<1> QED BY <1>1, <1>2, <1>3, <1>4, <1>5, <1>6, <1>7, <1>8, <1>9 DEF Next

(* The epoch moves with every decision, fact and investigation, so whatever *)
(* was compiled at the present one is still what the mandates allow.        *)
THEOREM Inductive == Spec => []IInv
<1>1. Init => IInv
  BY InitOK
<1>2. IInv /\ [Next]_vars => IInv'
  BY NextOK
<1> QED BY <1>1, <1>2, PTL DEF Spec

(* Every reachable state is well formed, and no view is ahead of its case.  *)
THEOREM TypeCorrect == Spec => []TypeOK
<1>1. IInv => TypeOK
  BY DEF IInv
<1> QED BY <1>1, Inductive, PTL

(* A view a message may be drafted from is what the contributors allow now, *)
(* whatever was decided, linked or compiled between its reads and its use.  *)
THEOREM ViewsAuthorized == Spec => []ViewStillAuthorized
<1>1. ASSUME IInv PROVE ViewStillAuthorized
  <2> SUFFICES ASSUME AuthorityStands, NEW x \in view.exports, NEW f \in x.facts
               PROVE  LET m == mandate[OwnerOf[f]] IN
                        /\ InForce(m, clock)
                        /\ f \in DOMAIN m.grants
                        /\ m.grants[f] = [scope |-> x.scope, transform |-> TRUE]
                        /\ TypeOf[f] = "IDENTITY_ATTRIBUTE" => m.identity = "NAMED_CASE"
                        /\ x.photos # {} => x.scope = "EXTERNAL_ACTION"
    BY DEF ViewStillAuthorized
  <2> DEFINE m == mandate[OwnerOf[f]]
  <2>1. view.epoch = case.epoch /\ clock < view.expires
    BY DEF AuthorityStands
  <2>2. Backed(view.exports, view.expires, mandate, clock)
    BY <1>1, <2>1 DEF IInv, Standing
  <2>3. /\ m # None /\ m.status = "APPROVED" /\ m.from <= clock
        /\ m.expires # None => view.expires <= m.expires
        /\ f \in DOMAIN m.grants
        /\ m.grants[f] = [scope |-> x.scope, transform |-> TRUE]
        /\ TypeOf[f] = "IDENTITY_ATTRIBUTE" => m.identity = "NAMED_CASE"
        /\ x.photos # {} => x.scope = "EXTERNAL_ACTION"
    BY <2>2 DEF Backed
  <2>4. OwnerOf[f] \in Contributors
    BY <1>1 DEF IInv, TypeOK, Views, Exports, Contributors
  <2>5. m \in Mandates
    BY <1>1, <2>3, <2>4 DEF IInv, TypeOK
  <2>6. clock \in Nat /\ view.expires \in Nat
    BY <1>1, DisclosureAssumption DEF IInv, TypeOK, Views
  <2> HIDE DEF m
  <2>7. InForce(m, clock)
    <3>1. m.expires \in Nat \union {None}
      BY <2>5 DEF Mandates
    <3>2. m.expires # None => ~ (clock >= m.expires)
      BY <2>1, <2>3, <2>6, <3>1
    <3> QED BY <2>3, <3>2 DEF InForce, Expired
  <2> QED BY <2>3, <2>7 DEF m
<1> QED BY <1>1, Inductive, PTL

(* No view ever holds a fact its contributor was not offered.               *)
THEOREM OnlyOffered == Spec => []OnlyOfferedIsShared
<1>1. IInv => OnlyOfferedIsShared
  BY DEF IInv, Standing, OnlyOfferedIsShared
<1> QED BY <1>1, Inductive, PTL

(* While a message is open, what it was written from is still granted.      *)
THEOREM DraftKept == Spec => []OpenDraftKeepsItsGrants
<1>1. IInv => OpenDraftKeepsItsGrants
  BY DEF IInv, DraftBacked, OpenDraftKeepsItsGrants
<1> QED BY <1>1, Inductive, PTL
=============================================================================
