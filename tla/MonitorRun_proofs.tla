-------------------------- MODULE MonitorRun_proofs --------------------------
(***************************************************************************)
(* Proofs about MonitorRun, for any operations, cases, messages and        *)
(* answers: what a worker holds in memory is a sound continuation of the   *)
(* store as long as the versions it names still stand.                     *)
(***************************************************************************)
EXTENDS MonitorRun, FiniteSetTheorems, TLAPS

-----------------------------------------------------------------------------
(* The inductive invariant.                                                 *)

ItemTypes == {1, 2, 3} \X Nat \X Nat
StepTypes == [case : Cases, new : BOOLEAN, expected : Nat, first : BOOLEAN,
              items : SUBSET ItemTypes, row : Rows, related : Nat]
FrozenTypes == [case : Cases, new : BOOLEAN, expected : Nat, first : BOOLEAN,
                items : SUBSET ItemTypes]

ReportsIn(items)  == {i[2] : i \in {j \in items : j[1] = 1}}
MessagesIn(items) == {i[2] : i \in {j \in items : j[1] = 2}}
FactsIn(items)    == {<<i[2], i[3]>> : i \in {j \in items : j[1] = 3}}

(* The issue a case is about: that of the reports its identity is made of. *)
Subject(c, issue) ==
    /\ issue # "OTHER"
    /\ \E reports \in Proposed : /\ Detectable(reports)
                                 /\ CandidateOf[reports] = c
                                 /\ IssuesOf(reports) = {issue}

(* What validation establishes of an answer for good. *)
Validated(a) ==
    /\ a \in Answers \union {NoAnswer}
    /\ \A g \in Addressed(a) : \A r \in g.reports : Subject(CaseOf(g), Issue[r])
    /\ \A g, h \in Addressed(a) :
          CaseOf(g) = CaseOf(h) /\ (g.target = 0 <=> h.target = 0) => g = h

OneValue(facts) == \A f, h \in facts : f[1] = h[1] => f = h

SoundRow(c, row) ==
    /\ IF row.version = 0 THEN row = NoCase ELSE row.state \in CaseStates
    /\ IsFiniteSet(row.facts) /\ Cardinality(row.facts) <= MaxFacts
    /\ OneValue(row.facts)
    /\ \A r \in row.reports : Subject(c, Issue[r])

SoundCases == \A c \in Cases : SoundRow(c, cases[c])

(* Steps are told apart by the group they belong to and the version they    *)
(* expect, and the first of a group is marked.                              *)
Keyed(steps)  == \A s, t \in steps : SameGroup(s, t) /\ s.expected = t.expected => s = t
Leads(s, steps) == \A t \in steps : SameGroup(s, t) => s.expected <= t.expected
Marked(steps) == \A s \in steps : s.first <=> Leads(s, steps)

(* The step leaves the row with its items added and its version moved by one. *)
Builds(row, s) ==
    s.row = [version |-> s.expected + 1,
             state   |-> StateOf(row),
             reports |-> row.reports \union ReportsIn(s.items),
             facts   |-> row.facts \union FactsIn(s.items)]

(* Every step of a group but its first builds on the one before it. *)
Chained(steps) ==
    \A s, t \in steps :
        SameGroup(s, t) /\ s.expected < t.expected =>
            \E u \in steps : SameGroup(u, t) /\ u.expected + 1 = t.expected /\ Builds(u.row, t)

(* While the case is at the version a leading step expects, it is the row   *)
(* that step was cut from; and so for the signals.                          *)
Founded(steps) ==
    \A s \in steps :
        Leads(s, steps) =>
            /\ s.expected <= cases[s.case].version
            /\ s.expected = cases[s.case].version => Builds(cases[s.case], s)

Signalled(steps) ==
    \A s \in steps : \A i \in s.items :
        i[1] = 2 => /\ i[2] \in Messages
                    /\ i[3] <= signals[i[2]].version
                    /\ i[3] = signals[i[2]].version => signals[i[2]].case \in {0, s.case}

Lasting(steps) ==
    \A s \in steps : SoundRow(s.case, s.row) /\ ReportsIn(s.items) \subseteq Reports

(* Whatever the answer says is in the store or in a step still owed. *)
Covered(a, steps) ==
    \A g \in Addressed(a) :
        LET items == UNION {s.items : s \in {t \in steps : t.case = CaseOf(g)}}
        IN /\ g.reports \subseteq cases[CaseOf(g)].reports \union ReportsIn(items)
           /\ g.facts \subseteq cases[CaseOf(g)].facts \union FactsIn(items)
           /\ \A m \in MessagesOf(g) : signals[m].case = CaseOf(g) \/ m \in MessagesIn(items)

Owed(a, steps) ==
    /\ steps \subseteq StepTypes /\ IsFiniteSet(steps)
    /\ Keyed(steps) /\ Chained(steps) /\ Founded(steps)
    /\ Signalled(steps) /\ Lasting(steps) /\ Covered(a, steps)

SoundPlan(p) ==
    /\ p.steps \subseteq FrozenTypes /\ IsFiniteSet(p.steps)
    /\ Keyed(p.steps) /\ Marked(p.steps)
    /\ Validated(p.answer)
    /\ p.frozen \in BOOLEAN
    /\ ~p.frozen => p = NoPlan

PlanInv(o) ==
    /\ plan[o] = [answer |-> plan[o].answer, steps |-> plan[o].steps, frozen |-> plan[o].frozen]
    /\ SoundPlan(plan[o])
    /\ ~plan[o].frozen => progress[o] = 0
    /\ record[o] # "SUCCEEDED" => progress[o] <= DataSteps(o)

(* What the worker's place says of what is durable. *)
Reading == {"load", "derive", "freeze", "prove", "commit"}

PlaceInv(o) ==
    /\ op[o].status = "PENDING" => pc[o] = "idle"
    /\ op[o].status = "PENDING" /\ ~plan[o].frozen => asked[o] = 0
    /\ pc[o] \in {"begin", "context"} /\ ~plan[o].frozen => asked[o] = 0
    /\ pc[o] = "invoke" => asked[o] <= 1
    /\ pc[o] \in {"context", "invoke", "refuse", "freeze"} => ~plan[o].frozen
    /\ pc[o] \in {"prove", "commit", "release"} => plan[o].frozen
    /\ pc[o] \in {"succeed", "recheck"} => record[o] = "SUCCEEDED" \/ asked[o] = 0
    /\ record[o] = "SUCCEEDED" =>
          plan[o].frozen /\ pc[o] \in {"idle", "begin", "succeed", "recheck", "settle", "release"}
    /\ record[o] = "FAILED" => ~plan[o].frozen /\ pc[o] \in {"idle", "begin", "settle"}
    /\ op[o].status = "SUCCEEDED" =>
          record[o] = "SUCCEEDED" \/ (asked[o] = 0 /\ pc[o] = "idle")

(* What the worker has read still describes every case that has not moved. *)
SeenInv(o) ==
    /\ seen[o] \in [Cases -> Rows]
    /\ pc[o] = "derive" =>
          \A c \in Cases :
              /\ SoundRow(c, seen[o][c])
              /\ seen[o][c].version <= cases[c].version
              /\ seen[o][c].version = cases[c].version => seen[o][c] = cases[c]
              /\ seen[o][c].reports \subseteq cases[c].reports
              /\ seen[o][c].facts \subseteq cases[c].facts

WorkInv(o) ==
    /\ pc[o] \in Reading => Validated(answer[o])
    /\ pc[o] \in Reading /\ plan[o].frozen => answer[o] = plan[o].answer
    /\ pc[o] \in {"freeze", "prove", "commit"} => Owed(answer[o], todo[o])
    /\ pc[o] = "freeze" => Marked(todo[o])
    /\ pc[o] = "commit" =>
          /\ {Content(s) : s \in todo[o]} = {Content(s) : s \in Remaining(o)}
          /\ progress[o] + Cardinality(todo[o]) = DataSteps(o)

(* The invocation record, in terms of the store alone. *)
Recorded(o) ==
    record[o] = "SUCCEEDED" =>
        /\ progress[o] = DataSteps(o) + 1
        /\ Covered(plan[o].answer, {})

IInv ==
    /\ TypeOK
    /\ SoundCases
    /\ \A o \in Ops : /\ PlanInv(o) /\ PlaceInv(o) /\ SeenInv(o)
                      /\ WorkInv(o) /\ Recorded(o)
    /\ CaseIsWhatWasCommitted

-----------------------------------------------------------------------------
(* The order of the steps of a plan.                                        *)

Ordered(steps) ==
    /\ IsFiniteSet(steps) /\ Keyed(steps)
    /\ \A s \in steps : s.case \in Nat /\ s.new \in BOOLEAN /\ s.expected \in Nat

LEMMA EarlierOrders ==
    ASSUME NEW steps, Ordered(steps)
    PROVE  /\ \A s \in steps : ~Earlier(s, s)
           /\ \A s, t \in steps : s = t \/ Earlier(s, t) \/ Earlier(t, s)
           /\ \A s, t \in steps : ~(Earlier(s, t) /\ Earlier(t, s))
           /\ \A s, t, u \in steps : Earlier(s, t) /\ Earlier(t, u) => Earlier(s, u)
BY DEF Ordered, Keyed, Earlier, SameGroup

LEMMA PositionRange ==
    ASSUME NEW steps, Ordered(steps), NEW s \in steps
    PROVE  Position(steps, s) \in 1 .. Cardinality(steps)
<1> DEFINE before == {t \in steps : Earlier(t, s)}
<1>1. before \in SUBSET (steps \ {s})
  BY EarlierOrders
<1>2. IsFiniteSet(steps \ {s}) /\ Cardinality(steps \ {s}) = Cardinality(steps) - 1
      /\ Cardinality(steps) \in Nat
  BY FS_RemoveElement, FS_CardinalityType DEF Ordered
<1>3. IsFiniteSet(before) /\ Cardinality(before) <= Cardinality(steps) - 1
  BY <1>1, <1>2, FS_Subset
<1>4. Cardinality(before) \in Nat
  BY <1>3, FS_CardinalityType
<1>5. Position(steps, s) = 1 + Cardinality(before)
  BY DEF Position
<1> HIDE DEF before
<1> QED BY <1>2, <1>3, <1>4, <1>5

LEMMA PositionRises ==
    ASSUME NEW steps, Ordered(steps), NEW s \in steps, NEW t \in steps, Earlier(s, t)
    PROVE  Position(steps, s) < Position(steps, t)
<1> DEFINE to(r) == {q \in steps : Earlier(q, r)}
<1>1. to(s) \subseteq to(t) /\ s \in to(t) /\ s \notin to(s)
  BY EarlierOrders
<1>2. IsFiniteSet(to(s)) /\ IsFiniteSet(to(t)) /\ to(s) # to(t)
  BY <1>1, FS_Subset DEF Ordered
<1>3. Cardinality(to(s)) <= Cardinality(to(t)) /\ Cardinality(to(s)) # Cardinality(to(t))
  BY <1>1, <1>2, FS_Subset
<1>4. Cardinality(to(s)) \in Nat /\ Cardinality(to(t)) \in Nat
  BY <1>2, FS_CardinalityType
<1>5. Position(steps, s) = 1 + Cardinality(to(s)) /\ Position(steps, t) = 1 + Cardinality(to(t))
  BY DEF Position
<1> HIDE DEF to
<1> QED BY <1>3, <1>4, <1>5

LEMMA PositionTells ==
    ASSUME NEW steps, Ordered(steps), NEW s \in steps, NEW t \in steps
    PROVE  /\ Position(steps, s) = Position(steps, t) => s = t
           /\ Position(steps, s) < Position(steps, t) => Earlier(s, t)
<1>1. Position(steps, s) \in Nat /\ Position(steps, t) \in Nat
  BY PositionRange, FS_CardinalityType DEF Ordered
<1>2. s = t \/ Earlier(s, t) \/ Earlier(t, s)
  BY EarlierOrders
<1>3. Earlier(s, t) => Position(steps, s) < Position(steps, t)
  BY PositionRises
<1>4. Earlier(t, s) => Position(steps, t) < Position(steps, s)
  BY PositionRises
<1> QED BY <1>1, <1>2, <1>3, <1>4

LEMMA PositionCovers ==
    ASSUME NEW steps, Ordered(steps), NEW n \in 1 .. Cardinality(steps)
    PROVE  \E s \in steps : Position(steps, s) = n
<1> DEFINE place == [s \in steps |-> Position(steps, s)]
           size == Cardinality(steps)
<1>1. IsFiniteSet(steps) /\ size \in Nat
  BY FS_CardinalityType DEF Ordered
<1>2. place \in [steps -> 1 .. size]
  BY PositionRange
<1>3. \A s, t \in steps : place[s] = place[t] => s = t
  BY PositionTells
<1>4. place \in Injection(steps, 1 .. size)
  BY <1>2, <1>3 DEF Injection, IsInjective
<1>5. IsFiniteSet(1 .. size) /\ Cardinality(1 .. size) = size
  <2>1. 1 \in Int /\ size \in Int
    BY <1>1
  <2>2. Cardinality(1 .. size) = IF 1 > size THEN 0 ELSE size - 1 + 1
    BY <2>1, FS_Interval
  <2> QED BY <1>1, <2>1, <2>2, FS_Interval
<1>6. place \in Surjection(steps, 1 .. size)
  BY <1>4, <1>5, FS_Injection
<1> QED BY <1>6 DEF Surjection

(* The first n steps, and the one after them. *)
LEMMA PrefixGrows ==
    ASSUME NEW steps, Ordered(steps), NEW n \in Nat, NEW d \in steps,
           Position(steps, d) = n + 1
    PROVE  /\ d \notin Prefix(steps, n)
           /\ Prefix(steps, n + 1) = Prefix(steps, n) \union {d}
           /\ \A e \in steps \ Prefix(steps, n) : e = d \/ Earlier(d, e)
           /\ \A e \in steps : Earlier(e, d) => e \in Prefix(steps, n)
<1>1. \A s \in steps : Position(steps, s) \in Nat
  BY PositionRange, FS_CardinalityType DEF Ordered
<1>2. \A s \in steps : Position(steps, s) <= n + 1 <=> Position(steps, s) <= n \/ s = d
  BY <1>1, PositionTells
<1>3. \A e \in steps : Earlier(e, d) => Position(steps, e) < n + 1
  BY PositionRises
<1>4. \A e \in steps : ~(Position(steps, e) <= n) => e = d \/ Earlier(d, e)
  BY <1>1, PositionTells
<1> QED BY <1>1, <1>2, <1>3, <1>4 DEF Prefix

LEMMA PrefixSize ==
    ASSUME NEW steps, Ordered(steps), NEW n \in 0 .. Cardinality(steps)
    PROVE  /\ IsFiniteSet(Prefix(steps, n)) /\ Cardinality(Prefix(steps, n)) = n
           /\ IsFiniteSet(steps \ Prefix(steps, n))
           /\ Cardinality(steps \ Prefix(steps, n)) = Cardinality(steps) - n
<1> DEFINE prefix == Prefix(steps, n)
           place == [s \in prefix |-> Position(steps, s)]
<1>1. IsFiniteSet(steps) /\ Cardinality(steps) \in Nat /\ n \in Nat
  BY FS_CardinalityType DEF Ordered
<1>2. prefix \subseteq steps /\ \A s \in steps : s \in prefix <=> Position(steps, s) <= n
  BY DEF Prefix
<1>3. IsFiniteSet(prefix) /\ Cardinality(prefix) \in Nat
  BY <1>1, <1>2, FS_Subset, FS_CardinalityType
<1> HIDE DEF prefix
<1>4. place \in [prefix -> 1 .. n]
  BY <1>1, <1>2, PositionRange
<1>5. \A s, t \in prefix : place[s] = place[t] => s = t
  BY <1>2, PositionTells
<1>6. \A k \in 1 .. n : \E s \in prefix : place[s] = k
  <2> SUFFICES ASSUME NEW k \in 1 .. n PROVE \E s \in prefix : place[s] = k
    OBVIOUS
  <2>1. PICK s \in steps : Position(steps, s) = k
    BY <1>1, PositionCovers
  <2> QED BY <1>1, <1>2, <2>1
<1>7. place \in Surjection(prefix, 1 .. n) /\ place \in Injection(prefix, 1 .. n)
  BY <1>4, <1>5, <1>6 DEF Surjection, Injection, IsInjective
<1>8. Cardinality(1 .. n) = Cardinality(prefix)
  BY <1>3, <1>7, FS_Surjection
<1>9. Cardinality(1 .. n) = n
  BY <1>1, FS_Interval
<1>10. prefix \in SUBSET steps /\ steps \intersect prefix = prefix
  BY <1>2
<1>11. IsFiniteSet(steps \ prefix)
       /\ Cardinality(steps \ prefix) = Cardinality(steps) - Cardinality(steps \intersect prefix)
  BY <1>1, FS_Difference
<1> QED BY <1>3, <1>8, <1>9, <1>10, <1>11 DEF prefix

LEMMA PrefixEnds ==
    ASSUME NEW steps, Ordered(steps), NEW n \in Nat
    PROVE  /\ Prefix(steps, n) \subseteq steps
           /\ Prefix(steps, 0) = {}
           /\ Cardinality(steps) <= n => Prefix(steps, n) = steps
<1>1. Cardinality(steps) \in Nat
  BY FS_CardinalityType DEF Ordered
<1>2. \A s \in steps : Position(steps, s) \in 1 .. Cardinality(steps)
  BY PositionRange
<1> QED BY <1>1, <1>2 DEF Prefix

LEMMA FirstIsEarliest ==
    ASSUME NEW steps, Ordered(steps), steps # {}
    PROVE  /\ First(steps) \in steps
           /\ \A t \in steps : t = First(steps) \/ Earlier(First(steps), t)
           /\ Leads(First(steps), steps)
<1>1. Cardinality(steps) \in Nat \ {0}
  BY FS_CardinalityType, FS_EmptySet DEF Ordered
<1>2. \E s \in steps : Position(steps, s) = 1
  BY <1>1, PositionCovers
<1>3. First(steps) \in steps /\ Position(steps, First(steps)) = 1
  BY <1>2 DEF First
<1>4. \A t \in steps : t = First(steps) \/ Earlier(First(steps), t)
  <2> SUFFICES ASSUME NEW t \in steps PROVE t = First(steps) \/ Earlier(First(steps), t)
    OBVIOUS
  <2>1. Position(steps, t) \in Nat /\ Position(steps, t) >= 1
    BY PositionRange, <1>1
  <2> QED BY <1>3, <2>1, PositionTells
<1>5. Leads(First(steps), steps)
  BY <1>3, <1>4 DEF Leads, Earlier, SameGroup, Ordered
<1> QED BY <1>3, <1>4, <1>5

(* What was derived against what was frozen: as many steps, the earliest    *)
(* the same, and still the same without it.                                 *)
LEMMA ContentTells ==
    ASSUME NEW steps, Ordered(steps), NEW s \in steps, NEW t \in steps, Content(s) = Content(t)
    PROVE  s = t
BY DEF Ordered, Keyed, SameGroup, Content

LEMMA ContentsCount ==
    ASSUME NEW S, NEW T, Ordered(S), Ordered(T),
           {Content(s) : s \in S} = {Content(t) : t \in T}
    PROVE  Cardinality(S) = Cardinality(T)
<1> DEFINE match == [s \in S |-> CHOOSE t \in T : Content(t) = Content(s)]
<1>1. \A s \in S : match[s] \in T /\ Content(match[s]) = Content(s)
  <2> SUFFICES ASSUME NEW s \in S PROVE match[s] \in T /\ Content(match[s]) = Content(s)
    OBVIOUS
  <2>1. Content(s) \in {Content(t) : t \in T}
    OBVIOUS
  <2>2. \E t \in T : Content(t) = Content(s)
    BY <2>1
  <2> QED BY <2>2
<1>2. match \in [S -> T]
  BY <1>1
<1>3. \A s, r \in S : match[s] = match[r] => s = r
  BY <1>1, ContentTells
<1>4. \A t \in T : \E s \in S : match[s] = t
  <2> SUFFICES ASSUME NEW t \in T PROVE \E s \in S : match[s] = t
    OBVIOUS
  <2>1. Content(t) \in {Content(s) : s \in S}
    OBVIOUS
  <2>2. PICK s \in S : Content(s) = Content(t)
    BY <2>1
  <2>3. match[s] = t
    BY <1>1, <2>2, ContentTells
  <2> QED BY <2>3
<1> HIDE DEF match
<1>5. match \in Surjection(S, T) /\ match \in Injection(S, T)
  BY <1>2, <1>3, <1>4 DEF Surjection, Injection, IsInjective
<1> QED BY <1>5, FS_Surjection DEF Ordered

Contents(steps) == {Content(s) : s \in steps}

LEMMA EarliestMatch ==
    ASSUME NEW S, NEW T, Ordered(S), Ordered(T),
           Contents(S) = Contents(T),
           NEW a \in S, \A s \in S : s = a \/ Earlier(a, s),
           NEW b \in T, \A t \in T : t = b \/ Earlier(b, t)
    PROVE  /\ Content(a) = Content(b)
           /\ Contents(S \ {a}) = Contents(T \ {b})
<1> USE DEF Contents
<1>1. PICK t \in T : Content(t) = Content(a)
  <2>1. Content(a) \in {Content(s) : s \in S}
    OBVIOUS
  <2> QED BY <2>1
<1>2. PICK s \in S : Content(s) = Content(b)
  <2>1. Content(b) \in {Content(q) : q \in T}
    OBVIOUS
  <2> QED BY <2>1
<1>3. Content(a) = Content(b)
  <2> SUFFICES ASSUME t # b PROVE FALSE
    BY <1>1
  <2>1. Earlier(b, t)
    OBVIOUS
  <2>2. Earlier(s, a)
    BY <1>1, <1>2, <2>1 DEF Content, Earlier, SameGroup
  <2>3. s = a \/ Earlier(a, s)
    OBVIOUS
  <2> QED BY <2>2, <2>3, EarlierOrders
<1>4. \A x : x \in {Content(q) : q \in S \ {a}} <=> x \in {Content(q) : q \in S} /\ x # Content(a)
  BY ContentTells
<1>5. \A x : x \in {Content(q) : q \in T \ {b}} <=> x \in {Content(q) : q \in T} /\ x # Content(b)
  BY ContentTells
<1> QED BY <1>3, <1>4, <1>5

-----------------------------------------------------------------------------
(* What every step does to the store, and what a worker's memory is worth   *)
(* while others move it.                                                    *)

(* Rows only gain, a row that changes gets another version, and a message   *)
(* that shows a case shows it for good.                                     *)
Grows ==
    /\ \A c \in Cases :
          /\ cases[c].version <= cases'[c].version
          /\ cases[c].version = cases'[c].version => cases'[c] = cases[c]
          /\ cases[c].reports \subseteq cases'[c].reports
          /\ cases[c].facts \subseteq cases'[c].facts
    /\ \A m \in Messages :
          /\ signals[m].version <= signals'[m].version
          /\ signals[m].version = signals'[m].version => signals'[m] = signals[m]
          /\ signals[m].case # 0 => signals'[m].case = signals[m].case

Typed == cases \in [Cases -> Rows] /\ signals \in [Messages -> Signals]

LEMMA GrowsByStanding ==
    ASSUME Typed, UNCHANGED <<cases, signals>>
    PROVE  Grows
BY DEF Typed, Grows, Rows, Signals

LEMMA CaseOfAddressed ==
    ASSUME NEW a, Validated(a), NEW g \in Addressed(a)
    PROVE  /\ g \in a /\ a \in Answers /\ g \in Groups
           /\ CaseOf(g) \in Cases /\ CaseOf(g) # 0 /\ CaseOf(g) \in Nat
           /\ g.reports \subseteq Reports /\ MessagesOf(g) \subseteq Messages
           /\ g.target \in Cases \union {0}
           /\ IsFiniteSet(g.facts) /\ g.facts \subseteq Nat \X Nat
           /\ IsFiniteSet(g.reports) /\ IsFiniteSet(MessagesOf(g))
<1>1. g \in a /\ a \in Answers
  BY DEF Addressed, Validated, NoAnswer
<1>2. g \in Groups /\ IsFiniteSet(g.facts)
  BY <1>1, AnswerAssumption
<1>3. g.target \in Cases \union {0} /\ g.reports \subseteq Reports /\ g.facts \subseteq Nat \X Nat
  BY <1>2 DEF Groups
<1>4. CaseOf(g) # 0
  BY DEF Addressed
<1>5. CaseOf(g) \in Cases
  BY <1>3, <1>4, CandidateAssumption DEF CaseOf
<1>6. MessagesOf(g) \subseteq Messages
  BY <1>3, ReportAssumption DEF MessagesOf
<1>7. IsFiniteSet(g.reports) /\ IsFiniteSet(MessagesOf(g))
  BY <1>3, <1>6, FiniteAssumption, FS_Subset
<1> QED BY <1>1, <1>2, <1>3, <1>4, <1>5, <1>6, <1>7, CaseAssumption

LEMMA OwedStays ==
    ASSUME Typed, Typed', Grows, NEW o \in Ops, Validated(answer[o]),
           answer'[o] = answer[o], todo'[o] = todo[o], Owed(answer[o], todo[o])
    PROVE  Owed(answer[o], todo[o])'
<1>1. (todo[o] \subseteq StepTypes /\ IsFiniteSet(todo[o])
       /\ Keyed(todo[o]) /\ Chained(todo[o]) /\ Lasting(todo[o]))'
  BY DEF Owed, Keyed, Chained, Lasting, SoundRow, Subject, StepTypes, Builds, StateOf
<1>2. Founded(todo[o])'
  <2> SUFFICES ASSUME NEW s \in todo[o], Leads(s, todo[o])
      PROVE  /\ s.expected <= cases'[s.case].version
             /\ s.expected = cases'[s.case].version => (Builds(cases[s.case], s))'
    BY DEF Founded, Leads
  <2>1. s \in StepTypes /\ s.case \in Cases /\ s.expected \in Nat
    BY DEF Owed, StepTypes
  <2>2. /\ s.expected <= cases[s.case].version
        /\ s.expected = cases[s.case].version => Builds(cases[s.case], s)
    BY DEF Owed, Founded
  <2>3. cases[s.case].version \in Nat /\ cases'[s.case].version \in Nat
    BY <2>1 DEF Typed, Rows
  <2>4. cases[s.case].version <= cases'[s.case].version
        /\ (cases[s.case].version = cases'[s.case].version => cases'[s.case] = cases[s.case])
    BY <2>1 DEF Grows
  <2>5. s.expected = cases'[s.case].version =>
           s.expected = cases[s.case].version /\ cases'[s.case] = cases[s.case]
    BY <2>1, <2>2, <2>3, <2>4
  <2>6. s.expected <= cases'[s.case].version
    BY <2>1, <2>2, <2>3, <2>4
  <2>7. Builds(cases[s.case], s) /\ cases'[s.case] = cases[s.case]
           => (Builds(cases[s.case], s))'
    BY DEF Builds, StateOf
  <2> QED BY <2>2, <2>5, <2>6, <2>7
<1>3. Signalled(todo[o])'
  <2> SUFFICES ASSUME NEW s \in todo[o], NEW i \in s.items, i[1] = 2
      PROVE  /\ i[2] \in Messages
             /\ i[3] <= signals'[i[2]].version
             /\ i[3] = signals'[i[2]].version => signals'[i[2]].case \in {0, s.case}
    BY DEF Signalled
  <2>1. i \in ItemTypes
    BY DEF Owed, StepTypes
  <2>2. i[3] \in Nat
    BY <2>1 DEF ItemTypes
  <2>3. /\ i[2] \in Messages
        /\ i[3] <= signals[i[2]].version
        /\ i[3] = signals[i[2]].version => signals[i[2]].case \in {0, s.case}
    BY DEF Owed, Signalled
  <2>4. signals[i[2]].version \in Nat /\ signals'[i[2]].version \in Nat
    BY <2>3 DEF Typed, Signals
  <2>5. signals[i[2]].version <= signals'[i[2]].version
        /\ (signals[i[2]].version = signals'[i[2]].version => signals'[i[2]] = signals[i[2]])
    BY <2>3 DEF Grows
  <2> QED BY <2>2, <2>3, <2>4, <2>5
<1>4. Covered(answer[o], todo[o])'
  <2> SUFFICES ASSUME NEW g \in Addressed(answer[o])
      PROVE  LET items == UNION {s.items : s \in {t \in todo[o] : t.case = CaseOf(g)}}
             IN /\ g.reports \subseteq cases'[CaseOf(g)].reports \union ReportsIn(items)
                /\ g.facts \subseteq cases'[CaseOf(g)].facts \union FactsIn(items)
                /\ \A m \in MessagesOf(g) :
                      signals'[m].case = CaseOf(g) \/ m \in MessagesIn(items)
    BY DEF Covered, Addressed
  <2>1. CaseOf(g) \in Cases /\ CaseOf(g) # 0 /\ MessagesOf(g) \subseteq Messages
    BY CaseOfAddressed
  <2> DEFINE items == UNION {s.items : s \in {t \in todo[o] : t.case = CaseOf(g)}}
  <2>2. /\ g.reports \subseteq cases[CaseOf(g)].reports \union ReportsIn(items)
        /\ g.facts \subseteq cases[CaseOf(g)].facts \union FactsIn(items)
        /\ \A m \in MessagesOf(g) : signals[m].case = CaseOf(g) \/ m \in MessagesIn(items)
    BY DEF Owed, Covered
  <2> HIDE DEF items
  <2>3. /\ g.reports \subseteq cases'[CaseOf(g)].reports \union ReportsIn(items)
        /\ g.facts \subseteq cases'[CaseOf(g)].facts \union FactsIn(items)
        /\ \A m \in MessagesOf(g) : signals'[m].case = CaseOf(g) \/ m \in MessagesIn(items)
    BY <2>1, <2>2 DEF Grows
  <2> QED BY <2>3 DEF items
<1> QED BY <1>1, <1>2, <1>3, <1>4 DEF Owed

LEMMA SeenStays ==
    ASSUME Typed, Typed', Grows, NEW o \in Ops, SeenInv(o),
           seen'[o] = seen[o], pc'[o] = pc[o]
    PROVE  SeenInv(o)'
<1>1. seen'[o] \in [Cases -> Rows]
  BY DEF SeenInv
<1>2. ASSUME pc[o] = "derive", NEW c \in Cases
      PROVE  /\ (SoundRow(c, seen[o][c]))'
             /\ seen[o][c].version <= cases'[c].version
             /\ seen[o][c].version = cases'[c].version => seen[o][c] = cases'[c]
             /\ seen[o][c].reports \subseteq cases'[c].reports
             /\ seen[o][c].facts \subseteq cases'[c].facts
  <2>1. (SoundRow(c, seen[o][c]))'
    BY <1>2 DEF SeenInv, SoundRow, Subject
  <2>2. seen[o][c].version \in Nat /\ cases[c].version \in Nat /\ cases'[c].version \in Nat
    BY DEF SeenInv, Typed, Rows
  <2>3. /\ seen[o][c].version <= cases[c].version
        /\ seen[o][c].version = cases[c].version => seen[o][c] = cases[c]
        /\ seen[o][c].reports \subseteq cases[c].reports
        /\ seen[o][c].facts \subseteq cases[c].facts
    BY <1>2 DEF SeenInv
  <2> QED BY <2>1, <2>2, <2>3 DEF Grows
<1> QED BY <1>1, <1>2 DEF SeenInv

LEMMA WorkStays ==
    ASSUME Typed, Typed', Grows, NEW o \in Ops, WorkInv(o),
           pc'[o] = pc[o], answer'[o] = answer[o], todo'[o] = todo[o],
           plan'[o] = plan[o], progress'[o] = progress[o]
    PROVE  WorkInv(o)'
<1>1. pc[o] \in {"freeze", "prove", "commit"} => Owed(answer[o], todo[o])'
  BY OwedStays DEF WorkInv, Reading
<1>2. (pc[o] \in Reading => Validated(answer[o]))'
      /\ (pc[o] \in Reading /\ plan[o].frozen => answer[o] = plan[o].answer)'
  BY DEF WorkInv, Validated, Subject, Addressed, NoAnswer
<1>3. (pc[o] = "freeze" => Marked(todo[o]))'
  BY DEF WorkInv, Marked, Leads
<1>4. Remaining(o)' = Remaining(o) /\ DataSteps(o)' = DataSteps(o)
  BY DEF Remaining, DataSteps, Prefix, Position
<1>5. (pc[o] = "commit" =>
          /\ {Content(s) : s \in todo[o]} = {Content(s) : s \in Remaining(o)}
          /\ progress[o] + Cardinality(todo[o]) = DataSteps(o))'
  BY <1>4 DEF WorkInv, Content, Describe
<1> QED BY <1>1, <1>2, <1>3, <1>5 DEF WorkInv

LEMMA RecordedStays ==
    ASSUME Typed, Typed', Grows, NEW o \in Ops, Recorded(o), SoundPlan(plan[o]),
           plan'[o] = plan[o], progress'[o] = progress[o], record'[o] = record[o]
    PROVE  Recorded(o)'
<1> SUFFICES ASSUME record[o] = "SUCCEEDED" PROVE (Covered(plan[o].answer, {}))'
  BY DEF Recorded, DataSteps
<1> SUFFICES ASSUME NEW g \in Addressed(plan[o].answer)
    PROVE  /\ g.reports \subseteq cases'[CaseOf(g)].reports
           /\ g.facts \subseteq cases'[CaseOf(g)].facts
           /\ \A m \in MessagesOf(g) : signals'[m].case = CaseOf(g)
  BY DEF Covered, Addressed
<1>1. CaseOf(g) \in Cases /\ CaseOf(g) # 0 /\ MessagesOf(g) \subseteq Messages
  BY CaseOfAddressed DEF SoundPlan
<1>2. /\ g.reports \subseteq cases[CaseOf(g)].reports
      /\ g.facts \subseteq cases[CaseOf(g)].facts
      /\ \A m \in MessagesOf(g) : signals[m].case = CaseOf(g)
  BY DEF Recorded, Covered, ReportsIn, FactsIn, MessagesIn
<1> QED BY <1>1, <1>2 DEF Grows

-----------------------------------------------------------------------------
(* Frames.                                                                  *)

LEMMA Typing == (TypeOK => Typed) /\ (TypeOK' => Typed')
BY DEF TypeOK, Typed

(* The operation p is not the one that moved. *)
Elsewhere(p) ==
    /\ pc'[p] = pc[p] /\ asked'[p] = asked[p] /\ op'[p].status = op[p].status
    /\ answer'[p] = answer[p] /\ seen'[p] = seen[p] /\ todo'[p] = todo[p]
    /\ plan'[p] = plan[p] /\ progress'[p] = progress[p] /\ record'[p] = record[p]

OpInv(p) == PlanInv(p) /\ PlaceInv(p) /\ SeenInv(p) /\ WorkInv(p) /\ Recorded(p)

LEMMA PlanStays ==
    ASSUME NEW p \in Ops, PlanInv(p), plan'[p] = plan[p], progress'[p] = progress[p],
           record'[p] = record[p]
    PROVE  PlanInv(p)'
<1>1. SoundPlan(plan[p])'
  BY DEF PlanInv, SoundPlan, Keyed, Marked, Leads, Validated, Subject, Addressed
<1> QED BY <1>1 DEF PlanInv, DataSteps

LEMMA OthersStay ==
    ASSUME Typed, Typed', Grows, NEW p \in Ops, OpInv(p), Elsewhere(p)
    PROVE  OpInv(p)'
<1> USE DEF Elsewhere
<1>1. PlanInv(p)' BY PlanStays DEF OpInv
<1>2. PlaceInv(p)' BY DEF OpInv, PlaceInv
<1>3. SeenInv(p)' BY SeenStays DEF OpInv
<1>4. WorkInv(p)' BY WorkStays DEF OpInv
<1>5. Recorded(p)' BY RecordedStays DEF OpInv, PlanInv
<1> QED BY <1>1, <1>2, <1>3, <1>4, <1>5 DEF OpInv

LEMMA CommittedStays ==
    ASSUME NEW p \in Ops, plan'[p].steps = plan[p].steps, progress'[p] = progress[p]
    PROVE  Committed(p)' = Committed(p)
BY DEF Committed, Prefix, Position

LEMMA WritesStay ==
    ASSUME \A p \in Ops : Committed(p)' = Committed(p), NEW c \in Cases
    PROVE  Writes(c)' = Writes(c)
<1>1. UNION {{o} \X Committed(o)' : o \in Ops} = UNION {{o} \X Committed(o) : o \in Ops}
  OBVIOUS
<1> QED BY <1>1 DEF Writes

(* The ledger of one case. *)
Written(c) == UNION {p[2].items : p \in Writes(c)}

Ledger(c) ==
    /\ cases[c].version = Initially(c).version + moves[c] + Cardinality(Writes(c))
    /\ cases[c].reports = Initially(c).reports \union ReportsIn(Written(c))
    /\ {f[1] : f \in cases[c].facts} = {i[2] : i \in {j \in Written(c) : j[1] = 3}}
    /\ {o \in Ops : <<o, c>> \in audited} = {p[1] : p \in Writes(c)}

LEMMA LedgerByCase ==
    /\ CaseIsWhatWasCommitted <=> \A c \in Cases : Ledger(c)
    /\ CaseIsWhatWasCommitted' <=> \A c \in Cases : Ledger(c)'
BY DEF CaseIsWhatWasCommitted, Ledger, Written, ReportsIn

(* Each operation's committed steps are finitely many, and so the writes of a case. *)
LEMMA WritesFinite ==
    ASSUME \A o \in Ops : SoundPlan(plan[o]), NEW c \in Cases
    PROVE  IsFiniteSet(Writes(c))
<1> DEFINE each == {{o} \X Committed(o) : o \in Ops}
<1>1. \A o \in Ops : IsFiniteSet({o} \X Committed(o))
  <2> TAKE o \in Ops
  <2>1. Committed(o) \in SUBSET plan[o].steps /\ IsFiniteSet(plan[o].steps)
    BY DEF Committed, Prefix, SoundPlan
  <2>2. IsFiniteSet(Committed(o)) /\ IsFiniteSet({o})
    BY <2>1, FS_Subset, FS_Singleton
  <2> QED BY <2>2, FS_Product
<1>2. IsFiniteSet(each)
  <2> DEFINE of == [o \in Ops |-> {o} \X Committed(o)]
  <2>1. of \in Surjection(Ops, each)
    BY DEF Surjection
  <2> QED BY <2>1, FiniteAssumption, FS_Surjection
<1>3. \A s \in each : IsFiniteSet(s)
  BY <1>1
<1> HIDE DEF each
<1>4. IsFiniteSet(UNION each)
  BY <1>2, <1>3, FS_UNION
<1>5. Writes(c) \in SUBSET (UNION each)
  BY DEF Writes, each
<1> QED BY <1>4, <1>5, FS_Subset

LEMMA LedgerStands ==
    ASSUME CaseIsWhatWasCommitted, \A p \in Ops : Committed(p)' = Committed(p),
           UNCHANGED <<cases, audited, moves>>
    PROVE  CaseIsWhatWasCommitted'
<1>1. ASSUME NEW c \in Cases, Ledger(c) PROVE Ledger(c)'
  <2>1. Writes(c)' = Writes(c)
    BY WritesStay
  <2>2. Written(c)' = Written(c)
    BY <2>1 DEF Written
  <2> QED BY <1>1, <2>1, <2>2 DEF Ledger, Initially
<1> QED BY <1>1, LedgerByCase

LEMMA QuietStep ==
    ASSUME IInv, NEW o \in Ops,
           UNCHANGED <<cases, signals, audited, progress, record, plan, moves>>,
           \A p \in Ops \ {o} : Elsewhere(p),
           TypeOK', PlaceInv(o)', SeenInv(o)', WorkInv(o)'
    PROVE  IInv'
<1>1. Typed /\ Typed' /\ Grows
  BY Typing, GrowsByStanding DEF IInv
<1>2. SoundCases'
  BY DEF IInv, SoundCases, SoundRow, Subject
<1>3. CaseIsWhatWasCommitted'
  BY LedgerStands, CommittedStays DEF IInv
<1>4. OpInv(o)'
  BY <1>1, PlanStays, RecordedStays DEF IInv, OpInv, PlanInv
<1>5. \A p \in Ops \ {o} : OpInv(p)'
  BY <1>1, OthersStay DEF IInv, OpInv
<1> QED BY <1>2, <1>3, <1>4, <1>5 DEF IInv, OpInv

-----------------------------------------------------------------------------
(* The steps that leave the store alone.                                    *)

LEMMA TransitionTypes ==
    ASSUME TypeOK, NEW o \in Ops, NEW status \in {"PENDING", "RUNNING"} \union Terminal,
           Transition(o, status)
    PROVE  /\ op' \in [Ops -> [status : {"PENDING", "RUNNING"} \union Terminal,
                               version : Nat, aged : BOOLEAN]]
           /\ op'[o].status = status
           /\ \A p \in Ops \ {o} : op'[p] = op[p]
BY DEF TypeOK, Transition

LEMMA FailsTypes ==
    ASSUME TypeOK, NEW kind, Fails(kind)
    PROVE  faults' \in SUBSET FaultKinds
BY FaultsAssumption DEF TypeOK, Fails

Places == {"idle", "begin", "context", "invoke", "load", "derive", "freeze", "prove",
           "commit", "refuse", "succeed", "recheck", "settle", "release"}

LEMMA GotoTypes ==
    ASSUME TypeOK, NEW o \in Ops, NEW place \in Places, Goto(o, place)
    PROVE  /\ pc' \in [Ops -> Places]
           /\ pc'[o] = place
           /\ \A p \in Ops \ {o} : pc'[p] = pc[p]
BY DEF TypeOK, Goto, Places

LEMMA ClaimStep == ASSUME IInv, NEW o \in Ops, Claim(o) PROVE IInv'
<1> USE DEF Claim, store, worker
<1>1. TypeOK /\ OpInv(o)
  BY DEF IInv, OpInv
<1>2. Transition(o, "RUNNING")
  OBVIOUS
<1>3. /\ op' \in [Ops -> [status : {"PENDING", "RUNNING"} \union Terminal,
                          version : Nat, aged : BOOLEAN]]
      /\ op'[o].status = "RUNNING" /\ \A p \in Ops \ {o} : op'[p] = op[p]
  BY <1>1, <1>2, TransitionTypes
<1>4. /\ pc' \in [Ops -> Places] /\ pc'[o] \in {"begin", "idle"}
      /\ \A p \in Ops \ {o} : pc'[p] = pc[p]
  BY <1>1, GotoTypes DEF TypeOK, Places
<1>5. held' \in [Ops -> Nat] /\ faults' \in SUBSET FaultKinds
  <2>1. op[o].version \in Nat /\ held \in [Ops -> Nat]
    BY <1>1 DEF TypeOK
  <2>2. op[o].version + 1 \in Nat
    BY <2>1
  <2>3. held' \in [Ops -> Nat]
    BY <2>1, <2>2
  <2>4. faults' \in SUBSET FaultKinds
    BY <1>1, FailsTypes DEF TypeOK
  <2> QED BY <2>3, <2>4
<1>6. TypeOK'
  BY <1>1, <1>3, <1>4, <1>5 DEF TypeOK, Places
<1>7. \A p \in Ops \ {o} : Elsewhere(p)
  BY <1>3, <1>4 DEF Elsewhere
<1>8. PlaceInv(o)'
  BY <1>1, <1>3, <1>4 DEF OpInv, PlaceInv
<1>9. SeenInv(o)' /\ WorkInv(o)'
  BY <1>1, <1>4 DEF OpInv, SeenInv, WorkInv, Reading
<1> QED BY <1>6, <1>7, <1>8, <1>9, QuietStep

LEMMA BeginStep == ASSUME IInv, NEW o \in Ops, Begin(o) PROVE IInv'
<1> USE DEF Begin, store
<1>1. TypeOK /\ OpInv(o)
  BY DEF IInv, OpInv
<1>2. record[o] \in {"NONE", "SUCCEEDED", "FAILED"}
  BY <1>1 DEF TypeOK
<1>3. plan[o].frozen \in BOOLEAN
  BY <1>1 DEF TypeOK
<1> DEFINE place == CASE record[o] = "FAILED"    -> "settle"
                      [] record[o] = "SUCCEEDED" -> "succeed"
                      [] record[o] = "NONE" /\ plan[o].frozen  -> "load"
                      [] record[o] = "NONE" /\ ~plan[o].frozen ->
                             IF input[o] = NoInput THEN "context" ELSE "invoke"
<1>4. /\ place \in {"settle", "succeed", "load", "context", "invoke"}
      /\ place = "settle" => record[o] = "FAILED"
      /\ place = "succeed" => record[o] = "SUCCEEDED"
      /\ place = "load" => record[o] = "NONE" /\ plan[o].frozen
      /\ place \in {"context", "invoke"} => record[o] = "NONE" /\ ~plan[o].frozen
  BY <1>2, <1>3
<1>5. Goto(o, place)
  OBVIOUS
<1> HIDE DEF place
<1>6. /\ pc' \in [Ops -> Places] /\ pc'[o] = place
      /\ \A p \in Ops \ {o} : pc'[p] = pc[p]
  BY <1>1, <1>4, <1>5, GotoTypes DEF Places
<1>7. /\ answer' \in [Ops -> Answers \union {NoAnswer}] /\ answer'[o] = plan[o].answer
      /\ \A p \in Ops \ {o} : answer'[p] = answer[p]
  BY <1>1 DEF TypeOK
<1>8. TypeOK'
  BY <1>1, <1>6, <1>7 DEF TypeOK, Places
<1>9. \A p \in Ops \ {o} : Elsewhere(p)
  BY <1>6, <1>7 DEF Elsewhere
<1>10. PlaceInv(o)'
  BY <1>1, <1>4, <1>6 DEF OpInv, PlaceInv
<1>11. SeenInv(o)'
  BY <1>1, <1>4, <1>6 DEF OpInv, SeenInv
<1>12. WorkInv(o)'
  <2>1. (Validated(answer[o]))'
    BY <1>1, <1>7 DEF OpInv, PlanInv, SoundPlan, Validated, Subject, Addressed
  <2> QED BY <1>4, <1>6, <1>7, <2>1 DEF WorkInv, Reading
<1> QED BY <1>8, <1>9, <1>10, <1>11, <1>12, QuietStep

LEMMA SummariesTypes == ASSUME Typed PROVE CandidateSummaries \in [Cases -> Nat]
BY DEF Typed, Rows, CandidateSummaries

LEMMA FreezeInputStep == ASSUME IInv, NEW o \in Ops, FreezeInput(o) PROVE IInv'
<1> USE DEF FreezeInput, store, worker
<1>1. TypeOK /\ OpInv(o)
  BY DEF IInv, OpInv
<1>2. input' \in [Ops -> [Cases -> Nat]]
  BY <1>1, Typing, SummariesTypes DEF TypeOK
<1>3. faults' \in SUBSET FaultKinds
  BY <1>1, FailsTypes DEF TypeOK
<1>4. /\ pc' \in [Ops -> Places] /\ pc'[o] \in {"invoke", "succeed", "settle"}
      /\ \A p \in Ops \ {o} : pc'[p] = pc[p]
  BY <1>1, GotoTypes DEF Places
<1>5. TypeOK'
  BY <1>1, <1>2, <1>3, <1>4 DEF TypeOK, Places
<1>6. \A p \in Ops \ {o} : Elsewhere(p)
  BY <1>4 DEF Elsewhere
<1>7. PlaceInv(o)'
  BY <1>1, <1>4 DEF OpInv, PlaceInv
<1>8. SeenInv(o)' /\ WorkInv(o)'
  BY <1>1, <1>4 DEF OpInv, SeenInv, WorkInv, Reading
<1> QED BY <1>5, <1>6, <1>7, <1>8, QuietStep

LEMMA OwedOrders == ASSUME NEW a, NEW steps, Owed(a, steps) PROVE Ordered(steps)
BY CaseAssumption DEF Owed, Ordered, StepTypes

LEMMA PlanOrders == ASSUME NEW p, SoundPlan(p) PROVE Ordered(p.steps)
BY CaseAssumption DEF SoundPlan, Ordered, FrozenTypes

LEMMA LoadCasesStep == ASSUME IInv, NEW o \in Ops, LoadCases(o) PROVE IInv'
<1> USE DEF LoadCases, store
<1>1. TypeOK /\ OpInv(o)
  BY DEF IInv, OpInv
<1>2. /\ pc' \in [Ops -> Places] /\ pc'[o] = "derive"
      /\ \A p \in Ops \ {o} : pc'[p] = pc[p]
  BY <1>1, GotoTypes DEF Places
<1>3. seen'[o] = cases /\ \A p \in Ops \ {o} : seen'[p] = seen[p]
  <2>1. seen' = [seen EXCEPT ![o] = cases]
    OBVIOUS
  <2> QED BY <1>1, <2>1 DEF TypeOK
<1>4. TypeOK'
  BY <1>1, <1>2 DEF TypeOK, Places
<1>5. \A p \in Ops \ {o} : Elsewhere(p)
  BY <1>2, <1>3 DEF Elsewhere
<1>6. PlaceInv(o)'
  BY <1>1, <1>2 DEF OpInv, PlaceInv
<1>7. SeenInv(o)'
  <2>1. \A c \in Cases : SoundRow(c, cases[c])
    BY DEF IInv, SoundCases
  <2>2. ASSUME NEW c \in Cases PROVE SoundRow(c, seen[o][c])'
    BY <2>1, <1>3 DEF SoundRow, Subject
  <2>3. cases \in [Cases -> Rows]
    BY <1>1 DEF TypeOK
  <2>4. ASSUME NEW c \in Cases PROVE cases[c].version <= cases[c].version
    BY <2>3 DEF Rows
  <2>5. cases' = cases
    OBVIOUS
  <2> HIDE DEF LoadCases
  <2> QED BY <1>3, <2>2, <2>3, <2>4, <2>5 DEF SeenInv
<1>8. WorkInv(o)'
  BY <1>1, <1>2 DEF OpInv, WorkInv, Reading, Validated, Subject, Addressed, NoAnswer
<1> QED BY <1>4, <1>5, <1>6, <1>7, <1>8, QuietStep

LEMMA ProveStep == ASSUME IInv, NEW o \in Ops, Prove(o) PROVE IInv'
<1> USE DEF Prove, store, worker
<1>1. TypeOK /\ OpInv(o)
  BY DEF IInv, OpInv
<1> DEFINE same == {Content(s) : s \in todo[o]} = {Content(s) : s \in Remaining(o)}
<1>2. /\ pc' \in [Ops -> Places] /\ pc'[o] = (IF same THEN "commit" ELSE "settle")
      /\ \A p \in Ops \ {o} : pc'[p] = pc[p]
  BY <1>1, GotoTypes DEF Places
<1>3. TypeOK'
  BY <1>1, <1>2 DEF TypeOK, Places
<1>4. \A p \in Ops \ {o} : Elsewhere(p)
  BY <1>2 DEF Elsewhere
<1>5. PlaceInv(o)' /\ SeenInv(o)'
  BY <1>1, <1>2 DEF OpInv, PlaceInv, SeenInv
<1>6. same => progress[o] + Cardinality(todo[o]) = DataSteps(o)
  <2> SUFFICES ASSUME same PROVE progress[o] + Cardinality(todo[o]) = DataSteps(o)
    OBVIOUS
  <2>1. Ordered(todo[o])
    BY <1>1, OwedOrders DEF OpInv, WorkInv
  <2>2. Ordered(plan[o].steps)
    BY <1>1, PlanOrders DEF OpInv, PlanInv
  <2>3. Remaining(o) \subseteq plan[o].steps
    BY DEF Remaining
  <2>4. record[o] # "SUCCEEDED"
    BY <1>1 DEF OpInv, PlaceInv
  <2>5. progress[o] \in Nat /\ DataSteps(o) \in Nat
    BY <1>1, <2>2, FS_CardinalityType DEF TypeOK, DataSteps, Ordered
  <2>6. progress[o] \in 0 .. Cardinality(plan[o].steps)
    BY <1>1, <2>4, <2>5 DEF OpInv, PlanInv, DataSteps
  <2>7. /\ IsFiniteSet(Remaining(o))
        /\ Cardinality(Remaining(o)) = DataSteps(o) - progress[o]
    BY <2>2, <2>6, PrefixSize DEF Remaining, DataSteps
  <2>8. Ordered(Remaining(o))
    BY <2>2, <2>3, <2>7 DEF Ordered, Keyed
  <2>9. Cardinality(todo[o]) = Cardinality(Remaining(o))
    BY <2>1, <2>8, ContentsCount
  <2> QED BY <2>5, <2>7, <2>9
<1>7. Owed(answer[o], todo[o])'
  <2>1. Owed(answer[o], todo[o]) /\ Validated(answer[o])
    BY <1>1 DEF OpInv, WorkInv, Reading
  <2>2. Typed /\ Typed' /\ Grows
    BY <1>1, <1>3, Typing, GrowsByStanding
  <2> QED BY <2>1, <2>2, OwedStays
<1>8. Remaining(o)' = Remaining(o) /\ DataSteps(o)' = DataSteps(o)
  BY DEF Remaining, DataSteps, Prefix, Position
<1>9. (same)' <=> same
  BY <1>8 DEF Content, Describe
<1>10. (Validated(answer[o]))'
  BY <1>1 DEF OpInv, WorkInv, Reading, Validated, Subject, Addressed, NoAnswer
<1>11. plan[o].frozen => answer[o] = plan[o].answer
  BY <1>1 DEF OpInv, WorkInv, Reading
<1> HIDE DEF same
<1>12. (pc[o] = "commit" => same /\ progress[o] + Cardinality(todo[o]) = DataSteps(o))'
  BY <1>2, <1>6, <1>8, <1>9
<1>13. WorkInv(o)'
  BY <1>2, <1>7, <1>10, <1>11, <1>12 DEF WorkInv, same
<1> QED BY <1>3, <1>4, <1>5, <1>13, QuietStep

LEMMA ReadFailsStep == ASSUME IInv, NEW o \in Ops, ReadFails(o) PROVE IInv'
<1> USE DEF ReadFails, store, worker
<1>1. TypeOK /\ OpInv(o)
  BY DEF IInv, OpInv
<1>2. /\ pc' \in [Ops -> Places]
      /\ pc'[o] = (IF pc[o] = "load" /\ ~plan[o].frozen THEN "refuse" ELSE "settle")
      /\ \A p \in Ops \ {o} : pc'[p] = pc[p]
  BY <1>1, GotoTypes DEF Places
<1>3. faults' \in SUBSET FaultKinds
  BY <1>1, FailsTypes
<1>4. TypeOK'
  BY <1>1, <1>2, <1>3 DEF TypeOK, Places
<1>5. \A p \in Ops \ {o} : Elsewhere(p)
  BY <1>2 DEF Elsewhere
<1>6. PlaceInv(o)'
  BY <1>1, <1>2 DEF OpInv, PlaceInv
<1>7. SeenInv(o)' /\ WorkInv(o)'
  BY <1>1, <1>2 DEF OpInv, SeenInv, WorkInv, Reading
<1> QED BY <1>4, <1>5, <1>6, <1>7, QuietStep

LEMMA ForgetTypes ==
    ASSUME TypeOK, NEW o \in Ops, Forget(o)
    PROVE  /\ answer' \in [Ops -> Answers \union {NoAnswer}]
           /\ DOMAIN seen' = Ops /\ DOMAIN todo' = Ops
           /\ seen'[o] = NothingSeen
           /\ \A p \in Ops \ {o} : answer'[p] = answer[p] /\ seen'[p] = seen[p] /\ todo'[p] = todo[p]
<1>1. answer' \in [Ops -> Answers \union {NoAnswer}]
      /\ \A p \in Ops \ {o} : answer'[p] = answer[p]
  BY DEF TypeOK, Forget
<1>2. seen'[o] = NothingSeen /\ \A p \in Ops \ {o} : seen'[p] = seen[p]
  BY DEF TypeOK, Forget
<1> QED BY <1>1, <1>2 DEF TypeOK, Forget

LEMMA NothingSeenTypes == NothingSeen \in [Cases -> Rows]
BY DEF NothingSeen, NoCase, Rows, CaseStates

LEMMA SettleStep == ASSUME IInv, NEW o \in Ops, Settle(o) PROVE IInv'
<1> USE DEF Settle, store
<1>1. TypeOK /\ OpInv(o)
  BY DEF IInv, OpInv
<1>2. pc[o] \in {"succeed", "recheck", "settle", "release"}
  BY DEF Settled
<1>3. Settled[pc[o]] \in {"PENDING"} \union Terminal
      /\ (Settled[pc[o]] = "PENDING" <=> pc[o] = "release")
      /\ (Settled[pc[o]] = "SUCCEEDED" <=> pc[o] \in {"succeed", "recheck"})
  BY <1>2 DEF Settled, Terminal
<1>4. /\ op' \in [Ops -> [status : {"PENDING", "RUNNING"} \union Terminal,
                          version : Nat, aged : BOOLEAN]]
      /\ op' = op \/ (op'[o].status = Settled[pc[o]] /\ pc'[o] = "idle")
      /\ \A p \in Ops \ {o} : op'[p] = op[p]
  <2>1. CASE Transition(o, Settled[pc[o]]) /\ Goto(o, "idle")
    BY <1>1, <1>3, <2>1, TransitionTypes, GotoTypes DEF Places
  <2>2. CASE op' = op
    <3>1. op \in [Ops -> [status : {"PENDING", "RUNNING"} \union Terminal,
                          version : Nat, aged : BOOLEAN]]
      BY <1>1 DEF TypeOK
    <3> QED BY <2>2, <3>1
  <2> QED BY <2>1, <2>2
<1>5. /\ pc' \in [Ops -> Places]
      /\ pc'[o] = "idle" \/ (pc'[o] = "recheck" /\ record[o] = "SUCCEEDED")
      /\ \A p \in Ops \ {o} : pc'[p] = pc[p]
  <2> HIDE DEF Settle
  <2>1. CASE Goto(o, "idle")
    <3>1. "idle" \in Places
      BY DEF Places
    <3> QED BY <1>1, <2>1, <3>1, GotoTypes
  <2>2. CASE Rechecks(o) /\ Goto(o, "recheck")
    <3>1. "recheck" \in Places
      BY DEF Places
    <3> QED BY <1>1, <2>2, <3>1, GotoTypes DEF Rechecks
  <2> QED BY <2>1, <2>2 DEF Settle
<1>6. held' \in [Ops -> Nat]
  <2>1. held \in [Ops -> Nat] /\ 0 \in Nat
    BY <1>1 DEF TypeOK
  <2> QED BY <2>1
<1>7. faults' \in SUBSET FaultKinds
  BY <1>1, FailsTypes DEF TypeOK
<1>8. Forget(o)
  OBVIOUS
<1>9. TypeOK'
  BY <1>1, <1>4, <1>5, <1>6, <1>7, <1>8, ForgetTypes DEF TypeOK, Places
<1>10. \A p \in Ops \ {o} : Elsewhere(p)
  BY <1>1, <1>4, <1>5, <1>8, ForgetTypes DEF Elsewhere
<1>11. PlaceInv(o)'
  BY <1>1, <1>2, <1>3, <1>4, <1>5 DEF OpInv, PlaceInv, Terminal
<1>12. SeenInv(o)' /\ WorkInv(o)'
  BY <1>1, <1>5, <1>8, ForgetTypes, NothingSeenTypes DEF SeenInv, WorkInv, Reading
<1> QED BY <1>9, <1>10, <1>11, <1>12, QuietStep

LEMMA CrashStep == ASSUME IInv, NEW o \in Ops, Crash(o) PROVE IInv'
<1> USE DEF Crash, store
<1>1. TypeOK /\ OpInv(o)
  BY DEF IInv, OpInv
<1>2. /\ pc' \in [Ops -> Places] /\ pc'[o] = "idle"
      /\ \A p \in Ops \ {o} : pc'[p] = pc[p]
  BY <1>1, GotoTypes DEF Places
<1>3. held' \in [Ops -> Nat]
  BY <1>1 DEF TypeOK
<1>4. faults' \in SUBSET FaultKinds
  BY <1>1, FailsTypes
<1>5. Forget(o)
  OBVIOUS
<1>6. TypeOK'
  BY <1>1, <1>2, <1>3, <1>4, <1>5, ForgetTypes DEF TypeOK, Places
<1>7. \A p \in Ops \ {o} : Elsewhere(p)
  BY <1>1, <1>2, <1>5, ForgetTypes DEF Elsewhere
<1>8. PlaceInv(o)'
  BY <1>1, <1>2 DEF OpInv, PlaceInv
<1>9. SeenInv(o)' /\ WorkInv(o)'
  BY <1>1, <1>2, <1>5, ForgetTypes, NothingSeenTypes DEF SeenInv, WorkInv, Reading
<1> QED BY <1>6, <1>7, <1>8, <1>9, QuietStep

(* What ages, visits and abandons a claim touches its status alone. *)
LEMMA ClaimsStep ==
    ASSUME IInv, NEW o \in Ops, TypeOK', op'[o].status \in {op[o].status, "SUCCEEDED", "FAILED"},
           op'[o].status = "SUCCEEDED" => op[o].status = "SUCCEEDED" \/ record[o] = "SUCCEEDED",
           \A p \in Ops \ {o} : op'[p] = op[p],
           UNCHANGED <<store, plan, asked, pc, worker, moves>>
    PROVE  IInv'
<1> USE DEF store, worker
<1>1. OpInv(o)
  BY DEF IInv, OpInv
<1>2. \A p \in Ops \ {o} : Elsewhere(p)
  BY DEF Elsewhere
<1>3. PlaceInv(o)'
  BY <1>1 DEF OpInv, PlaceInv
<1>4. Typed /\ Typed' /\ Grows
  BY Typing, GrowsByStanding DEF IInv
<1>5. SeenInv(o)' /\ WorkInv(o)'
  BY <1>1, <1>4, SeenStays, WorkStays DEF OpInv
<1> QED BY <1>2, <1>3, <1>5, QuietStep

LEMMA AgeStep == ASSUME IInv, NEW o \in Ops, Age(o) PROVE IInv'
<1> USE DEF Age
<1>1. TypeOK
  BY DEF IInv
<1>2. faults' \in SUBSET FaultKinds
  BY <1>1, FailsTypes DEF TypeOK
<1>3. /\ op' \in [Ops -> [status : {"PENDING", "RUNNING"} \union Terminal,
                          version : Nat, aged : BOOLEAN]]
      /\ op'[o].status = op[o].status
      /\ \A p \in Ops \ {o} : op'[p] = op[p]
  <2>1. op \in [Ops -> [status : {"PENDING", "RUNNING"} \union Terminal,
                        version : Nat, aged : BOOLEAN]]
    BY <1>1 DEF TypeOK
  <2>2. op' = [op EXCEPT ![o].aged = TRUE]
    OBVIOUS
  <2> HIDE DEF Age
  <2> QED BY <2>1, <2>2
<1>4. TypeOK'
  BY <1>1, <1>2, <1>3 DEF TypeOK, store, worker
<1> QED BY <1>3, <1>4, ClaimsStep

LEMMA VisitStep == ASSUME IInv, NEW o \in Ops, Visit(o) PROVE IInv'
<1> USE DEF Visit
<1>1. TypeOK
  BY DEF IInv
<1>2. faults' \in SUBSET FaultKinds
  BY <1>1, FailsTypes DEF TypeOK
<1>3. /\ op' \in [Ops -> [status : {"PENDING", "RUNNING"} \union Terminal,
                          version : Nat, aged : BOOLEAN]]
      /\ op'[o].status = op[o].status
            \/ (op'[o].status = "SUCCEEDED" /\ record[o] = "SUCCEEDED")
      /\ \A p \in Ops \ {o} : op'[p] = op[p]
  <2>1. CASE record[o] = "SUCCEEDED" /\ Transition(o, "SUCCEEDED")
    BY <1>1, <2>1, TransitionTypes DEF Terminal
  <2>2. CASE op' = op
    <3>1. op \in [Ops -> [status : {"PENDING", "RUNNING"} \union Terminal,
                          version : Nat, aged : BOOLEAN]]
      BY <1>1 DEF TypeOK
    <3> QED BY <2>2, <3>1
  <2> QED BY <2>1, <2>2
<1>4. visit' \in [Ops -> Nat]
  <2>1. visit \in [Ops -> Nat] /\ op[o].version \in Nat
    BY <1>1 DEF TypeOK
  <2> QED BY <2>1
<1>5. TypeOK'
  BY <1>1, <1>2, <1>3, <1>4 DEF TypeOK, store, worker
<1> QED BY <1>3, <1>5, ClaimsStep

LEMMA AbandonStep == ASSUME IInv, NEW o \in Ops, Abandon(o) PROVE IInv'
<1> USE DEF Abandon
<1>1. TypeOK
  BY DEF IInv
<1>2. /\ op' \in [Ops -> [status : {"PENDING", "RUNNING"} \union Terminal,
                          version : Nat, aged : BOOLEAN]]
      /\ op'[o].status = op[o].status \/ op'[o].status = "FAILED"
      /\ \A p \in Ops \ {o} : op'[p] = op[p]
  <2>1. CASE Transition(o, "FAILED")
    BY <1>1, <2>1, TransitionTypes DEF Terminal
  <2>2. CASE op' = op
    <3>1. op \in [Ops -> [status : {"PENDING", "RUNNING"} \union Terminal,
                          version : Nat, aged : BOOLEAN]]
      BY <1>1 DEF TypeOK
    <3> QED BY <2>2, <3>1
  <2> QED BY <2>1, <2>2
<1>3. visit' \in [Ops -> Nat]
  BY <1>1 DEF TypeOK
<1>4. TypeOK'
  BY <1>1, <1>2, <1>3 DEF TypeOK, store, worker
<1> QED BY <1>2, <1>4, ClaimsStep

-----------------------------------------------------------------------------
(* The steps that write the store.                                          *)

LEMMA StoreStep ==
    ASSUME IInv, NEW o \in Ops, Grows, TypeOK', SoundCases', CaseIsWhatWasCommitted',
           \A p \in Ops \ {o} : Elsewhere(p), OpInv(o)'
    PROVE  IInv'
<1>1. Typed /\ Typed'
  BY Typing DEF IInv
<1>2. \A p \in Ops \ {o} : OpInv(p)'
  BY <1>1, OthersStay DEF IInv, OpInv
<1> QED BY <1>2 DEF IInv, OpInv

LEMMA RefuseStep == ASSUME IInv, NEW o \in Ops, Refuse(o) PROVE IInv'
<1> USE DEF Refuse, worker
<1>1. TypeOK /\ OpInv(o)
  BY DEF IInv, OpInv
<1>2. /\ pc' \in [Ops -> Places] /\ pc'[o] = "settle"
      /\ \A p \in Ops \ {o} : pc'[p] = pc[p]
  BY <1>1, GotoTypes DEF Places
<1>3. faults' \in SUBSET FaultKinds
  BY <1>1, FailsTypes DEF TypeOK
<1>4. record[o] # "SUCCEEDED" /\ ~plan[o].frozen /\ record \in [Ops -> {"NONE", "SUCCEEDED", "FAILED"}]
  BY <1>1 DEF OpInv, PlaceInv, TypeOK
<1>5. /\ record' \in [Ops -> {"NONE", "SUCCEEDED", "FAILED"}]
      /\ record'[o] # "SUCCEEDED" /\ \A p \in Ops \ {o} : record'[p] = record[p]
  BY <1>4
<1>6. TypeOK'
  BY <1>1, <1>2, <1>3, <1>5 DEF TypeOK, Places
<1>7. \A p \in Ops \ {o} : Elsewhere(p)
  BY <1>2, <1>5 DEF Elsewhere
<1>8. SoundCases' /\ Grows
  BY <1>1, Typing, GrowsByStanding DEF IInv, SoundCases, SoundRow, Subject
<1>9. CaseIsWhatWasCommitted'
  BY LedgerStands, CommittedStays DEF IInv
<1>10. PlanInv(o)'
  <2>1. SoundPlan(plan[o])'
    BY <1>1 DEF OpInv, PlanInv, SoundPlan, Keyed, Marked, Leads, Validated, Subject, Addressed
  <2>2. progress[o] <= DataSteps(o)
    BY <1>1, <1>4 DEF OpInv, PlanInv
  <2> QED BY <1>1, <2>1, <2>2 DEF OpInv, PlanInv, DataSteps
<1>11. PlaceInv(o)'
  BY <1>1, <1>2, <1>4, <1>5 DEF OpInv, PlaceInv
<1>12. SeenInv(o)' /\ WorkInv(o)' /\ Recorded(o)'
  BY <1>1, <1>2, <1>5 DEF OpInv, SeenInv, WorkInv, Reading, Recorded
<1>13. OpInv(o)'
  BY <1>10, <1>11, <1>12 DEF OpInv
<1> QED BY <1>6, <1>7, <1>8, <1>9, <1>13, StoreStep

LEMMA FinalizeStep == ASSUME IInv, NEW o \in Ops, Finalize(o) PROVE IInv'
<1>1. TypeOK /\ OpInv(o)
  BY DEF IInv, OpInv
<1>2. /\ pc[o] = "commit" /\ todo[o] = {}
      /\ (UNCHANGED store /\ Goto(o, "release"))
         \/ (Finalizable(o) /\ Complete(o) /\ (Goto(o, "succeed") \/ Goto(o, "release")))
      /\ UNCHANGED faults \/ Fails("write")
      /\ UNCHANGED <<op, input, plan, asked, held, worker, visit, moves>>
  BY DEF Finalize
<1>3. /\ pc' \in [Ops -> Places] /\ pc'[o] \in {"succeed", "release"}
      /\ \A p \in Ops \ {o} : pc'[p] = pc[p]
  <2>1. "succeed" \in Places /\ "release" \in Places
    BY DEF Places
  <2> QED BY <1>1, <1>2, <2>1, GotoTypes
<1>4. faults' \in SUBSET FaultKinds
  BY <1>1, <1>2, FailsTypes DEF TypeOK
<1>5. CASE UNCHANGED store /\ Goto(o, "release")
  <2>1. pc'[o] = "release"
    BY <1>1, <1>5, GotoTypes DEF Places
  <2>2. TypeOK'
    BY <1>1, <1>2, <1>3, <1>4, <1>5 DEF TypeOK, Places, store, worker
  <2>3. \A p \in Ops \ {o} : Elsewhere(p)
    BY <1>2, <1>3, <1>5 DEF Elsewhere, store, worker
  <2>4. PlaceInv(o)' /\ SeenInv(o)' /\ WorkInv(o)'
    BY <1>1, <1>2, <1>5, <2>1 DEF OpInv, PlaceInv, SeenInv, WorkInv, Reading, store, worker
  <2> QED BY <1>2, <1>5, <2>2, <2>3, <2>4, QuietStep DEF store
<1>6. CASE Finalizable(o) /\ Complete(o)
  <2>1. /\ record \in [Ops -> {"NONE", "SUCCEEDED", "FAILED"}]
        /\ progress \in [Ops -> Nat]
    BY <1>1 DEF TypeOK
  <2>2. Ordered(plan[o].steps)
    BY <1>1, PlanOrders DEF OpInv, PlanInv
  <2>3. DataSteps(o) \in Nat /\ progress[o] = DataSteps(o)
    BY <1>6, <2>2, FS_CardinalityType DEF Finalizable, DataSteps, Ordered
  <2>4. /\ record' \in [Ops -> {"NONE", "SUCCEEDED", "FAILED"}]
        /\ record'[o] = "SUCCEEDED" /\ \A p \in Ops \ {o} : record'[p] = record[p]
    BY <1>6, <2>1 DEF Complete
  <2>5. /\ progress' \in [Ops -> Nat]
        /\ progress'[o] = DataSteps(o) + 1 /\ \A p \in Ops \ {o} : progress'[p] = progress[p]
    BY <1>6, <2>1, <2>3 DEF Complete
  <2>6. UNCHANGED <<cases, signals, audited, plan, moves>>
    BY <1>2, <1>6 DEF Complete
  <2>7. TypeOK'
    BY <1>1, <1>2, <1>3, <1>4, <2>4, <2>5, <2>6 DEF TypeOK, Places, worker
  <2>8. \A p \in Ops \ {o} : Elsewhere(p)
    BY <1>2, <1>3, <2>4, <2>5 DEF Elsewhere, worker
  <2>9. SoundCases' /\ Grows
    BY <1>1, <2>6, Typing, GrowsByStanding DEF IInv, SoundCases, SoundRow, Subject
  <2>10. CaseIsWhatWasCommitted'
    <3>1. Committed(o)' = Committed(o)
      <4>1. DataSteps(o) + 1 \in Nat /\ DataSteps(o) <= DataSteps(o) + 1 /\ DataSteps(o) <= DataSteps(o)
        BY <2>3
      <4>2. Prefix(plan[o].steps, DataSteps(o) + 1) = plan[o].steps
            /\ Prefix(plan[o].steps, DataSteps(o)) = plan[o].steps
        BY <2>2, <2>3, <4>1, PrefixEnds DEF DataSteps
      <4>3. Committed(o)' = Prefix(plan[o].steps, DataSteps(o) + 1)
        BY <2>5, <2>6 DEF Committed, Prefix, Position
      <4> QED BY <2>3, <4>2, <4>3 DEF Committed
    <3>2. \A p \in Ops \ {o} : Committed(p)' = Committed(p)
      BY <2>5, <2>6 DEF Committed, Prefix, Position
    <3> QED BY <2>6, <3>1, <3>2, LedgerStands DEF IInv
  <2>11. DataSteps(o)' = DataSteps(o) /\ plan[o].frozen
    BY <1>1, <1>2, <2>6 DEF DataSteps, OpInv, PlaceInv
  <2>12. PlanInv(o)'
    <3>1. SoundPlan(plan[o])'
      BY <1>1, <2>6 DEF OpInv, PlanInv, SoundPlan, Keyed, Marked, Leads, Validated, Subject, Addressed
    <3> QED BY <1>1, <2>4, <2>6, <2>11, <3>1 DEF OpInv, PlanInv
  <2>13. PlaceInv(o)'
    BY <1>1, <1>2, <1>3, <2>4, <2>6, <2>11 DEF OpInv, PlaceInv
  <2>14. SeenInv(o)' /\ WorkInv(o)'
    BY <1>1, <1>2, <1>3 DEF OpInv, SeenInv, WorkInv, Reading, worker
  <2>15. Recorded(o)'
    <3>1. Covered(plan[o].answer, {})
      BY <1>1, <1>2, <2>11 DEF OpInv, WorkInv, Reading, Owed
    <3>2. Covered(plan[o].answer, {})'
      BY <2>6, <3>1 DEF Covered, Addressed
    <3> QED BY <2>5, <2>11, <3>2 DEF Recorded
  <2>16. OpInv(o)'
    BY <2>12, <2>13, <2>14, <2>15 DEF OpInv
  <2> QED BY <2>7, <2>8, <2>9, <2>10, <2>16, StoreStep
<1> QED BY <1>2, <1>5, <1>6

LEMMA MoveCaseStep == ASSUME IInv, NEW c \in Cases, MoveCase(c) PROVE IInv'
<1>1. TypeOK /\ SoundCases /\ Typed
  BY Typing DEF IInv
<1>2. PICK state \in {"OPEN", "CLOSED"} :
          /\ cases[c].version > 0
          /\ cases' = [cases EXCEPT ![c].state = state, ![c].version = @ + 1]
          /\ moves[c] < MaxMoves
          /\ moves' = [moves EXCEPT ![c] = @ + 1]
          /\ UNCHANGED <<signals, audited, progress, record>>
          /\ UNCHANGED <<op, input, plan, asked, pc, held, worker, visit, faults>>
  BY DEF MoveCase
<1>3. cases \in [Cases -> Rows] /\ cases[c] \in Rows /\ cases[c].version \in Nat
  BY <1>1 DEF TypeOK, Rows
<1>4. /\ cases' \in [Cases -> Rows]
      /\ cases'[c].version = cases[c].version + 1 /\ cases'[c].state = state
      /\ cases'[c].reports = cases[c].reports /\ cases'[c].facts = cases[c].facts
      /\ \A d \in Cases \ {c} : cases'[d] = cases[d]
  BY <1>2, <1>3 DEF Rows, CaseStates
<1>5. /\ moves' \in [Cases -> 0 .. MaxMoves]
      /\ moves'[c] = moves[c] + 1 /\ moves[c] \in Nat
      /\ \A d \in Cases \ {c} : moves'[d] = moves[d]
  <2>1. moves \in [Cases -> 0 .. MaxMoves]
    BY <1>1 DEF TypeOK
  <2> QED BY <1>2, <2>1, NumberAssumption
<1>6. TypeOK'
  <2>1. \A d \in Cases : IF cases'[d].version = 0 THEN cases'[d] = NoCase
                                                  ELSE cases'[d].state \in CaseStates
    <3>1. CASE TRUE
      <4> TAKE d \in Cases
      <4>1. CASE d = c
        BY <1>3, <1>4, <4>1 DEF CaseStates
      <4>2. CASE d # c
        BY <1>1, <1>4, <4>2 DEF TypeOK
      <4> QED BY <4>1, <4>2
    <3> QED BY <3>1
  <2> QED BY <1>1, <1>2, <1>4, <1>5, <2>1 DEF TypeOK, worker
<1>7. Grows
  <2>1. \A d \in Cases : /\ cases[d].version <= cases'[d].version
                         /\ cases[d].version = cases'[d].version => cases'[d] = cases[d]
                         /\ cases[d].reports \subseteq cases'[d].reports
                         /\ cases[d].facts \subseteq cases'[d].facts
    <3> TAKE d \in Cases
    <3>1. cases[d].version \in Nat
      BY <1>3 DEF Rows
    <3>2. CASE d = c
      BY <1>4, <3>1, <3>2
    <3>3. CASE d # c
      BY <1>4, <3>1, <3>3
    <3> QED BY <3>2, <3>3
  <2>2. \A m \in Messages : signals[m].version <= signals'[m].version /\ signals'[m] = signals[m]
    BY <1>1, <1>2 DEF Typed, Signals
  <2> QED BY <2>1, <2>2 DEF Grows
<1>8. SoundCases'
  <2> SUFFICES ASSUME NEW d \in Cases PROVE SoundRow(d, cases[d])'
    BY DEF SoundCases
  <2>1. SoundRow(d, cases[d])
    BY <1>1 DEF SoundCases
  <2>2. CASE d = c
    <3>1. cases'[d].version # 0 /\ cases'[d].state \in CaseStates
      BY <1>3, <1>4, <2>2 DEF CaseStates
    <3> QED BY <1>4, <2>1, <2>2, <3>1 DEF SoundRow, OneValue, Subject
  <2>3. CASE d # c
    BY <1>4, <2>1, <2>3 DEF SoundRow, Subject
  <2> QED BY <2>2, <2>3
<1>9. CaseIsWhatWasCommitted'
  <2> SUFFICES ASSUME NEW d \in Cases PROVE Ledger(d)'
    BY LedgerByCase
  <2>1. Ledger(d)
    BY LedgerByCase DEF IInv
  <2>2. Writes(d)' = Writes(d)
    BY <1>2, WritesStay, CommittedStays
  <2>3. Written(d)' = Written(d)
    BY <2>2 DEF Written
  <2>4. CASE d # c
    BY <1>2, <1>4, <1>5, <2>1, <2>2, <2>3, <2>4 DEF Ledger, Initially
  <2>5. CASE d = c
    <3>1. Initially(d).version \in Nat /\ Cardinality(Writes(d)) \in Int
      <4>1. Initially(d).version \in Nat
        BY DEF Initially
      <4>2. \A o \in Ops : SoundPlan(plan[o])
        BY DEF IInv, PlanInv
      <4> QED BY <4>1, <4>2, WritesFinite, FS_CardinalityType
    <3>2. cases'[d].version = Initially(d).version + moves'[d] + Cardinality(Writes(d))
      BY <1>4, <1>5, <2>1, <2>5, <3>1 DEF Ledger
    <3> QED BY <1>2, <1>4, <2>1, <2>2, <2>3, <2>5, <3>2 DEF Ledger, Initially
  <2> QED BY <2>4, <2>5
<1>10. \A p \in Ops : OpInv(p)'
  <2>1. \A p \in Ops : Elsewhere(p)
    BY <1>2 DEF Elsewhere, worker
  <2> QED BY <1>1, <1>6, <1>7, <2>1, Typing, OthersStay DEF IInv, OpInv
<1> QED BY <1>6, <1>8, <1>9, <1>10 DEF IInv, OpInv

(* What is frozen of what was planned. *)
LEMMA DescribeTypes ==
    ASSUME NEW s \in StepTypes
    PROVE  /\ Describe(s) \in FrozenTypes
           /\ Describe(s).case = s.case /\ Describe(s).new = s.new
           /\ Describe(s).expected = s.expected /\ Describe(s).first = s.first
<1> DEFINE items == {<<i[1], i[2], IF i[1] = 2 THEN i[3] ELSE 0>> : i \in s.items}
<1>1. items \in SUBSET ItemTypes
  <2> SUFFICES ASSUME NEW i \in s.items
      PROVE <<i[1], i[2], IF i[1] = 2 THEN i[3] ELSE 0>> \in ItemTypes
    OBVIOUS
  <2>1. i \in ItemTypes
    BY DEF StepTypes
  <2>2. i[1] \in {1, 2, 3} /\ i[2] \in Nat /\ i[3] \in Nat
    BY <2>1 DEF ItemTypes
  <2> QED BY <2>2 DEF ItemTypes
<1>2. Describe(s) = [case |-> s.case, new |-> s.new, expected |-> s.expected,
                     first |-> s.first, items |-> items]
  BY DEF Describe
<1>3. s.case \in Cases /\ s.new \in BOOLEAN /\ s.expected \in Nat /\ s.first \in BOOLEAN
  BY DEF StepTypes
<1> HIDE DEF items
<1> QED BY <1>1, <1>2, <1>3 DEF FrozenTypes

LEMMA PlanOfOwed ==
    ASSUME NEW a, Validated(a), NEW steps, Owed(a, steps), Marked(steps)
    PROVE  SoundPlan([answer |-> a, frozen |-> TRUE, steps |-> {Describe(s) : s \in steps}])
<1> DEFINE frozen == {Describe(s) : s \in steps}
           by == [s \in steps |-> Describe(s)]
<1>1. steps \subseteq StepTypes /\ IsFiniteSet(steps) /\ Keyed(steps)
  BY DEF Owed
<1>2. by \in Surjection(steps, frozen)
  BY DEF Surjection
<1>3. IsFiniteSet(frozen)
  BY <1>1, <1>2, FS_Surjection
<1>4. frozen \subseteq FrozenTypes
  BY <1>1, DescribeTypes
<1>5. Keyed(frozen)
  <2> SUFFICES ASSUME NEW s \in steps, NEW t \in steps, SameGroup(Describe(s), Describe(t)),
                      Describe(s).expected = Describe(t).expected
      PROVE  Describe(s) = Describe(t)
    BY DEF Keyed
  <2>1. SameGroup(s, t) /\ s.expected = t.expected
    BY <1>1, DescribeTypes DEF SameGroup
  <2> QED BY <1>1, <2>1 DEF Keyed
<1>6. Marked(frozen)
  <2> SUFFICES ASSUME NEW s \in steps
      PROVE  Describe(s).first <=> Leads(Describe(s), frozen)
    BY DEF Marked
  <2>1. Leads(Describe(s), frozen) <=> Leads(s, steps)
    <3>1. \A t \in steps : /\ SameGroup(Describe(s), Describe(t)) <=> SameGroup(s, t)
                           /\ Describe(s).expected = s.expected
                           /\ Describe(t).expected = t.expected
      BY <1>1, DescribeTypes DEF SameGroup
    <3> QED BY <3>1 DEF Leads
  <2> QED BY <1>1, <2>1, DescribeTypes DEF Marked
<1> HIDE DEF frozen
<1> QED BY <1>3, <1>4, <1>5, <1>6 DEF SoundPlan, frozen

LEMMA FreezePlanStep == ASSUME IInv, NEW o \in Ops, FreezePlan(o) PROVE IInv'
<1>1. TypeOK /\ OpInv(o)
  BY DEF IInv, OpInv
<1> DEFINE new == [answer |-> answer[o], frozen |-> TRUE,
                   steps  |-> {Describe(s) : s \in todo[o]}]
<1>2. /\ pc[o] = "freeze"
      /\ (plan' = plan /\ Goto(o, "settle"))
         \/ (plan' = [plan EXCEPT ![o] = new] /\ (Goto(o, "settle") \/ Goto(o, "prove")))
      /\ UNCHANGED faults \/ Fails("write")
      /\ UNCHANGED <<store, op, input, asked, held, worker, visit, moves>>
  BY DEF FreezePlan
<1> HIDE DEF new
<1>3. /\ pc' \in [Ops -> Places] /\ pc'[o] \in {"settle", "prove"}
      /\ \A p \in Ops \ {o} : pc'[p] = pc[p]
  <2>1. "settle" \in Places /\ "prove" \in Places
    BY DEF Places
  <2> QED BY <1>1, <1>2, <2>1, GotoTypes
<1>4. faults' \in SUBSET FaultKinds
  BY <1>1, <1>2, FailsTypes DEF TypeOK
<1>5. CASE plan' = plan /\ Goto(o, "settle")
  <2>1. pc'[o] = "settle"
    BY <1>1, <1>5, GotoTypes DEF Places
  <2>2. TypeOK'
    BY <1>1, <1>2, <1>3, <1>4, <1>5 DEF TypeOK, Places, store, worker
  <2>3. \A p \in Ops \ {o} : Elsewhere(p)
    BY <1>2, <1>3, <1>5 DEF Elsewhere, store, worker
  <2>4. PlaceInv(o)' /\ SeenInv(o)' /\ WorkInv(o)'
    BY <1>1, <1>2, <1>5, <2>1 DEF OpInv, PlaceInv, SeenInv, WorkInv, Reading, store, worker
  <2> QED BY <1>2, <1>5, <2>2, <2>3, <2>4, QuietStep DEF store
<1>6. CASE plan' = [plan EXCEPT ![o] = new]
  <2>1. ~plan[o].frozen /\ record[o] = "NONE" /\ progress[o] = 0
        /\ Validated(answer[o]) /\ Owed(answer[o], todo[o]) /\ Marked(todo[o])
    BY <1>1, <1>2 DEF OpInv, PlaceInv, PlanInv, WorkInv, Reading, TypeOK
  <2>2. SoundPlan(new) /\ new.frozen /\ new.answer = answer[o]
        /\ new = [answer |-> new.answer, steps |-> new.steps, frozen |-> new.frozen]
    BY <2>1, PlanOfOwed DEF new
  <2>3. plan'[o] = new /\ (\A p \in Ops \ {o} : plan'[p] = plan[p]) /\ DOMAIN plan' = Ops
    BY <1>1, <1>6 DEF TypeOK
  <2>4. answer[o] \in Answers \union {NoAnswer}
    BY <1>1 DEF TypeOK
  <2>5. TypeOK'
    <3>1. \A p \in Ops : plan'[p].answer \in Answers \union {NoAnswer}
                         /\ plan'[p].frozen \in BOOLEAN
      BY <1>1, <2>2, <2>3, <2>4 DEF TypeOK
    <3> QED BY <1>1, <1>2, <1>3, <1>4, <2>3, <3>1 DEF TypeOK, Places, store, worker
  <2>6. \A p \in Ops \ {o} : Elsewhere(p)
    BY <1>2, <1>3, <2>3 DEF Elsewhere, store, worker
  <2>7. SoundCases' /\ Grows /\ Typed /\ Typed'
    BY <1>1, <1>2, <2>5, Typing, GrowsByStanding DEF IInv, SoundCases, SoundRow, Subject, store
  <2>8. CaseIsWhatWasCommitted'
    <3>1. Committed(o)' = Committed(o)
      <4>1. Ordered(plan[o].steps) /\ Ordered(new.steps)
        BY <1>1, <2>2, PlanOrders DEF OpInv, PlanInv
      <4>2. Prefix(plan[o].steps, 0) = {} /\ Prefix(new.steps, 0) = {}
        BY <4>1, PrefixEnds
      <4>3. Committed(o)' = Prefix(new.steps, 0)
        BY <1>2, <2>1, <2>3 DEF Committed, Prefix, Position, store
      <4> QED BY <2>1, <4>2, <4>3 DEF Committed
    <3>2. \A p \in Ops \ {o} : Committed(p)' = Committed(p)
      BY <1>2, <2>3 DEF Committed, Prefix, Position, store
    <3> QED BY <1>2, <3>1, <3>2, LedgerStands DEF IInv, store
  <2>9. PlanInv(o)'
    <3>1. SoundPlan(plan[o])'
      BY <2>2, <2>3 DEF SoundPlan, Keyed, Marked, Leads, Validated, Subject, Addressed
    <3>2. Cardinality(new.steps) \in Nat
      BY <2>2, FS_CardinalityType DEF SoundPlan
    <3>3. progress'[o] = 0
      BY <1>2, <2>1 DEF store
    <3> QED BY <2>2, <2>3, <3>1, <3>2, <3>3 DEF PlanInv, DataSteps
  <2>10. PlaceInv(o)'
    BY <1>1, <1>2, <1>3, <2>1, <2>2, <2>3 DEF OpInv, PlaceInv, store
  <2>11. SeenInv(o)'
    BY <1>1, <1>2, <1>3 DEF OpInv, SeenInv, worker
  <2>12. WorkInv(o)'
    <3>1. Validated(answer[o])' /\ answer'[o] = plan'[o].answer
      BY <1>2, <2>1, <2>2, <2>3 DEF Validated, Subject, Addressed, worker
    <3>2. Owed(answer[o], todo[o])'
      BY <1>2, <2>1, <2>7, OwedStays DEF worker
    <3> QED BY <1>3, <3>1, <3>2 DEF WorkInv
  <2>13. Recorded(o)'
    BY <1>2, <2>1 DEF Recorded, store
  <2>14. OpInv(o)'
    BY <2>9, <2>10, <2>11, <2>12, <2>13 DEF OpInv
  <2> QED BY <2>5, <2>6, <2>7, <2>8, <2>14, StoreStep
<1> QED BY <1>2, <1>5, <1>6

-----------------------------------------------------------------------------
(* One committed step.  The step taken from memory and the one next in the  *)
(* frozen plan are the same.                                                *)

Slots(items) == {i[2] : i \in {j \in items : j[1] = 3}}

LEMMA ContentItems ==
    ASSUME NEW s, NEW d, Content(s) = Content(d)
    PROVE  /\ s.case = d.case
           /\ ReportsIn(s.items) = ReportsIn(d.items)
           /\ MessagesIn(s.items) = MessagesIn(d.items)
           /\ Slots(s.items) = Slots(d.items)
<1>1. s.case = d.case /\ Describe(s).items = Describe(d).items
  BY DEF Content
<1>2. ASSUME NEW t
      PROVE  /\ ReportsIn(t.items) = ReportsIn(Describe(t).items)
             /\ MessagesIn(t.items) = MessagesIn(Describe(t).items)
             /\ Slots(t.items) = Slots(Describe(t).items)
  <2>1. Describe(t).items = {<<i[1], i[2], IF i[1] = 2 THEN i[3] ELSE 0>> : i \in t.items}
    BY DEF Describe
  <2>2. ASSUME NEW i \in t.items
        PROVE  \E j \in Describe(t).items : j[1] = i[1] /\ j[2] = i[2]
    <3>1. <<i[1], i[2], IF i[1] = 2 THEN i[3] ELSE 0>> \in Describe(t).items
      BY <2>1
    <3> QED BY <3>1
  <2>3. ASSUME NEW j \in Describe(t).items
        PROVE  \E i \in t.items : j[1] = i[1] /\ j[2] = i[2]
    BY <2>1
  <2>4. \A x : x \in ReportsIn(t.items) <=> \E i \in t.items : i[1] = 1 /\ i[2] = x
    BY DEF ReportsIn
  <2>5. \A x : x \in ReportsIn(Describe(t).items) <=>
                  \E i \in Describe(t).items : i[1] = 1 /\ i[2] = x
    BY DEF ReportsIn
  <2>6. \A x : x \in Slots(t.items) <=> \E i \in t.items : i[1] = 3 /\ i[2] = x
    BY DEF Slots
  <2>7. \A x : x \in Slots(Describe(t).items) <=>
                  \E i \in Describe(t).items : i[1] = 3 /\ i[2] = x
    BY DEF Slots
  <2>8. \A x : x \in ReportsIn(t.items) <=> x \in ReportsIn(Describe(t).items)
    BY <2>2, <2>3, <2>4, <2>5
  <2>9. \A x : x \in Slots(t.items) <=> x \in Slots(Describe(t).items)
    BY <2>2, <2>3, <2>6, <2>7
  <2>10. \A x : x \in MessagesIn(t.items) <=> \E i \in t.items : i[1] = 2 /\ i[2] = x
    BY DEF MessagesIn
  <2>11. \A x : x \in MessagesIn(Describe(t).items) <=>
                  \E i \in Describe(t).items : i[1] = 2 /\ i[2] = x
    BY DEF MessagesIn
  <2>12. \A x : x \in MessagesIn(t.items) <=> x \in MessagesIn(Describe(t).items)
    BY <2>2, <2>3, <2>10, <2>11
  <2> QED BY <2>8, <2>9, <2>12
<1> QED BY <1>1, <1>2

LEMMA NextStep ==
    ASSUME IInv, NEW o \in Ops, pc[o] = "commit", todo[o] # {}
    PROVE  LET s == First(todo[o])
               d == Frozen(o, s)
               done == Prefix(plan[o].steps, progress[o])
           IN /\ s \in todo[o] /\ Leads(s, todo[o])
              /\ d \in plan[o].steps /\ Content(s) = Content(d)
              /\ DataSteps(o) \in Nat /\ progress[o] \in Nat /\ progress[o] < DataSteps(o)
              /\ Number(o) = progress[o] + 1
              /\ d \notin done /\ Prefix(plan[o].steps, progress[o] + 1) = done \union {d}
              /\ Contents(todo[o] \ {s}) = Contents(plan[o].steps \ (done \union {d}))
              /\ ~d.first => \E t \in done : t.case = s.case
              /\ \A e \in plan[o].steps : Earlier(e, d) => e \in done
<1> DEFINE steps == plan[o].steps
           n == progress[o]
           s == First(todo[o])
           done == Prefix(steps, n)
<1>1. TypeOK /\ OpInv(o)
  BY DEF IInv, OpInv
<1>2. Ordered(todo[o]) /\ Ordered(steps)
  BY <1>1, OwedOrders, PlanOrders DEF OpInv, WorkInv, PlanInv
<1>3. Cardinality(todo[o]) \in Nat \ {0} /\ Cardinality(steps) \in Nat /\ n \in Nat
  BY <1>1, <1>2, FS_CardinalityType, FS_EmptySet DEF Ordered, TypeOK
<1>4. n + Cardinality(todo[o]) = DataSteps(o) /\ DataSteps(o) = Cardinality(steps)
  BY <1>1 DEF OpInv, WorkInv, DataSteps
<1>5. n < DataSteps(o) /\ Number(o) = n + 1 /\ n + 1 \in 1 .. Cardinality(steps)
  BY <1>3, <1>4 DEF Number
<1>6. s \in todo[o] /\ (\A t \in todo[o] : t = s \/ Earlier(s, t)) /\ Leads(s, todo[o])
  BY <1>2, FirstIsEarliest
<1>7. PICK d \in steps : Position(steps, d) = n + 1
  BY <1>2, <1>5, PositionCovers
<1>8. Frozen(o, s) = d
  <2>1. \A e \in steps : Position(steps, e) = n + 1 => e = d
    BY <1>2, <1>7, PositionTells
  <2>2. Frozen(o, s) = CHOOSE e \in steps : Position(steps, e) = n + 1
    BY <1>5 DEF Frozen
  <2>3. Frozen(o, s) \in steps /\ Position(steps, Frozen(o, s)) = n + 1
    BY <1>7, <2>2
  <2> QED BY <2>1, <2>3
<1> HIDE DEF s, steps, n
<1>9. /\ d \notin done
      /\ Prefix(steps, n + 1) = done \union {d}
      /\ \A e \in steps \ done : e = d \/ Earlier(d, e)
      /\ \A e \in steps : Earlier(e, d) => e \in done
  BY <1>2, <1>3, <1>7, PrefixGrows
<1>10. Contents(todo[o]) = Contents(steps \ done)
  BY <1>1 DEF OpInv, WorkInv, Remaining, Contents, steps, n
<1>11. Ordered(steps \ done)
  <2>1. steps \ done \in SUBSET steps
    OBVIOUS
  <2>2. IsFiniteSet(steps \ done)
    BY <1>2, <2>1, FS_Subset DEF Ordered
  <2> HIDE DEF done
  <2> QED BY <1>2, <2>2 DEF Ordered, Keyed
<1>12. /\ Content(s) = Content(d)
       /\ Contents(todo[o] \ {s}) = Contents((steps \ done) \ {d})
  <2> DEFINE left == steps \ done
  <2>1. d \in left /\ \A e \in left : e = d \/ Earlier(d, e)
    BY <1>9
  <2>2. Ordered(left) /\ Contents(todo[o]) = Contents(left)
    BY <1>10, <1>11
  <2> HIDE DEF left
  <2>3. /\ Content(s) = Content(d)
        /\ Contents(todo[o] \ {s}) = Contents(left \ {d})
    BY <1>2, <1>6, <2>1, <2>2, EarliestMatch
  <2> QED BY <2>3 DEF left
<1>13. (steps \ done) \ {d} = steps \ (done \union {d})
  OBVIOUS
<1>14. ~d.first => \E t \in done : t.case = s.case
  <2> SUFFICES ASSUME ~d.first PROVE \E t \in done : t.case = s.case
    OBVIOUS
  <2>1. Marked(steps)
    BY <1>1 DEF OpInv, PlanInv, SoundPlan, steps
  <2>2. PICK t \in steps : SameGroup(d, t) /\ ~(d.expected <= t.expected)
    BY <2>1 DEF Marked, Leads
  <2>3. d.expected \in Nat /\ t.expected \in Nat
    BY <1>2 DEF Ordered
  <2>4. Earlier(t, d)
    BY <2>2, <2>3 DEF Earlier, SameGroup
  <2>5. t.case = d.case /\ d.case = s.case
    BY <1>12, <2>2 DEF SameGroup, Content
  <2> QED BY <1>9, <2>4, <2>5
<1>15. Contents(todo[o] \ {s}) = Contents(steps \ (done \union {d}))
  BY <1>12, <1>13
<1>16. /\ s \in todo[o] /\ Leads(s, todo[o])
       /\ d \in steps /\ Content(s) = Content(d)
       /\ DataSteps(o) \in Nat /\ n \in Nat /\ n < DataSteps(o)
       /\ Number(o) = n + 1
       /\ d \notin done /\ Prefix(steps, n + 1) = done \union {d}
       /\ ~d.first => \E t \in done : t.case = s.case
       /\ \A e \in steps : Earlier(e, d) => e \in done
  BY <1>3, <1>4, <1>5, <1>6, <1>9, <1>12, <1>14
<1> HIDE DEF done
<1> QED BY <1>8, <1>15, <1>16 DEF s, steps, n, done

(* The store after the step. *)
Moves(s) ==
    /\ cases' = [cases EXCEPT ![s.case] = s.row]
    /\ signals' = [m \in Messages |->
                     IF m \in MessagesIn(s.items)
                     THEN [case |-> s.case, state |-> s.row.state, related |-> s.related,
                           version |-> signals[m].version + 1]
                     ELSE signals[m]]

LEMMA StepGrows ==
    ASSUME IInv, NEW o \in Ops, Owed(answer[o], todo[o]), NEW s \in todo[o], Leads(s, todo[o]),
           CaseHolds(s), SignalsHold(s), Moves(s)
    PROVE  /\ Grows /\ Typed' /\ SoundCases'
           /\ \A c \in Cases : IF cases'[c].version = 0 THEN cases'[c] = NoCase
                                                        ELSE cases'[c].state \in CaseStates
           /\ s.case \in Cases /\ Builds(cases[s.case], s)
           /\ cases'[s.case] = s.row /\ s.row.version = cases[s.case].version + 1
           /\ cases'[s.case].reports = cases[s.case].reports \union ReportsIn(s.items)
           /\ cases'[s.case].facts = cases[s.case].facts \union FactsIn(s.items)
           /\ \A c \in Cases \ {s.case} : cases'[c] = cases[c]
           /\ \A m \in MessagesIn(s.items) : signals'[m].case = s.case
<1> DEFINE c == s.case
<1>1. Typed /\ SoundCases /\ TypeOK
  BY Typing DEF IInv
<1>2. s \in StepTypes
  BY DEF Owed
<1>3. c \in Cases /\ s.expected \in Nat /\ s.items \subseteq ItemTypes /\ s.row \in Rows
      /\ s.related \in Nat
  BY <1>2 DEF StepTypes
<1>4. cases[c].version = s.expected /\ Builds(cases[c], s)
  BY DEF Owed, Founded, CaseHolds
<1>5. /\ s.row.version = s.expected + 1
      /\ s.row.reports = cases[c].reports \union ReportsIn(s.items)
      /\ s.row.facts = cases[c].facts \union FactsIn(s.items)
  BY <1>4 DEF Builds
<1>6. SoundRow(c, s.row)
  BY DEF Owed, Lasting
<1>7. cases'[c] = s.row /\ (\A d \in Cases \ {c} : cases'[d] = cases[d])
      /\ cases' \in [Cases -> Rows]
  BY <1>1, <1>3 DEF Moves, Typed
<1>8. \A i \in s.items : i[1] = 2 =>
         /\ i[2] \in Messages
         /\ i[3] = signals[i[2]].version
         /\ signals[i[2]].case \in {0, c}
  <2> SUFFICES ASSUME NEW i \in s.items, i[1] = 2
      PROVE /\ i[2] \in Messages
            /\ i[3] = signals[i[2]].version
            /\ signals[i[2]].case \in {0, c}
    OBVIOUS
  <2>1. i[3] = signals[i[2]].version
    BY DEF SignalsHold
  <2> QED BY <2>1 DEF Owed, Signalled
<1>9. \A m \in MessagesIn(s.items) : m \in Messages /\ signals[m].case \in {0, c}
  BY <1>8 DEF MessagesIn
<1>10. \A m \in Messages : m \notin MessagesIn(s.items) => signals'[m] = signals[m]
  BY DEF Moves
<1>21. ASSUME NEW m \in Messages, m \in MessagesIn(s.items)
       PROVE  /\ signals'[m] = [case |-> c, state |-> s.row.state, related |-> s.related,
                                version |-> signals[m].version + 1]
              /\ signals'[m].case = c /\ signals'[m].version = signals[m].version + 1
  <2>1. signals'[m] = [case |-> c, state |-> s.row.state, related |-> s.related,
                       version |-> signals[m].version + 1]
    BY <1>21 DEF Moves
  <2> QED BY <2>1
<1>11. s.row.state \in CaseStates \union {"NONE"}
  BY <1>3 DEF Rows
<1>12. signals \in [Messages -> Signals] /\ \A m \in Messages : signals[m].version \in Nat
  BY <1>1 DEF Typed, Signals
<1> HIDE DEF c
<1>13. \A m \in Messages : signals'[m] \in Signals
  <2> SUFFICES ASSUME NEW m \in Messages PROVE signals'[m] \in Signals
    OBVIOUS
  <2>1. CASE m \in MessagesIn(s.items)
    <3>1. signals[m].version + 1 \in Nat /\ c \in Cases \union {0}
      BY <1>3, <1>12
    <3>2. [case |-> c, state |-> s.row.state, related |-> s.related,
           version |-> signals[m].version + 1] \in Signals
      BY <1>3, <1>11, <3>1 DEF Signals
    <3> QED BY <1>21, <2>1, <3>2
  <2>2. CASE m \notin MessagesIn(s.items)
    BY <1>10, <1>12, <2>2
  <2> QED BY <2>1, <2>2
<1>14. signals' \in [Messages -> Signals]
  <2>1. DOMAIN signals' = Messages /\ signals' = [m \in Messages |-> signals'[m]]
    BY DEF Moves
  <2> QED BY <1>13, <2>1
<1>15. ASSUME NEW d \in Cases
       PROVE  /\ cases[d].version <= cases'[d].version
              /\ cases[d].version = cases'[d].version => cases'[d] = cases[d]
              /\ cases[d].reports \subseteq cases'[d].reports
              /\ cases[d].facts \subseteq cases'[d].facts
  <2>1. CASE d = c
    BY <1>3, <1>4, <1>5, <1>7, <2>1 DEF c
  <2>2. CASE d # c
    <3>1. cases[d].version \in Nat
      BY <1>1 DEF Typed, Rows
    <3> QED BY <1>7, <2>2, <3>1
  <2> QED BY <2>1, <2>2
<1>16. ASSUME NEW m \in Messages
       PROVE  /\ signals[m].version <= signals'[m].version
              /\ signals[m].version = signals'[m].version => signals'[m] = signals[m]
              /\ signals[m].case # 0 => signals'[m].case = signals[m].case
  <2>1. CASE m \in MessagesIn(s.items)
    <3>1. signals'[m].version = signals[m].version + 1 /\ signals'[m].case = c
          /\ signals[m].case \in {0, c}
      BY <1>9, <1>21, <2>1
    <3> QED BY <1>12, <3>1
  <2>2. CASE m \notin MessagesIn(s.items)
    BY <1>10, <1>12, <2>2
  <2> QED BY <2>1, <2>2
<1>17. Grows
  BY <1>15, <1>16 DEF Grows
<1>18. SoundCases'
  <2> SUFFICES ASSUME NEW d \in Cases PROVE SoundRow(d, cases[d])'
    BY DEF SoundCases
  <2>1. CASE d = c
    BY <1>6, <1>7, <2>1 DEF SoundRow, Subject
  <2>2. CASE d # c
    <3>1. SoundRow(d, cases[d])
      BY <1>1 DEF SoundCases
    <3> QED BY <1>7, <2>2, <3>1 DEF SoundRow, Subject
  <2> QED BY <2>1, <2>2
<1>19. \A d \in Cases : IF cases'[d].version = 0 THEN cases'[d] = NoCase
                                                 ELSE cases'[d].state \in CaseStates
  BY <1>18 DEF SoundCases, SoundRow
<1>20. \A m \in MessagesIn(s.items) : signals'[m].case = c
  BY <1>9, <1>21
<1> QED BY <1>3, <1>4, <1>5, <1>7, <1>14, <1>17, <1>18, <1>19, <1>20 DEF c, Typed

(* What is still owed once the step is in the store. *)
LEMMA OwedRest ==
    ASSUME IInv, Typed', NEW o \in Ops, Validated(answer[o]),
           Owed(answer[o], todo[o]), NEW s \in todo[o], Leads(s, todo[o]),
           Grows, s.case \in Cases, cases'[s.case] = s.row,
           CaseHolds(s), s.row.version = cases[s.case].version + 1,
           cases'[s.case].reports = cases[s.case].reports \union ReportsIn(s.items),
           cases'[s.case].facts = cases[s.case].facts \union FactsIn(s.items),
           \A m \in MessagesIn(s.items) : signals'[m].case = s.case,
           answer'[o] = answer[o], todo'[o] = todo[o] \ {s}
    PROVE  Owed(answer[o], todo[o])'
<1> DEFINE rest == todo[o] \ {s}
<1>1. Typed
  BY Typing DEF IInv
<1>2. todo[o] \subseteq StepTypes /\ IsFiniteSet(todo[o]) /\ Keyed(todo[o]) /\ Chained(todo[o])
      /\ Founded(todo[o]) /\ Signalled(todo[o]) /\ Lasting(todo[o])
  BY DEF Owed
<1>3. \A t \in todo[o] : t.case \in Cases /\ t.expected \in Nat /\ t.items \subseteq ItemTypes
  BY <1>2 DEF StepTypes
<1>4. (todo[o] \subseteq StepTypes /\ Keyed(todo[o]))' /\ IsFiniteSet(todo'[o])
  BY <1>2, FS_RemoveElement DEF Keyed, StepTypes
<1>5. Lasting(todo[o])'
  BY <1>2 DEF Lasting, SoundRow, Subject
<1>6. Chained(todo[o])'
  <2> SUFFICES ASSUME NEW r \in rest, NEW t \in rest, SameGroup(r, t), r.expected < t.expected
      PROVE  \E u \in rest : SameGroup(u, t) /\ u.expected + 1 = t.expected /\ (Builds(u.row, t))'
    BY DEF Chained
  <2>1. PICK u \in todo[o] : SameGroup(u, t) /\ u.expected + 1 = t.expected /\ Builds(u.row, t)
    BY <1>2 DEF Chained
  <2>2. u # s
    <3> SUFFICES ASSUME u = s PROVE FALSE
      OBVIOUS
    <3>1. SameGroup(s, r)
      BY <2>1 DEF SameGroup
    <3>2. s.expected <= r.expected
      BY <3>1 DEF Leads
    <3>3. r.expected = s.expected
      BY <1>3, <2>1, <3>2
    <3> QED BY <1>2, <3>1, <3>3 DEF Keyed
  <2>3. (Builds(u.row, t))'
    BY <2>1 DEF Builds, StateOf
  <2> QED BY <2>1, <2>2, <2>3
<1>7. Founded(todo[o])'
  <2> SUFFICES ASSUME NEW t \in rest, Leads(t, rest)
      PROVE  /\ t.expected <= cases'[t.case].version
             /\ t.expected = cases'[t.case].version => (Builds(cases[t.case], t))'
    BY DEF Founded, Leads
  <2>1. cases[t.case].version \in Nat /\ cases'[t.case].version \in Nat
    BY <1>1, <1>3 DEF Typed, Rows
  <2>2. CASE Leads(t, todo[o])
    <3>1. /\ t.expected <= cases[t.case].version
          /\ t.expected = cases[t.case].version => Builds(cases[t.case], t)
      BY <1>2, <2>2 DEF Founded
    <3>2. cases[t.case].version <= cases'[t.case].version
          /\ (cases[t.case].version = cases'[t.case].version => cases'[t.case] = cases[t.case])
      BY <1>3 DEF Grows
    <3>3. t.expected = cases'[t.case].version =>
             t.expected = cases[t.case].version /\ cases'[t.case] = cases[t.case]
      BY <1>3, <2>1, <3>1, <3>2
    <3>4. Builds(cases[t.case], t) /\ cases'[t.case] = cases[t.case] => (Builds(cases[t.case], t))'
      BY DEF Builds, StateOf
    <3>5. t.expected <= cases'[t.case].version
      BY <1>3, <2>1, <3>1, <3>2
    <3> QED BY <3>1, <3>3, <3>4, <3>5
  <2>3. CASE ~Leads(t, todo[o])
    <3>1. SameGroup(t, s) /\ s.expected < t.expected
      BY <1>3, <2>3 DEF Leads
    <3>2. SameGroup(s, t)
      BY <3>1 DEF SameGroup
    <3>3. PICK u \in todo[o] : SameGroup(u, t) /\ u.expected + 1 = t.expected /\ Builds(u.row, t)
      BY <1>2, <3>1, <3>2 DEF Chained
    <3>4. u = s
      <4> SUFFICES ASSUME u # s PROVE FALSE
        OBVIOUS
      <4>1. SameGroup(t, u)
        BY <3>3 DEF SameGroup
      <4>2. t.expected <= u.expected
        BY <4>1 DEF Leads
      <4> QED BY <1>3, <3>3, <4>2
    <3>5. t.case = s.case /\ cases'[t.case] = s.row
      BY <3>2 DEF SameGroup
    <3>6. (Builds(cases[t.case], t))'
      <4>1. Builds(s.row, t)
        BY <3>3, <3>4
      <4> QED BY <3>5, <4>1 DEF Builds, StateOf
    <3>7. t.expected = cases'[t.case].version
      BY <3>3, <3>4, <3>5 DEF CaseHolds
    <3> QED BY <2>1, <3>6, <3>7
  <2> QED BY <2>2, <2>3
<1>8. Signalled(todo[o])'
  <2> SUFFICES ASSUME NEW t \in rest, NEW i \in t.items, i[1] = 2
      PROVE  /\ i[2] \in Messages
             /\ i[3] <= signals'[i[2]].version
             /\ i[3] = signals'[i[2]].version => signals'[i[2]].case \in {0, t.case}
    BY DEF Signalled
  <2>1. i \in ItemTypes
    BY <1>3
  <2>2. i[3] \in Nat
    BY <2>1 DEF ItemTypes
  <2>3. /\ i[2] \in Messages
        /\ i[3] <= signals[i[2]].version
        /\ i[3] = signals[i[2]].version => signals[i[2]].case \in {0, t.case}
    BY <1>2 DEF Signalled
  <2>4. signals[i[2]].version \in Nat /\ signals'[i[2]].version \in Nat
    BY <1>1, <2>3 DEF Typed, Signals
  <2>5. signals[i[2]].version <= signals'[i[2]].version
        /\ (signals[i[2]].version = signals'[i[2]].version => signals'[i[2]] = signals[i[2]])
    BY <2>3 DEF Grows
  <2> QED BY <2>2, <2>3, <2>4, <2>5
<1>9. Covered(answer[o], todo[o])'
  <2> SUFFICES ASSUME NEW g \in Addressed(answer[o])
      PROVE  LET items == UNION {t.items : t \in {u \in rest : u.case = CaseOf(g)}}
             IN /\ g.reports \subseteq cases'[CaseOf(g)].reports \union ReportsIn(items)
                /\ g.facts \subseteq cases'[CaseOf(g)].facts \union FactsIn(items)
                /\ \A m \in MessagesOf(g) :
                      signals'[m].case = CaseOf(g) \/ m \in MessagesIn(items)
    BY DEF Covered, Addressed
  <2> DEFINE items == UNION {t.items : t \in {u \in rest : u.case = CaseOf(g)}}
             whole == UNION {t.items : t \in {u \in todo[o] : u.case = CaseOf(g)}}
  <2>1. CaseOf(g) \in Cases /\ CaseOf(g) # 0 /\ MessagesOf(g) \subseteq Messages
    BY CaseOfAddressed
  <2>2. /\ g.reports \subseteq cases[CaseOf(g)].reports \union ReportsIn(whole)
        /\ g.facts \subseteq cases[CaseOf(g)].facts \union FactsIn(whole)
        /\ \A m \in MessagesOf(g) : signals[m].case = CaseOf(g) \/ m \in MessagesIn(whole)
    BY DEF Owed, Covered
  <2>3. \A i \in whole : i \in items \/ (i \in s.items /\ CaseOf(g) = s.case)
    OBVIOUS
  <2> HIDE DEF items, whole
  <2>4. /\ ReportsIn(whole) \subseteq cases'[CaseOf(g)].reports \union ReportsIn(items)
        /\ FactsIn(whole) \subseteq cases'[CaseOf(g)].facts \union FactsIn(items)
    BY <2>3 DEF ReportsIn, FactsIn
  <2>5. \A m \in MessagesIn(whole) : signals'[m].case = CaseOf(g) \/ m \in MessagesIn(items)
    BY <2>3 DEF MessagesIn
  <2>6. /\ cases[CaseOf(g)].reports \subseteq cases'[CaseOf(g)].reports
        /\ cases[CaseOf(g)].facts \subseteq cases'[CaseOf(g)].facts
        /\ \A m \in MessagesOf(g) : signals[m].case = CaseOf(g) => signals'[m].case = CaseOf(g)
    BY <2>1 DEF Grows
  <2>7. /\ g.reports \subseteq cases'[CaseOf(g)].reports \union ReportsIn(items)
        /\ g.facts \subseteq cases'[CaseOf(g)].facts \union FactsIn(items)
        /\ \A m \in MessagesOf(g) : signals'[m].case = CaseOf(g) \/ m \in MessagesIn(items)
    BY <2>2, <2>4, <2>5, <2>6
  <2> QED BY <2>7 DEF items
<1> QED BY <1>4, <1>5, <1>6, <1>7, <1>8, <1>9 DEF Owed

LEMMA WritesMember ==
    ASSUME NEW c
    PROVE  \A x : x \in Writes(c) <=> \E p \in Ops : \E e \in Committed(p) : x = <<p, e>> /\ e.case = c
BY DEF Writes

LEMMA WritesMemberNext ==
    ASSUME NEW c
    PROVE  \A x : x \in Writes(c)' <=> \E p \in Ops : \E e \in Committed(p)' : x = <<p, e>> /\ e.case = c
BY DEF Writes

LEMMA ItemsAdded ==
    ASSUME NEW W, NEW x
    PROVE  UNION {p[2].items : p \in W \union {x}} = (UNION {p[2].items : p \in W}) \union x[2].items
<1>1. \A y : y \in UNION {p[2].items : p \in W \union {x}} <=>
              \E p \in W \union {x} : y \in p[2].items
  OBVIOUS
<1>2. \A y : y \in UNION {p[2].items : p \in W} <=> \E p \in W : y \in p[2].items
  OBVIOUS
<1> QED BY <1>1, <1>2

LEMMA OwnersAdded ==
    ASSUME NEW W, NEW x
    PROVE  {p[1] : p \in W \union {x}} = {p[1] : p \in W} \union {x[1]}
OBVIOUS

LEMMA StepLedger ==
    ASSUME IInv, NEW o \in Ops, NEW s, NEW d, s.case \in Cases,
           d.case = s.case, ReportsIn(s.items) = ReportsIn(d.items), Slots(s.items) = Slots(d.items),
           d \notin Committed(o), Committed(o)' = Committed(o) \union {d},
           \A p \in Ops \ {o} : Committed(p)' = Committed(p),
           ~d.first => \E t \in Committed(o) : t.case = s.case,
           cases'[s.case].version = cases[s.case].version + 1,
           cases'[s.case].reports = cases[s.case].reports \union ReportsIn(s.items),
           cases'[s.case].facts = cases[s.case].facts \union FactsIn(s.items),
           \A c \in Cases \ {s.case} : cases'[c] = cases[c],
           audited' = audited \union (IF d.first THEN {<<o, s.case>>} ELSE {}),
           moves' = moves
    PROVE  CaseIsWhatWasCommitted'
<1> SUFFICES ASSUME NEW c \in Cases PROVE Ledger(c)'
  BY LedgerByCase
<1>1. Ledger(c)
  BY LedgerByCase DEF IInv
<1>2. \A x : x \in Writes(c)' <=> x \in Writes(c) \/ (c = s.case /\ x = <<o, d>>)
  <2>1. \A p \in Ops : \A e : e \in Committed(p)' <=> e \in Committed(p) \/ (p = o /\ e = d)
    OBVIOUS
  <2> QED BY <2>1, WritesMember, WritesMemberNext
<1>3. CASE c # s.case
  <2>1. Writes(c)' = Writes(c)
    BY <1>2, <1>3
  <2>2. Written(c)' = Written(c)
    BY <2>1 DEF Written
  <2>3. \A p \in Ops : <<p, c>> \in audited' <=> <<p, c>> \in audited
    BY <1>3
  <2> QED BY <1>1, <1>3, <2>1, <2>2, <2>3 DEF Ledger, Initially
<1>4. CASE c = s.case
  <2>1. Writes(c)' = Writes(c) \union {<<o, d>>}
    BY <1>2, <1>4
  <2>2. <<o, d>> \notin Writes(c)
    BY WritesMember
  <2>3. IsFiniteSet(Writes(c)) /\ Cardinality(Writes(c)) \in Nat
    <3>1. \A p \in Ops : SoundPlan(plan[p])
      BY DEF IInv, PlanInv
    <3> QED BY <3>1, WritesFinite, FS_CardinalityType
  <2>4. Cardinality(Writes(c)') = Cardinality(Writes(c)) + 1
    <3> DEFINE was == Writes(c)
    <3>1. IsFiniteSet(was) /\ <<o, d>> \notin was
      BY <2>2, <2>3
    <3>2. Cardinality(was \union {<<o, d>>}) = Cardinality(was) + 1
      <4> HIDE DEF was
      <4> QED BY <3>1, FS_AddElement
    <3> QED BY <2>1, <3>2
  <2>5. Initially(c).version \in Nat /\ moves[c] \in Nat
    <3>1. Initially(c).version \in Nat
      BY DEF Initially
    <3>2. moves[c] \in 0 .. MaxMoves
      BY DEF IInv, TypeOK
    <3> QED BY <3>1, <3>2, NumberAssumption
  <2>6. cases'[c].version = Initially(c).version + moves'[c] + Cardinality(Writes(c)')
    BY <1>1, <1>4, <2>3, <2>4, <2>5 DEF Ledger
  <2>7. Written(c)' = Written(c) \union d.items
    <3> DEFINE was == Writes(c)
               new == <<o, d>>
    <3>1. UNION {p[2].items : p \in was \union {new}} =
             (UNION {p[2].items : p \in was}) \union new[2].items
      <4> HIDE DEF was, new
      <4> QED BY ItemsAdded
    <3>2. new[2].items = d.items
      OBVIOUS
    <3>3. Written(c)' = UNION {p[2].items : p \in was \union {new}}
      BY <2>1 DEF Written
    <3>4. Written(c) = UNION {p[2].items : p \in was}
      BY DEF Written
    <3> HIDE DEF was, new
    <3> QED BY <3>1, <3>2, <3>3, <3>4
  <2>8. ReportsIn(Written(c)') = ReportsIn(Written(c)) \union ReportsIn(d.items)
    <3> DEFINE w == Written(c)
    <3>1. ReportsIn(w \union d.items) = ReportsIn(w) \union ReportsIn(d.items)
      BY DEF ReportsIn
    <3> QED BY <2>7, <3>1
  <2>9. Slots(Written(c)') = Slots(Written(c)) \union Slots(d.items)
    <3> DEFINE w == Written(c)
    <3>1. Slots(w \union d.items) = Slots(w) \union Slots(d.items)
      BY DEF Slots
    <3> QED BY <2>7, <3>1
  <2>10. cases'[c].reports = Initially(c).reports \union ReportsIn(Written(c)')
    <3>1. cases[c].reports = Initially(c).reports \union ReportsIn(Written(c))
      BY <1>1 DEF Ledger
    <3> QED BY <1>4, <2>8, <3>1
  <2>11. {f[1] : f \in cases'[c].facts} = Slots(Written(c)')
    <3>1. {f[1] : f \in cases[c].facts} = Slots(Written(c))
      BY <1>1 DEF Ledger, Slots
    <3>2. {f[1] : f \in FactsIn(s.items)} = Slots(s.items)
      <4>1. \A x : x \in {f[1] : f \in FactsIn(s.items)} <=> \E i \in s.items : i[1] = 3 /\ i[2] = x
        <5> SUFFICES ASSUME NEW x
            PROVE  (\E f \in FactsIn(s.items) : f[1] = x) <=> \E i \in s.items : i[1] = 3 /\ i[2] = x
          OBVIOUS
        <5>1. \A f : f \in FactsIn(s.items) <=> \E i \in s.items : i[1] = 3 /\ f = <<i[2], i[3]>>
          BY DEF FactsIn
        <5>2. ASSUME NEW i \in s.items, i[1] = 3, i[2] = x
              PROVE  \E f \in FactsIn(s.items) : f[1] = x
          <6>1. <<i[2], i[3]>> \in FactsIn(s.items)
            BY <5>1, <5>2
          <6> QED BY <5>2, <6>1
        <5>3. ASSUME NEW f \in FactsIn(s.items), f[1] = x
              PROVE  \E i \in s.items : i[1] = 3 /\ i[2] = x
          BY <5>1, <5>3
        <5> QED BY <5>2, <5>3
      <4> QED BY <4>1 DEF Slots
    <3>3. {f[1] : f \in cases'[c].facts} =
             {f[1] : f \in cases[c].facts} \union {f[1] : f \in FactsIn(s.items)}
      BY <1>4
    <3> QED BY <2>9, <3>1, <3>2, <3>3
  <2>12. {p \in Ops : <<p, c>> \in audited'} = {x[1] : x \in Writes(c)'}
    <3>1. {p \in Ops : <<p, c>> \in audited} = {x[1] : x \in Writes(c)}
      BY <1>1 DEF Ledger
    <3>2. {x[1] : x \in Writes(c)'} = {x[1] : x \in Writes(c)} \union {o}
      <4> DEFINE was == Writes(c)
                 new == <<o, d>>
      <4>1. {p[1] : p \in was \union {new}} = {p[1] : p \in was} \union {new[1]}
        <5> HIDE DEF was, new
        <5> QED BY OwnersAdded
      <4>2. new[1] = o
        OBVIOUS
      <4>3. {x[1] : x \in Writes(c)'} = {p[1] : p \in was \union {new}}
        BY <2>1
      <4> HIDE DEF new
      <4> QED BY <4>1, <4>2, <4>3
    <3>3. CASE d.first
      <4>1. {p \in Ops : <<p, c>> \in audited'} = {p \in Ops : <<p, c>> \in audited} \union {o}
        BY <1>4, <3>3
      <4> QED BY <3>1, <3>2, <4>1
    <3>4. CASE ~d.first
      <4>1. audited' = audited
        BY <3>4
      <4>2. PICK t \in Committed(o) : t.case = c
        BY <1>4, <3>4
      <4>3. <<o, t>> \in Writes(c)
        BY <4>2, WritesMember
      <4>4. o \in {x[1] : x \in Writes(c)}
        BY <4>3
      <4> QED BY <3>1, <3>2, <4>1, <4>4
    <3> QED BY <3>3, <3>4
  <2> QED BY <2>6, <2>10, <2>11, <2>12 DEF Ledger, Slots, Initially, ReportsIn, Written
<1> QED BY <1>3, <1>4

LEMMA AppliedStep ==
    ASSUME IInv, NEW o \in Ops, pc[o] = "commit", todo[o] # {},
           Applicable(o, First(todo[o])), Apply(o, First(todo[o])),
           (todo' = [todo EXCEPT ![o] = @ \ {First(todo[o])}] /\ UNCHANGED pc)
              \/ (Goto(o, "release") /\ UNCHANGED todo),
           UNCHANGED faults \/ Fails("write"),
           UNCHANGED <<op, input, plan, asked, held, answer, seen, visit, moves>>
    PROVE  IInv'
<1> DEFINE s == First(todo[o])
           d == Frozen(o, s)
           done == Prefix(plan[o].steps, progress[o])
<1>1. TypeOK /\ OpInv(o)
  BY DEF IInv, OpInv
<1>2. /\ s \in todo[o] /\ Leads(s, todo[o])
      /\ d \in plan[o].steps /\ Content(s) = Content(d)
      /\ DataSteps(o) \in Nat /\ progress[o] \in Nat /\ progress[o] < DataSteps(o)
      /\ Number(o) = progress[o] + 1
      /\ d \notin done /\ Prefix(plan[o].steps, progress[o] + 1) = done \union {d}
      /\ Contents(todo[o] \ {s}) = Contents(plan[o].steps \ (done \union {d}))
      /\ ~d.first => \E t \in done : t.case = s.case
  BY NextStep
<1>3. Validated(answer[o]) /\ Owed(answer[o], todo[o])
  BY <1>1 DEF OpInv, WorkInv, Reading
<1>4. /\ CaseHolds(s) /\ SignalsHold(s) /\ Moves(s)
      /\ audited' = audited \union (IF d.first THEN {<<o, s.case>>} ELSE {})
      /\ progress' = [progress EXCEPT ![o] = Number(o)]
      /\ UNCHANGED record
  BY DEF Applicable, Apply, Moves, MessagesIn, Audits
<1> HIDE DEF s, d, done
<1>5. /\ Grows /\ Typed' /\ SoundCases'
      /\ \A c \in Cases : IF cases'[c].version = 0 THEN cases'[c] = NoCase
                                                   ELSE cases'[c].state \in CaseStates
      /\ s.case \in Cases
      /\ cases'[s.case] = s.row /\ s.row.version = cases[s.case].version + 1
      /\ cases'[s.case].reports = cases[s.case].reports \union ReportsIn(s.items)
      /\ cases'[s.case].facts = cases[s.case].facts \union FactsIn(s.items)
      /\ \A c \in Cases \ {s.case} : cases'[c] = cases[c]
      /\ \A m \in MessagesIn(s.items) : signals'[m].case = s.case
  BY <1>2, <1>3, <1>4, StepGrows
<1>6. /\ progress' \in [Ops -> Nat] /\ progress'[o] = progress[o] + 1
      /\ \A p \in Ops \ {o} : progress'[p] = progress[p]
  <2>1. progress \in [Ops -> Nat]
    BY <1>1 DEF TypeOK
  <2> QED BY <1>2, <1>4, <2>1
<1>7. /\ pc' \in [Ops -> Places] /\ pc'[o] \in {"commit", "release"}
      /\ \A p \in Ops \ {o} : pc'[p] = pc[p]
  <2>1. CASE UNCHANGED pc
    BY <1>1, <2>1 DEF TypeOK, Places
  <2>2. CASE Goto(o, "release")
    BY <1>1, <2>2, GotoTypes DEF Places
  <2> QED BY <2>1, <2>2
<1>8. /\ DOMAIN todo' = Ops /\ \A p \in Ops \ {o} : todo'[p] = todo[p]
      /\ pc'[o] = "commit" => todo'[o] = todo[o] \ {s}
  <2>1. CASE todo' = [todo EXCEPT ![o] = @ \ {s}]
    BY <1>1, <2>1 DEF TypeOK
  <2>2. CASE Goto(o, "release") /\ UNCHANGED todo
    BY <1>1, <2>2, GotoTypes DEF Places, TypeOK
  <2> QED BY <2>1, <2>2 DEF s
<1>9. faults' \in SUBSET FaultKinds
  BY <1>1, FailsTypes DEF TypeOK
<1>10. audited' \subseteq Ops \X Cases
  BY <1>1, <1>4, <1>5 DEF TypeOK
<1>11. TypeOK'
  BY <1>1, <1>4, <1>5, <1>6, <1>7, <1>8, <1>9, <1>10 DEF TypeOK, Typed, Places
<1>12. \A p \in Ops \ {o} : Elsewhere(p)
  BY <1>4, <1>6, <1>7, <1>8 DEF Elsewhere
<1>13. done = Committed(o) /\ Committed(o)' = done \union {d}
       /\ \A p \in Ops \ {o} : Committed(p)' = Committed(p)
  BY <1>2, <1>6 DEF Committed, Prefix, Position, done
<1>14. CaseIsWhatWasCommitted'
  <2>1. s.case = d.case /\ ReportsIn(s.items) = ReportsIn(d.items) /\ Slots(s.items) = Slots(d.items)
    BY <1>2, ContentItems
  <2> QED BY <1>2, <1>4, <1>5, <1>13, <2>1, StepLedger
<1>15. PlanInv(o)'
  <2>1. SoundPlan(plan[o])'
    BY <1>1 DEF OpInv, PlanInv, SoundPlan, Keyed, Marked, Leads, Validated, Subject, Addressed
  <2>2. progress'[o] <= DataSteps(o) /\ plan[o].frozen /\ DataSteps(o)' = DataSteps(o)
    BY <1>1, <1>2, <1>6 DEF OpInv, PlaceInv, DataSteps
  <2> QED BY <1>1, <2>1, <2>2 DEF OpInv, PlanInv
<1>16. PlaceInv(o)'
  BY <1>1, <1>4, <1>7 DEF OpInv, PlaceInv
<1>17. SeenInv(o)'
  BY <1>1, <1>7 DEF OpInv, SeenInv
<1>18. WorkInv(o)'
  <2>1. CASE pc'[o] = "release"
    BY <2>1 DEF WorkInv, Reading
  <2>2. CASE pc'[o] = "commit"
    <3>1. todo'[o] = todo[o] \ {s}
      BY <1>8, <2>2
    <3>2. Owed(answer[o], todo[o])'
      BY <1>2, <1>3, <1>4, <1>5, <3>1, OwedRest
    <3>3. Validated(answer[o])' /\ answer'[o] = answer[o]
      BY <1>3 DEF Validated, Subject, Addressed
    <3>4. (plan[o].frozen => answer[o] = plan[o].answer)'
      BY <1>1 DEF OpInv, WorkInv, Reading
    <3>5. Contents(todo[o])' = Contents(Remaining(o))'
      <4>1. Remaining(o)' = plan[o].steps \ (done \union {d})
        BY <1>2, <1>6 DEF Remaining, Prefix, Position, done
      <4> QED BY <1>2, <3>1, <4>1 DEF Contents, Content, Describe
    <3>6. (progress[o] + Cardinality(todo[o]) = DataSteps(o))'
      <4>1. IsFiniteSet(todo[o]) /\ progress[o] + Cardinality(todo[o]) = DataSteps(o)
        BY <1>1 DEF OpInv, WorkInv, Owed
      <4>2. Cardinality(todo[o] \ {s}) = Cardinality(todo[o]) - 1 /\ Cardinality(todo[o]) \in Nat
        BY <1>2, <4>1, FS_RemoveElement, FS_CardinalityType
      <4>3. DataSteps(o)' = DataSteps(o)
        BY DEF DataSteps
      <4> QED BY <1>2, <1>6, <3>1, <4>1, <4>2, <4>3
    <3> QED BY <2>2, <3>2, <3>3, <3>4, <3>5, <3>6 DEF WorkInv, Contents
  <2> QED BY <1>7, <2>1, <2>2
<1>19. Recorded(o)'
  BY <1>1, <1>4 DEF OpInv, PlaceInv, Recorded
<1>20. OpInv(o)'
  BY <1>15, <1>16, <1>17, <1>18, <1>19 DEF OpInv
<1> QED BY <1>5, <1>11, <1>12, <1>14, <1>20, StoreStep

LEMMA CommitStepStep == ASSUME IInv, NEW o \in Ops, CommitStep(o) PROVE IInv'
<1>1. CASE /\ Applicable(o, First(todo[o])) /\ Apply(o, First(todo[o]))
  BY <1>1, AppliedStep DEF CommitStep
<1>2. CASE Goto(o, "release") /\ UNCHANGED <<store, todo>>
  <2>1. TypeOK /\ OpInv(o) /\ pc[o] = "commit"
    BY DEF IInv, OpInv, CommitStep
  <2>2. (UNCHANGED faults \/ Fails("write"))
        /\ UNCHANGED <<op, input, plan, asked, held, answer, seen, visit, moves>>
    BY DEF CommitStep
  <2>3. faults' \in SUBSET FaultKinds
    BY <2>1, <2>2, FailsTypes DEF TypeOK
  <2>4. /\ pc' \in [Ops -> Places] /\ pc'[o] = "release"
        /\ \A p \in Ops \ {o} : pc'[p] = pc[p]
    BY <1>2, <2>1, GotoTypes DEF Places
  <2>5. TypeOK'
    BY <1>2, <2>1, <2>2, <2>3, <2>4 DEF TypeOK, Places, store
  <2>6. \A p \in Ops \ {o} : Elsewhere(p)
    BY <1>2, <2>2, <2>4 DEF Elsewhere, store
  <2>7. PlaceInv(o)' /\ SeenInv(o)' /\ WorkInv(o)'
    BY <1>2, <2>1, <2>2, <2>4 DEF OpInv, PlaceInv, SeenInv, WorkInv, Reading, store
  <2> QED BY <1>2, <2>2, <2>5, <2>6, <2>7, QuietStep DEF store
<1> QED BY <1>1, <1>2 DEF CommitStep

-----------------------------------------------------------------------------
(* An answer that passes validation.                                        *)

LEMMA IssuesFinite == ASSUME NEW S, IsFiniteSet(S) PROVE IsFiniteSet(IssuesOf(S))
<1> DEFINE of == [r \in S |-> Issue[r]]
<1>1. of \in Surjection(S, IssuesOf(S))
  BY DEF Surjection, IssuesOf
<1> QED BY <1>1, FS_Surjection

LEMMA AcceptableValidates ==
    ASSUME TypeOK, SoundCases, NEW o \in Ops, NEW a \in Answers, Acceptable(input[o], a)
    PROVE  Validated(a)
<1>1. ASSUME NEW g \in Addressed(a)
      PROVE  /\ g \in a /\ g \in Groups /\ CaseOf(g) # 0
             /\ g.target = 0 => Detectable(g.reports) /\ CaseOf(g) = CandidateOf[g.reports]
             /\ g.target # 0 => CaseOf(g) = g.target /\ g.target \in Cases
             /\ g.reports \in Proposed /\ g.reports \subseteq Reports
             /\ IsFiniteSet(IssuesOf(g.reports)) /\ Cardinality(IssuesOf(g.reports)) = 1
  <2>1. g \in a /\ CaseOf(g) # 0
    BY DEF Addressed
  <2>2. g \in Groups
    BY <2>1, AnswerAssumption
  <2>3. g.target \in Cases \union {0} /\ g.reports \subseteq Reports
    BY <2>2 DEF Groups
  <2>4. g.reports \in Proposed
    BY <2>1 DEF Proposed
  <2>5. IsFiniteSet(g.reports)
    BY <2>3, FiniteAssumption, FS_Subset
  <2>6. Cardinality(IssuesOf(g.reports)) = 1
    BY <2>1 DEF Acceptable
  <2> QED BY <2>1, <2>2, <2>3, <2>4, <2>5, <2>6, IssuesFinite DEF CaseOf
<1>2. ASSUME NEW g \in Addressed(a), NEW r \in g.reports
      PROVE  Subject(CaseOf(g), Issue[r])
  <2>1. CASE g.target = 0
    <3>1. PICK issue : IssuesOf(g.reports) = {issue}
      BY <1>1, FS_Singleton
    <3>2. Issue[r] = issue /\ issue # "OTHER"
      BY <1>1, <2>1, <3>1 DEF IssuesOf, Detectable
    <3> QED BY <1>1, <2>1, <3>1, <3>2 DEF Subject
  <2>2. CASE g.target # 0
    <3>1. IssuesOf(g.reports) = IssuesOf(cases[g.target].reports)
      BY <1>1, <2>2 DEF Acceptable
    <3>2. PICK q \in cases[g.target].reports : Issue[q] = Issue[r]
      BY <3>1 DEF IssuesOf
    <3>3. Subject(g.target, Issue[q])
      BY <1>1, <2>2 DEF SoundCases, SoundRow
    <3> QED BY <1>1, <2>2, <3>2, <3>3
  <2> QED BY <2>1, <2>2
<1>3. ASSUME NEW g \in Addressed(a), NEW h \in Addressed(a), CaseOf(g) = CaseOf(h),
             g.target = 0 <=> h.target = 0
      PROVE  g = h
  <2>1. CASE g.target # 0
    BY <1>1, <1>3, <2>1, AnswerAssumption
  <2>2. CASE g.target = 0
    <3>1. g.reports = h.reports
      <4>1. CandidateOf[g.reports] = CandidateOf[h.reports]
        BY <1>1, <1>3, <2>2
      <4> QED BY <1>1, <1>3, <2>2, <4>1, CandidateAssumption
    <3>2. SUFFICES ASSUME g # h PROVE FALSE
      OBVIOUS
    <3>3. g.reports \intersect h.reports = {}
      BY <1>1, <3>2 DEF Acceptable
    <3>4. IssuesOf(g.reports) = {}
      BY <3>1, <3>3 DEF IssuesOf
    <3> QED BY <1>1, <3>4, FS_EmptySet
  <2> QED BY <2>1, <2>2
<1> QED BY <1>2, <1>3 DEF Validated

LEMMA InvokeStep == ASSUME IInv, NEW o \in Ops, Invoke(o) PROVE IInv'
<1>1. TypeOK /\ OpInv(o) /\ SoundCases
  BY DEF IInv, OpInv
<1>2. /\ pc[o] = "invoke" /\ asked' = [asked EXCEPT ![o] = @ + 1]
      /\ UNCHANGED faults \/ Fails("agent")
      /\ UNCHANGED <<store, op, input, plan, held, seen, todo, visit, moves>>
  BY DEF Invoke
<1>3. /\ (\E a \in Answers : /\ answer' = [answer EXCEPT ![o] = a]
                             /\ (Goto(o, "load") /\ Acceptable(input[o], a)) \/ Goto(o, "refuse"))
         \/ (UNCHANGED answer /\ (Goto(o, "refuse") \/ (asked[o] = 0 /\ UNCHANGED pc)))
  BY DEF Invoke
<1>4. answer[o] \in Answers \union {NoAnswer} /\ answer \in [Ops -> Answers \union {NoAnswer}]
  BY <1>1 DEF TypeOK
<1>5. /\ answer' \in [Ops -> Answers \union {NoAnswer}]
      /\ \A p \in Ops \ {o} : answer'[p] = answer[p]
  BY <1>3, <1>4
<1>6. /\ pc' \in [Ops -> Places] /\ pc'[o] \in {"load", "refuse", "invoke"}
      /\ pc'[o] = "invoke" => asked[o] = 0
      /\ pc'[o] = "load" => answer'[o] \in Answers /\ Acceptable(input[o], answer'[o])
      /\ \A p \in Ops \ {o} : pc'[p] = pc[p]
  <2>1. "load" \in Places /\ "refuse" \in Places
    BY DEF Places
  <2>2. CASE Goto(o, "refuse")
    BY <1>1, <2>1, <2>2, GotoTypes
  <2>3. CASE asked[o] = 0 /\ UNCHANGED pc
    BY <1>1, <1>2, <2>3 DEF TypeOK, Places
  <2>4. ASSUME NEW a \in Answers, answer' = [answer EXCEPT ![o] = a], Goto(o, "load"),
               Acceptable(input[o], a)
        PROVE  /\ pc' \in [Ops -> Places] /\ pc'[o] = "load"
               /\ answer'[o] \in Answers /\ Acceptable(input[o], answer'[o])
               /\ \A p \in Ops \ {o} : pc'[p] = pc[p]
    <3>1. answer'[o] = a
      BY <1>4, <2>4
    <3> QED BY <1>1, <2>1, <2>4, <3>1, GotoTypes
  <2> QED BY <1>3, <2>2, <2>3, <2>4
<1>7. /\ asked' \in [Ops -> 0 .. 2] /\ asked'[o] = asked[o] + 1
      /\ \A p \in Ops \ {o} : asked'[p] = asked[p]
  <2>1. asked \in [Ops -> 0 .. 2] /\ asked[o] \in 0 .. 1
    BY <1>1, <1>2 DEF TypeOK, OpInv, PlaceInv
  <2>2. asked[o] + 1 \in 0 .. 2
    BY <2>1
  <2> QED BY <1>2, <2>1, <2>2
<1>8. faults' \in SUBSET FaultKinds
  BY <1>1, <1>2, FailsTypes DEF TypeOK
<1>9. TypeOK'
  BY <1>1, <1>2, <1>5, <1>6, <1>7, <1>8 DEF TypeOK, Places, store
<1>10. \A p \in Ops \ {o} : Elsewhere(p)
  BY <1>2, <1>5, <1>6, <1>7 DEF Elsewhere, store
<1>11. PlaceInv(o)'
  <2>1. asked[o] \in 0 .. 2
    BY <1>1 DEF TypeOK
  <2> QED BY <1>1, <1>2, <1>6, <1>7, <2>1 DEF OpInv, PlaceInv, store
<1>12. SeenInv(o)'
  BY <1>1, <1>2, <1>6 DEF OpInv, SeenInv
<1>13. WorkInv(o)'
  <2>1. pc'[o] = "load" => Validated(answer'[o])
    BY <1>1, <1>6, AcceptableValidates
  <2>2. pc'[o] = "load" => Validated(answer[o])'
    BY <2>1 DEF Validated, Subject, Addressed
  <2>3. ~plan'[o].frozen
    BY <1>1, <1>2 DEF OpInv, PlaceInv
  <2> QED BY <1>6, <2>2, <2>3 DEF WorkInv, Reading
<1> QED BY <1>2, <1>9, <1>10, <1>11, <1>12, <1>13, QuietStep DEF store

-----------------------------------------------------------------------------
(* The steps one group is cut into.                                         *)

LEMMA DivBound ==
    ASSUME NEW B \in Nat \ {0}, NEW N \in Nat, NEW r \in 0 .. (N - 1)
    PROVE  r \div B \in 0 .. (((N + B - 1) \div B) - 1)
<1> DEFINE q == r \div B
           p == (N + B - 1) \div B
<1>1. B \in Int /\ B > 0 /\ r \in Int /\ 0 <= r /\ r < N /\ N + B - 1 \in Int /\ N + B - 1 >= 0
  OBVIOUS
<1>2. q \in Int /\ B * q <= r /\ r < B * q + B /\ q >= 0
  BY <1>1
<1>3. p \in Int /\ N + B - 1 < B * p + B
  BY <1>1
<1> HIDE DEF q, p
<1>4. q < p
  <2> SUFFICES ASSUME p <= q PROVE FALSE
    BY <1>2, <1>3
  <2>1. B * p <= B * q
    BY <1>1, <1>2, <1>3
  <2>2. B * p \in Int /\ B * q \in Int
    BY <1>1, <1>2, <1>3
  <2> QED BY <1>1, <1>2, <1>3, <2>1, <2>2
<1> QED BY <1>2, <1>3, <1>4 DEF q, p

(* A group and the row it is cut from, past the gates. *)
Cuttable(a, g, row) ==
    /\ g \in Addressed(a)
    /\ row \in Rows /\ SoundRow(CaseOf(g), row)
    /\ ~AmbiguousOrDrifted(g, row) /\ ~AlreadyLinked(g) /\ ~OverCapacity(g, row)

CutStep(g, row, k) ==
    [case     |-> CaseOf(g),
     new      |-> g.target = 0,
     expected |-> row.version + k,
     first    |-> k = 0,
     items    |-> Window(Items(g, row), k),
     row      |-> CaseAtStep(row, Items(g, row), k),
     related  |-> Cardinality(MessagesOf(g))]

Numbers(g, row) == 0 .. (StepCount(Items(g, row)) - 1)

LEMMA CutStepsAre ==
    ASSUME NEW g, NEW row
    PROVE  \A s : s \in CutSteps(g, row) <=> \E k \in Numbers(g, row) : s = CutStep(g, row, k)
BY DEF CutSteps, CutStep, Numbers

LEMMA ItemsAre ==
    ASSUME Typed, NEW a, Validated(a), NEW g, NEW row, Cuttable(a, g, row)
    PROVE  /\ Items(g, row) \subseteq ItemTypes /\ IsFiniteSet(Items(g, row))
           /\ ReportsIn(Items(g, row)) = g.reports \ row.reports
           /\ MessagesIn(Items(g, row)) = Undisplayed(g, row)
           /\ FactsIn(Items(g, row)) = NewFacts(g, row)
           /\ NewFacts(g, row) \subseteq g.facts
           /\ \A i \in Items(g, row) : i[1] = 2 =>
                 /\ i[2] \in MessagesOf(g) /\ i[2] \in Messages
                 /\ i[3] = signals[i[2]].version
                 /\ signals[i[2]].case \in {0, CaseOf(g)}
<1> DEFINE R == g.reports \ row.reports
           U == Undisplayed(g, row)
           F == NewFacts(g, row)
           ofR == {<<1, r, 0>> : r \in R}
           ofU == {<<2, m, signals[m].version>> : m \in U}
           ofF == {<<3, f[1], f[2]>> : f \in F}
<1>1. /\ g.reports \subseteq Reports /\ MessagesOf(g) \subseteq Messages
      /\ IsFiniteSet(g.facts) /\ g.facts \subseteq Nat \X Nat
      /\ IsFiniteSet(g.reports) /\ IsFiniteSet(MessagesOf(g))
  BY CaseOfAddressed DEF Cuttable
<1>2. R \in SUBSET g.reports /\ U \in SUBSET MessagesOf(g) /\ F \in SUBSET g.facts
  BY DEF Undisplayed, NewFacts
<1>3. IsFiniteSet(R) /\ IsFiniteSet(U) /\ IsFiniteSet(F)
  BY <1>1, <1>2, FS_Subset
<1>4. Items(g, row) = (ofR \union ofU) \union ofF
  BY DEF Items
<1>5. \A m \in MessagesOf(g) : signals[m].version \in Nat /\ signals[m].case \in {0, CaseOf(g)}
  <2>1. \A m \in MessagesOf(g) : signals[m] \in Signals
    BY <1>1 DEF Typed
  <2> QED BY <2>1 DEF Cuttable, AlreadyLinked, Signals
<1> HIDE DEF R, U, F
<1>6. IsFiniteSet(ofR) /\ IsFiniteSet(ofU) /\ IsFiniteSet(ofF)
  <2> DEFINE byR == [r \in R |-> <<1, r, 0>>]
             byU == [m \in U |-> <<2, m, signals[m].version>>]
             byF == [f \in F |-> <<3, f[1], f[2]>>]
  <2>1. byR \in Surjection(R, ofR)
    BY DEF Surjection
  <2>2. byU \in Surjection(U, ofU)
    BY DEF Surjection
  <2>3. byF \in Surjection(F, ofF)
    BY DEF Surjection
  <2> HIDE DEF byR, byU, byF, ofR, ofU, ofF
  <2> QED BY <1>3, <2>1, <2>2, <2>3, FS_Surjection
<1>7. IsFiniteSet(Items(g, row))
  <2> HIDE DEF ofR, ofU, ofF
  <2> QED BY <1>4, <1>6, FS_Union
<1>8. ASSUME NEW i \in Items(g, row)
      PROVE  \/ \E r \in R : i = <<1, r, 0>>
             \/ \E m \in U : i = <<2, m, signals[m].version>>
             \/ \E f \in F : i = <<3, f[1], f[2]>>
  BY <1>4
<1>9. \A r \in R : <<1, r, 0>> \in Items(g, row)
  BY <1>4
<1>10. \A m \in U : <<2, m, signals[m].version>> \in Items(g, row)
  BY <1>4
<1>11. \A f \in F : <<3, f[1], f[2]>> \in Items(g, row)
  BY <1>4
<1> HIDE DEF ofR, ofU, ofF
<1>12. Items(g, row) \subseteq ItemTypes
  <2> SUFFICES ASSUME NEW i \in Items(g, row) PROVE i \in ItemTypes
    OBVIOUS
  <2>1. CASE \E r \in R : i = <<1, r, 0>>
    <3>1. PICK r \in R : i = <<1, r, 0>>
      BY <2>1
    <3>2. r \in Nat
      BY <1>1, <1>2, NumberAssumption
    <3> QED BY <3>1, <3>2 DEF ItemTypes
  <2>2. CASE \E m \in U : i = <<2, m, signals[m].version>>
    <3>1. PICK m \in U : i = <<2, m, signals[m].version>>
      BY <2>2
    <3>2. m \in Nat /\ signals[m].version \in Nat
      BY <1>1, <1>2, <1>5, NumberAssumption
    <3> QED BY <3>1, <3>2 DEF ItemTypes
  <2>3. CASE \E f \in F : i = <<3, f[1], f[2]>>
    BY <1>1, <1>2, <2>3 DEF ItemTypes
  <2> QED BY <1>8, <2>1, <2>2, <2>3
<1>13. ReportsIn(Items(g, row)) = R
  <2>1. \A x : x \in ReportsIn(Items(g, row)) <=> \E i \in Items(g, row) : i[1] = 1 /\ i[2] = x
    BY DEF ReportsIn
  <2>2. ASSUME NEW x \in R PROVE \E i \in Items(g, row) : i[1] = 1 /\ i[2] = x
    <3>1. <<1, x, 0>> \in Items(g, row)
      BY <1>9
    <3> QED BY <3>1
  <2>3. ASSUME NEW i \in Items(g, row), i[1] = 1 PROVE i[2] \in R
    BY <1>8, <2>3
  <2> QED BY <2>1, <2>2, <2>3
<1>14. MessagesIn(Items(g, row)) = U
  <2>1. \A x : x \in MessagesIn(Items(g, row)) <=> \E i \in Items(g, row) : i[1] = 2 /\ i[2] = x
    BY DEF MessagesIn
  <2>2. ASSUME NEW x \in U PROVE \E i \in Items(g, row) : i[1] = 2 /\ i[2] = x
    <3>1. <<2, x, signals[x].version>> \in Items(g, row)
      BY <1>10
    <3> QED BY <3>1
  <2>3. ASSUME NEW i \in Items(g, row), i[1] = 2 PROVE i[2] \in U
    BY <1>8, <2>3
  <2> QED BY <2>1, <2>2, <2>3
<1>15. FactsIn(Items(g, row)) = F
  <2>1. \A x : x \in FactsIn(Items(g, row)) <=>
                 \E i \in Items(g, row) : i[1] = 3 /\ <<i[2], i[3]>> = x
    BY DEF FactsIn
  <2>2. ASSUME NEW x \in F PROVE \E i \in Items(g, row) : i[1] = 3 /\ <<i[2], i[3]>> = x
    <3>1. <<3, x[1], x[2]>> \in Items(g, row)
      BY <1>11
    <3>2. x = <<x[1], x[2]>>
      BY <1>1, <1>2
    <3> QED BY <3>1, <3>2
  <2>3. ASSUME NEW i \in Items(g, row), i[1] = 3 PROVE <<i[2], i[3]>> \in F
    <3>1. PICK f \in F : i = <<3, f[1], f[2]>>
      BY <1>8, <2>3
    <3>2. f = <<f[1], f[2]>>
      BY <1>1, <1>2
    <3> QED BY <3>1, <3>2
  <2> QED BY <2>1, <2>2, <2>3
<1>16. ASSUME NEW i \in Items(g, row), i[1] = 2
       PROVE  i[2] \in U /\ i[3] = signals[i[2]].version
  BY <1>8, <1>16
<1> QED BY <1>1, <1>2, <1>5, <1>7, <1>12, <1>13, <1>14, <1>15, <1>16 DEF R, U, F

(* Every item falls in one window. *)
LEMMA WindowsAre ==
    ASSUME NEW items, IsFiniteSet(items), items \subseteq ItemTypes
    PROVE  /\ StepCount(items) \in Nat
           /\ \A i \in items : Rank(items, i) \div ItemBudget \in 0 .. (StepCount(items) - 1)
<1>1. Cardinality(items) \in Nat /\ ItemBudget \in Nat \ {0}
  BY FS_CardinalityType, NumberAssumption
<1>2. StepCount(items) \in Nat
  <2>1. Cardinality(items) + ItemBudget - 1 \in Nat
    BY <1>1
  <2> QED BY <1>1, <2>1 DEF StepCount
<1>3. ASSUME NEW i \in items
      PROVE  Rank(items, i) \in 0 .. (Cardinality(items) - 1)
  <2> DEFINE before == {j \in items : j[1] < i[1] \/ (j[1] = i[1] /\ j[2] < i[2])}
  <2>1. i[1] \in Nat /\ i[2] \in Nat
    <3>1. i \in ItemTypes
      OBVIOUS
    <3> QED BY <3>1 DEF ItemTypes
  <2>2. before \in SUBSET (items \ {i})
    BY <2>1
  <2>3. Rank(items, i) = Cardinality(before)
    BY DEF Rank
  <2> HIDE DEF before
  <2>4. IsFiniteSet(items \ {i}) /\ Cardinality(items \ {i}) = Cardinality(items) - 1
    BY FS_RemoveElement
  <2>5. IsFiniteSet(before) /\ Cardinality(before) <= Cardinality(items) - 1
    BY <2>2, <2>4, FS_Subset
  <2>6. Cardinality(before) \in Nat
    BY <2>5, FS_CardinalityType
  <2> QED BY <1>1, <2>3, <2>5, <2>6
<1>4. \A i \in items : Rank(items, i) \div ItemBudget \in 0 .. (StepCount(items) - 1)
  BY <1>1, <1>3, DivBound DEF StepCount
<1> QED BY <1>2, <1>4

(* What one group's steps are, and that each continues the row. *)
LEMMA CutFacts ==
    ASSUME Typed, NEW a, Validated(a), NEW g, NEW row, Cuttable(a, g, row)
    PROVE  /\ StepCount(Items(g, row)) \in Nat /\ row.version \in Nat
           /\ \A k \in Numbers(g, row) :
                 /\ CutStep(g, row, k) \in StepTypes
                 /\ SoundRow(CaseOf(g), CutStep(g, row, k).row)
                 /\ ReportsIn(CutStep(g, row, k).items) \subseteq Reports
                 /\ k = 0 => Builds(row, CutStep(g, row, k))
                 /\ k > 0 => k - 1 \in Numbers(g, row)
                             /\ Builds(CutStep(g, row, k - 1).row, CutStep(g, row, k))
           /\ \A i \in Items(g, row) :
                 \E k \in Numbers(g, row) : i \in CutStep(g, row, k).items
           /\ \A k \in Numbers(g, row) : CutStep(g, row, k).items \subseteq Items(g, row)
<1> DEFINE items == Items(g, row)
           c == CaseOf(g)
           level(i) == Rank(items, i) \div ItemBudget
           upto(k) == {i \in items : level(i) <= k}
<1>1. /\ items \subseteq ItemTypes /\ IsFiniteSet(items)
      /\ ReportsIn(items) = g.reports \ row.reports /\ FactsIn(items) = NewFacts(g, row)
      /\ NewFacts(g, row) \subseteq g.facts
  BY ItemsAre
<1>2. /\ g \in Addressed(a) /\ c \in Cases /\ g.reports \subseteq Reports
      /\ g.facts \subseteq Nat \X Nat /\ IsFiniteSet(g.facts) /\ IsFiniteSet(MessagesOf(g))
      /\ g.target \in Cases \union {0}
  BY CaseOfAddressed DEF Cuttable
<1>3. row \in Rows /\ SoundRow(c, row)
  BY DEF Cuttable
<1>4. row.version \in Nat /\ row.reports \subseteq Reports /\ row.facts \subseteq Nat \X Nat
      /\ row.state \in CaseStates \union {"NONE"}
  BY <1>3 DEF Rows
<1>5. StateOf(row) \in CaseStates
  BY <1>3 DEF SoundRow, StateOf, CaseStates
<1>6. StepCount(items) \in Nat /\ \A i \in items : level(i) \in 0 .. (StepCount(items) - 1)
  BY <1>1, WindowsAre
<1>7. Cardinality(MessagesOf(g)) \in Nat
  BY <1>2, FS_CardinalityType
<1>8. ASSUME NEW some \in SUBSET items
      PROVE  /\ ReportsIn(some) \subseteq Reports
             /\ FactsIn(some) \subseteq NewFacts(g, row)
             /\ \A r \in row.reports \union ReportsIn(some) : Subject(c, Issue[r])
  <2>1. ReportsIn(some) \subseteq ReportsIn(items) /\ FactsIn(some) \subseteq FactsIn(items)
    BY DEF ReportsIn, FactsIn
  <2>2. \A r \in row.reports : Subject(c, Issue[r])
    BY <1>3 DEF SoundRow
  <2>3. \A r \in g.reports : Subject(c, Issue[r])
    BY <1>2 DEF Validated
  <2> HIDE DEF items
  <2> QED BY <1>1, <1>2, <2>1, <2>2, <2>3
<1>9. OneValue(row.facts \union NewFacts(g, row))
  <2> SUFFICES ASSUME NEW f \in row.facts \union NewFacts(g, row),
                      NEW h \in row.facts \union NewFacts(g, row), f[1] = h[1]
      PROVE  f = h
    BY DEF OneValue
  <2>1. CASE f \in row.facts /\ h \in row.facts
    BY <1>3, <2>1 DEF SoundRow, OneValue
  <2>2. CASE f \in NewFacts(g, row) /\ h \in row.facts
    BY <2>2 DEF NewFacts
  <2>3. CASE f \in row.facts /\ h \in NewFacts(g, row)
    BY <2>3 DEF NewFacts
  <2>4. CASE f \in NewFacts(g, row) /\ h \in NewFacts(g, row)
    <3>1. f \in g.facts /\ h \in g.facts
      BY <1>1, <2>4
    <3>2. f[2] = h[2]
      BY <3>1 DEF Cuttable, AmbiguousOrDrifted
    <3>3. f \in Nat \X Nat /\ h \in Nat \X Nat
      BY <1>2, <3>1
    <3> QED BY <3>2, <3>3
  <2> QED BY <2>1, <2>2, <2>3, <2>4
<1>10. /\ IsFiniteSet(row.facts \union NewFacts(g, row))
       /\ Cardinality(row.facts \union NewFacts(g, row)) \in Nat
       /\ Cardinality(row.facts \union NewFacts(g, row)) <= MaxFacts
  <2>1. NewFacts(g, row) \in SUBSET g.facts
    BY <1>1
  <2>2. IsFiniteSet(row.facts) /\ IsFiniteSet(NewFacts(g, row))
    BY <1>2, <1>3, <2>1, FS_Subset DEF SoundRow
  <2>3. IsFiniteSet(row.facts \union NewFacts(g, row))
    BY <2>2, FS_Union
  <2>4. Cardinality(row.facts \union NewFacts(g, row)) \in Nat
    BY <2>3, FS_CardinalityType
  <2>5. ~(Cardinality(row.facts \union NewFacts(g, row)) > MaxFacts)
    BY DEF Cuttable, OverCapacity
  <2> QED BY <2>3, <2>4, <2>5, NumberAssumption
<1>11. ASSUME NEW k \in Nat
       PROVE  CaseAtStep(row, items, k) =
                 [version |-> row.version + k + 1, state |-> StateOf(row),
                  reports |-> row.reports \union ReportsIn(upto(k)),
                  facts   |-> row.facts \union FactsIn(upto(k))]
  BY DEF CaseAtStep, ReportsIn, FactsIn
<1>12. \A k : Window(items, k) = {i \in items : level(i) = k}
  BY DEF Window
<1>13. \A k : upto(k) \in SUBSET items /\ Window(items, k) \in SUBSET items
  BY <1>12
<1>14. upto(0) = Window(items, 0)
  BY <1>6, <1>12
<1>15. \A k \in Nat \ {0} : upto(k) = upto(k - 1) \union Window(items, k)
  <2> SUFFICES ASSUME NEW k \in Nat \ {0}, NEW i \in items
      PROVE  level(i) <= k <=> level(i) <= k - 1 \/ level(i) = k
    BY <1>12
  <2>1. level(i) \in Nat
    BY <1>6
  <2> HIDE DEF level
  <2> QED BY <2>1
<1>16. \A i \in items : \E k \in Numbers(g, row) : i \in Window(items, k)
  BY <1>6, <1>12 DEF Numbers
<1>17. \A k \in Numbers(g, row) : k \in Nat /\ (k > 0 => k - 1 \in Numbers(g, row) /\ k - 1 \in Nat)
  BY <1>6 DEF Numbers
<1> HIDE DEF level, upto, items
<1>18. ASSUME NEW k \in Nat
       PROVE  /\ CaseAtStep(row, items, k) \in Rows
              /\ SoundRow(c, CaseAtStep(row, items, k))
  <2> DEFINE after == CaseAtStep(row, items, k)
  <2>1. /\ after.version = row.version + k + 1 /\ after.state = StateOf(row)
        /\ after.reports = row.reports \union ReportsIn(upto(k))
        /\ after.facts = row.facts \union FactsIn(upto(k))
        /\ after = [version |-> after.version, state |-> after.state,
                    reports |-> after.reports, facts |-> after.facts]
    BY <1>11
  <2>2. /\ ReportsIn(upto(k)) \subseteq Reports /\ FactsIn(upto(k)) \subseteq NewFacts(g, row)
        /\ \A r \in row.reports \union ReportsIn(upto(k)) : Subject(c, Issue[r])
    BY <1>8, <1>13
  <2> HIDE DEF after
  <2>3. after.version \in Nat /\ after.version # 0
    BY <1>4, <2>1
  <2>4. after.reports \subseteq Reports /\ after.facts \subseteq Nat \X Nat
    BY <1>1, <1>2, <1>4, <2>1, <2>2
  <2>5. after \in Rows
    BY <1>5, <2>1, <2>3, <2>4 DEF Rows
  <2>6. IsFiniteSet(after.facts) /\ Cardinality(after.facts) <= MaxFacts
    <3>1. after.facts \in SUBSET (row.facts \union NewFacts(g, row))
      BY <2>1, <2>2
    <3>2. IsFiniteSet(after.facts)
          /\ Cardinality(after.facts) <= Cardinality(row.facts \union NewFacts(g, row))
      BY <1>10, <3>1, FS_Subset
    <3>3. Cardinality(after.facts) \in Nat
      BY <3>2, FS_CardinalityType
    <3> QED BY <1>10, <3>2, <3>3, NumberAssumption
  <2>7. OneValue(after.facts)
    BY <1>9, <2>1, <2>2 DEF OneValue
  <2>8. SoundRow(c, after)
    BY <1>5, <2>1, <2>2, <2>3, <2>6, <2>7 DEF SoundRow
  <2> QED BY <2>5, <2>8 DEF after
<1>19. ASSUME NEW k \in Numbers(g, row)
       PROVE  /\ CutStep(g, row, k) \in StepTypes
              /\ CutStep(g, row, k).case = c
              /\ CutStep(g, row, k).expected = row.version + k
              /\ CutStep(g, row, k).items = Window(items, k)
              /\ CutStep(g, row, k).row = CaseAtStep(row, items, k)
  <2>1. CutStep(g, row, k) =
           [case |-> c, new |-> g.target = 0, expected |-> row.version + k, first |-> k = 0,
            items |-> Window(items, k), row |-> CaseAtStep(row, items, k),
            related |-> Cardinality(MessagesOf(g))]
    BY DEF CutStep, items
  <2>2. k \in Nat /\ row.version + k \in Nat
    BY <1>4, <1>17
  <2>3. Window(items, k) \in SUBSET ItemTypes
    BY <1>1, <1>13 DEF items
  <2>4. CaseAtStep(row, items, k) \in Rows
    BY <1>18, <2>2
  <2>5. (g.target = 0) \in BOOLEAN /\ (k = 0) \in BOOLEAN
    OBVIOUS
  <2> HIDE DEF c
  <2>6. CutStep(g, row, k) \in StepTypes
    BY <1>2, <1>7, <2>1, <2>2, <2>3, <2>4, <2>5 DEF StepTypes, c
  <2> QED BY <2>1, <2>6 DEF c
<1>20. ASSUME NEW k \in Numbers(g, row), k = 0
       PROVE  Builds(row, CutStep(g, row, k))
  <2>1. CaseAtStep(row, items, 0) =
           [version |-> row.version + 0 + 1, state |-> StateOf(row),
            reports |-> row.reports \union ReportsIn(Window(items, 0)),
            facts   |-> row.facts \union FactsIn(Window(items, 0))]
    BY <1>11, <1>14
  <2> QED BY <1>19, <1>20, <2>1 DEF Builds
<1>21. ASSUME NEW k \in Numbers(g, row), k > 0
       PROVE  Builds(CutStep(g, row, k - 1).row, CutStep(g, row, k))
  <2> DEFINE before == CaseAtStep(row, items, k - 1)
             after == CaseAtStep(row, items, k)
  <2>1. k \in Nat \ {0} /\ k - 1 \in Nat /\ k - 1 \in Numbers(g, row)
    BY <1>17, <1>21
  <2>2. /\ before.version = row.version + (k - 1) + 1 /\ before.state = StateOf(row)
        /\ before.reports = row.reports \union ReportsIn(upto(k - 1))
        /\ before.facts = row.facts \union FactsIn(upto(k - 1))
    BY <1>11, <2>1
  <2>3. after = [version |-> row.version + k + 1, state |-> StateOf(row),
                 reports |-> row.reports \union ReportsIn(upto(k)),
                 facts   |-> row.facts \union FactsIn(upto(k))]
    BY <1>11, <2>1
  <2>4. upto(k) = upto(k - 1) \union Window(items, k)
    BY <1>15, <2>1
  <2>5. /\ ReportsIn(upto(k)) = ReportsIn(upto(k - 1)) \union ReportsIn(Window(items, k))
        /\ FactsIn(upto(k)) = FactsIn(upto(k - 1)) \union FactsIn(Window(items, k))
    <3>1. \A S, T : ReportsIn(S \union T) = ReportsIn(S) \union ReportsIn(T)
                    /\ FactsIn(S \union T) = FactsIn(S) \union FactsIn(T)
      BY DEF ReportsIn, FactsIn
    <3> QED BY <2>4, <3>1
  <2> HIDE DEF before, after
  <2>6. StateOf(before) = StateOf(row)
    <3>1. before.version # 0
      BY <1>4, <2>1, <2>2
    <3> QED BY <2>2, <3>1 DEF StateOf
  <2>7. after = [version |-> (row.version + k) + 1, state |-> StateOf(before),
                 reports |-> before.reports \union ReportsIn(Window(items, k)),
                 facts   |-> before.facts \union FactsIn(Window(items, k))]
    BY <2>2, <2>3, <2>5, <2>6
  <2>8. CutStep(g, row, k - 1).row = before
    BY <1>19, <2>1 DEF before
  <2>9. CutStep(g, row, k).row = after /\ CutStep(g, row, k).items = Window(items, k)
        /\ CutStep(g, row, k).expected = row.version + k
    BY <1>19 DEF after
  <2> QED BY <2>7, <2>8, <2>9 DEF Builds
<1>22. ASSUME NEW k \in Numbers(g, row)
       PROVE  /\ SoundRow(c, CutStep(g, row, k).row)
              /\ ReportsIn(CutStep(g, row, k).items) \subseteq Reports
              /\ CutStep(g, row, k).items \subseteq items
  BY <1>8, <1>13, <1>17, <1>18, <1>19
<1>23. \A i \in items : \E k \in Numbers(g, row) : i \in CutStep(g, row, k).items
  BY <1>16, <1>19
<1>24. StepCount(items) \in Nat
  BY <1>6
<1> QED BY <1>4, <1>17, <1>19, <1>20, <1>21, <1>22, <1>23, <1>24 DEF items

(* The whole plan of an answer whose groups pass the gates. *)
LEMMA PlanOwes ==
    ASSUME Typed, NEW o \in Ops, Validated(answer[o]), SeenInv(o), pc[o] = "derive", ~Denied(o)
    PROVE  Owed(answer[o], Planned(o)) /\ Marked(Planned(o))
<1> DEFINE a == answer[o]
           row(g) == seen[o][CaseOf(g)]
           steps == Planned(o)
<1>1. ASSUME NEW g \in Addressed(a)
      PROVE  /\ Cuttable(a, g, row(g)) /\ CaseOf(g) \in Cases
             /\ row(g).version <= cases[CaseOf(g)].version
             /\ row(g).version = cases[CaseOf(g)].version => row(g) = cases[CaseOf(g)]
             /\ row(g).reports \subseteq cases[CaseOf(g)].reports
             /\ row(g).facts \subseteq cases[CaseOf(g)].facts
  <2>1. CaseOf(g) \in Cases
    BY CaseOfAddressed
  <2>2. row(g) \in Rows
    BY <2>1 DEF SeenInv
  <2>3. ~AmbiguousOrDrifted(g, row(g)) /\ ~AlreadyLinked(g) /\ ~OverCapacity(g, row(g))
    BY DEF Denied
  <2> QED BY <2>1, <2>2, <2>3 DEF SeenInv, Cuttable
<1>2. \A s : s \in steps <=>
         \E g \in Addressed(a) : \E k \in Numbers(g, row(g)) : s = CutStep(g, row(g), k)
  <2>1. \A s : s \in steps <=> \E g \in Addressed(a) : s \in CutSteps(g, row(g))
    BY DEF Planned
  <2> QED BY <2>1, CutStepsAre
<1> HIDE DEF row, steps
<1>3. ASSUME NEW g \in Addressed(a)
      PROVE  /\ StepCount(Items(g, row(g))) \in Nat /\ row(g).version \in Nat
             /\ \A k \in Numbers(g, row(g)) :
                   /\ CutStep(g, row(g), k) \in StepTypes
                   /\ SoundRow(CaseOf(g), CutStep(g, row(g), k).row)
                   /\ ReportsIn(CutStep(g, row(g), k).items) \subseteq Reports
                   /\ k = 0 => Builds(row(g), CutStep(g, row(g), k))
                   /\ k > 0 => k - 1 \in Numbers(g, row(g))
                               /\ Builds(CutStep(g, row(g), k - 1).row, CutStep(g, row(g), k))
             /\ \A i \in Items(g, row(g)) :
                   \E k \in Numbers(g, row(g)) : i \in CutStep(g, row(g), k).items
             /\ \A k \in Numbers(g, row(g)) : CutStep(g, row(g), k).items \subseteq Items(g, row(g))
  BY <1>1, CutFacts
<1>4. ASSUME NEW g \in Addressed(a), NEW k \in Numbers(g, row(g))
      PROVE  /\ CutStep(g, row(g), k).case = CaseOf(g)
             /\ CutStep(g, row(g), k).new = (g.target = 0)
             /\ CutStep(g, row(g), k).expected = row(g).version + k
             /\ CutStep(g, row(g), k).first <=> k = 0
             /\ k \in Nat /\ 0 \in Numbers(g, row(g))
  <2>1. k \in Nat /\ 0 \in Numbers(g, row(g))
    BY <1>3 DEF Numbers
  <2> QED BY <2>1 DEF CutStep
<1>5. ASSUME NEW g \in Addressed(a), NEW k \in Numbers(g, row(g)),
             NEW h \in Addressed(a), NEW j \in Numbers(h, row(h)),
             SameGroup(CutStep(g, row(g), k), CutStep(h, row(h), j))
      PROVE  g = h
  <2>1. CaseOf(g) = CaseOf(h) /\ (g.target = 0 <=> h.target = 0)
    BY <1>4, <1>5 DEF SameGroup
  <2> QED BY <2>1 DEF Validated
<1>6. steps \subseteq StepTypes
  BY <1>2, <1>3
<1>7. IsFiniteSet(steps)
  <2> DEFINE each == {CutSteps(g, row(g)) : g \in Addressed(a)}
  <2>1. IsFiniteSet(Addressed(a))
    <3>1. IsFiniteSet(a)
      BY AnswerAssumption, FS_EmptySet DEF Validated, NoAnswer
    <3>2. Addressed(a) \in SUBSET a
      BY DEF Addressed
    <3> QED BY <3>1, <3>2, FS_Subset
  <2>2. IsFiniteSet(each)
    <3> DEFINE of == [g \in Addressed(a) |-> CutSteps(g, row(g))]
    <3>1. of \in Surjection(Addressed(a), each)
      BY DEF Surjection
    <3> HIDE DEF of, each
    <3> QED BY <2>1, <3>1, FS_Surjection
  <2>3. ASSUME NEW g \in Addressed(a) PROVE IsFiniteSet(CutSteps(g, row(g)))
    <3> DEFINE N == Numbers(g, row(g))
               of == [k \in N |-> CutStep(g, row(g), k)]
    <3>1. IsFiniteSet(N)
      <4>1. 0 \in Int /\ StepCount(Items(g, row(g))) - 1 \in Int
        BY <1>3
      <4> QED BY <4>1, FS_Interval DEF Numbers
    <3>2. of \in [N -> CutSteps(g, row(g))]
      BY CutStepsAre
    <3>3. \A s \in CutSteps(g, row(g)) : \E k \in N : of[k] = s
      BY CutStepsAre
    <3>4. of \in Surjection(N, CutSteps(g, row(g)))
      BY <3>2, <3>3 DEF Surjection
    <3> HIDE DEF N, of
    <3> QED BY <3>1, <3>4, FS_Surjection
  <2>4. \A T \in each : IsFiniteSet(T)
    BY <2>3
  <2>5. steps = UNION each
    BY DEF steps, Planned, row
  <2> HIDE DEF each
  <2> QED BY <2>2, <2>4, <2>5, FS_UNION
<1>8. Keyed(steps)
  <2> SUFFICES ASSUME NEW s \in steps, NEW t \in steps, SameGroup(s, t), s.expected = t.expected
      PROVE  s = t
    BY DEF Keyed
  <2>1. PICK g \in Addressed(a) : \E k \in Numbers(g, row(g)) : s = CutStep(g, row(g), k)
    BY <1>2
  <2>2. PICK k \in Numbers(g, row(g)) : s = CutStep(g, row(g), k)
    BY <2>1
  <2>3. PICK h \in Addressed(a) : \E j \in Numbers(h, row(h)) : t = CutStep(h, row(h), j)
    BY <1>2
  <2>4. PICK j \in Numbers(h, row(h)) : t = CutStep(h, row(h), j)
    BY <2>3
  <2>5. g = h
    BY <1>5, <2>2, <2>4
  <2>6. row(g).version + k = row(g).version + j /\ row(g).version \in Nat /\ k \in Nat /\ j \in Nat
    BY <1>3, <1>4, <2>2, <2>4, <2>5
  <2>7. k = j
    BY <2>6
  <2> QED BY <2>2, <2>4, <2>5, <2>7
<1>9. ASSUME NEW g \in Addressed(a), NEW k \in Numbers(g, row(g))
      PROVE  Leads(CutStep(g, row(g), k), steps) <=> k = 0
  <2>1. ASSUME k = 0, NEW t \in steps, SameGroup(CutStep(g, row(g), k), t)
        PROVE  CutStep(g, row(g), k).expected <= t.expected
    <3>1. PICK h \in Addressed(a) : \E j \in Numbers(h, row(h)) : t = CutStep(h, row(h), j)
      BY <1>2
    <3>2. PICK j \in Numbers(h, row(h)) : t = CutStep(h, row(h), j)
      BY <3>1
    <3>3. g = h
      BY <1>5, <2>1, <3>2
    <3>4. CutStep(g, row(g), k).expected = row(g).version + k /\ t.expected = row(g).version + j
          /\ row(g).version \in Nat /\ j \in Nat
      BY <1>3, <1>4, <3>2, <3>3
    <3>5. row(g).version + k <= row(g).version + j
      BY <2>1, <3>4
    <3> QED BY <3>4, <3>5
  <2>2. ASSUME Leads(CutStep(g, row(g), k), steps) PROVE k = 0
    <3>1. 0 \in Numbers(g, row(g)) /\ k \in Nat
      BY <1>4
    <3>2. CutStep(g, row(g), 0) \in steps
      BY <1>2, <3>1
    <3>3. SameGroup(CutStep(g, row(g), k), CutStep(g, row(g), 0))
      BY <1>4, <3>1 DEF SameGroup
    <3>4. CutStep(g, row(g), k).expected <= CutStep(g, row(g), 0).expected
      BY <2>2, <3>2, <3>3 DEF Leads
    <3>5. CutStep(g, row(g), k).expected = row(g).version + k
          /\ CutStep(g, row(g), 0).expected = row(g).version + 0 /\ row(g).version \in Nat
      BY <1>3, <1>4, <3>1
    <3> QED BY <3>1, <3>4, <3>5
  <2> QED BY <2>1, <2>2 DEF Leads
<1>10. Marked(steps)
  <2> SUFFICES ASSUME NEW g \in Addressed(a), NEW k \in Numbers(g, row(g))
      PROVE  CutStep(g, row(g), k).first <=> Leads(CutStep(g, row(g), k), steps)
    BY <1>2 DEF Marked
  <2> QED BY <1>4, <1>9
<1>11. Chained(steps)
  <2> SUFFICES ASSUME NEW s \in steps, NEW t \in steps, SameGroup(s, t), s.expected < t.expected
      PROVE  \E u \in steps : SameGroup(u, t) /\ u.expected + 1 = t.expected /\ Builds(u.row, t)
    BY DEF Chained
  <2>1. PICK g \in Addressed(a) : \E k \in Numbers(g, row(g)) : s = CutStep(g, row(g), k)
    BY <1>2
  <2>2. PICK k \in Numbers(g, row(g)) : s = CutStep(g, row(g), k)
    BY <2>1
  <2>3. PICK h \in Addressed(a) : \E j \in Numbers(h, row(h)) : t = CutStep(h, row(h), j)
    BY <1>2
  <2>4. PICK j \in Numbers(h, row(h)) : t = CutStep(h, row(h), j)
    BY <2>3
  <2>5. g = h
    BY <1>5, <2>2, <2>4
  <2>6. s.expected = row(h).version + k /\ t.expected = row(h).version + j
        /\ row(h).version \in Nat /\ k \in Nat /\ j \in Nat
    BY <1>3, <1>4, <2>2, <2>4, <2>5
  <2>7. j > 0
    BY <2>6
  <2>8. j - 1 \in Numbers(h, row(h)) /\ Builds(CutStep(h, row(h), j - 1).row, t)
    <3>1. j - 1 \in Numbers(h, row(h))
          /\ Builds(CutStep(h, row(h), j - 1).row, CutStep(h, row(h), j))
      BY <1>3, <2>7
    <3> QED BY <2>4, <3>1
  <2>9. CutStep(h, row(h), j - 1) \in steps
    BY <1>2, <2>8
  <2>10. SameGroup(CutStep(h, row(h), j - 1), t)
    BY <1>4, <2>4, <2>8 DEF SameGroup
  <2>11. CutStep(h, row(h), j - 1).expected = row(h).version + (j - 1)
    BY <1>4, <2>8
  <2>12. CutStep(h, row(h), j - 1).expected + 1 = t.expected
    BY <2>6, <2>11
  <2> QED BY <2>8, <2>9, <2>10, <2>12
<1>12. Founded(steps)
  <2> SUFFICES ASSUME NEW g \in Addressed(a), NEW k \in Numbers(g, row(g)),
                      Leads(CutStep(g, row(g), k), steps)
      PROVE  LET s == CutStep(g, row(g), k)
             IN /\ s.expected <= cases[s.case].version
                /\ s.expected = cases[s.case].version => Builds(cases[s.case], s)
    BY <1>2 DEF Founded
  <2>1. k = 0
    BY <1>9
  <2>2. CutStep(g, row(g), k).expected = row(g).version
    BY <1>3, <1>4, <2>1
  <2>3. CutStep(g, row(g), k).case = CaseOf(g) /\ Builds(row(g), CutStep(g, row(g), k))
    BY <1>3, <1>4, <2>1
  <2> QED BY <1>1, <2>2, <2>3
<1>13. Signalled(steps)
  <2> SUFFICES ASSUME NEW g \in Addressed(a), NEW k \in Numbers(g, row(g)),
                      NEW i \in CutStep(g, row(g), k).items, i[1] = 2
      PROVE  /\ i[2] \in Messages
             /\ i[3] <= signals[i[2]].version
             /\ i[3] = signals[i[2]].version =>
                   signals[i[2]].case \in {0, CutStep(g, row(g), k).case}
    BY <1>2 DEF Signalled
  <2>1. i \in Items(g, row(g))
    BY <1>3
  <2>2. /\ i[2] \in Messages /\ i[3] = signals[i[2]].version
        /\ signals[i[2]].case \in {0, CaseOf(g)}
    BY <1>1, <2>1, ItemsAre
  <2>3. signals[i[2]].version \in Nat
    BY <2>2 DEF Typed, Signals
  <2> QED BY <1>4, <2>2, <2>3
<1>14. Lasting(steps)
  <2> SUFFICES ASSUME NEW g \in Addressed(a), NEW k \in Numbers(g, row(g))
      PROVE  LET s == CutStep(g, row(g), k)
             IN SoundRow(s.case, s.row) /\ ReportsIn(s.items) \subseteq Reports
    BY <1>2 DEF Lasting
  <2> QED BY <1>3, <1>4
<1>15. Covered(a, steps)
  <2> SUFFICES ASSUME NEW g \in Addressed(a)
      PROVE  LET items == UNION {s.items : s \in {t \in steps : t.case = CaseOf(g)}}
             IN /\ g.reports \subseteq cases[CaseOf(g)].reports \union ReportsIn(items)
                /\ g.facts \subseteq cases[CaseOf(g)].facts \union FactsIn(items)
                /\ \A m \in MessagesOf(g) : signals[m].case = CaseOf(g) \/ m \in MessagesIn(items)
    BY DEF Covered
  <2> DEFINE items == UNION {s.items : s \in {t \in steps : t.case = CaseOf(g)}}
             own == Items(g, row(g))
  <2>1. own \subseteq items
    <3> SUFFICES ASSUME NEW i \in own PROVE i \in items
      OBVIOUS
    <3>1. PICK k \in Numbers(g, row(g)) : i \in CutStep(g, row(g), k).items
      BY <1>3
    <3>2. CutStep(g, row(g), k) \in steps /\ CutStep(g, row(g), k).case = CaseOf(g)
      BY <1>2, <1>4
    <3> QED BY <3>1, <3>2
  <2> HIDE DEF items
  <2>2. /\ ReportsIn(own) \subseteq ReportsIn(items) /\ FactsIn(own) \subseteq FactsIn(items)
        /\ MessagesIn(own) \subseteq MessagesIn(items)
    <3> HIDE DEF own
    <3> QED BY <2>1 DEF ReportsIn, FactsIn, MessagesIn
  <2>3. /\ ReportsIn(own) = g.reports \ row(g).reports
        /\ MessagesIn(own) = Undisplayed(g, row(g))
        /\ FactsIn(own) = NewFacts(g, row(g))
    BY <1>1, ItemsAre
  <2> HIDE DEF own
  <2>4. g.reports \subseteq cases[CaseOf(g)].reports \union ReportsIn(items)
    BY <1>1, <2>2, <2>3
  <2>5. g.facts \subseteq cases[CaseOf(g)].facts \union FactsIn(items)
    <3> SUFFICES ASSUME NEW f \in g.facts, f \notin NewFacts(g, row(g))
        PROVE  f \in cases[CaseOf(g)].facts
      BY <2>2, <2>3
    <3>1. PICK h \in row(g).facts : f[1] = h[1]
      BY DEF NewFacts
    <3>2. f[2] = h[2]
      BY <1>1, <3>1 DEF Cuttable, AmbiguousOrDrifted
    <3>3. f \in Nat \X Nat
      BY CaseOfAddressed
    <3>4. h \in Nat \X Nat
      BY <1>1, <3>1 DEF Cuttable, Rows
    <3>5. f = h
      BY <3>1, <3>2, <3>3, <3>4
    <3> QED BY <1>1, <3>1, <3>5
  <2>6. \A m \in MessagesOf(g) : signals[m].case = CaseOf(g) \/ m \in MessagesIn(items)
    <3> SUFFICES ASSUME NEW m \in MessagesOf(g), m \notin Undisplayed(g, row(g))
        PROVE  signals[m].case = CaseOf(g)
      BY <2>2, <2>3
    <3>1. signals[m].case # 0
      BY DEF Undisplayed
    <3>2. signals[m].case \in {0, CaseOf(g)}
      BY <1>1 DEF Cuttable, AlreadyLinked
    <3> QED BY <3>1, <3>2
  <2> QED BY <2>4, <2>5, <2>6 DEF items
<1>16. Owed(a, steps)
  BY <1>6, <1>7, <1>8, <1>11, <1>12, <1>13, <1>14, <1>15 DEF Owed
<1> QED BY <1>10, <1>16 DEF steps

LEMMA DeriveStep == ASSUME IInv, NEW o \in Ops, Derive(o) PROVE IInv'
<1>1. TypeOK /\ OpInv(o) /\ Typed
  BY Typing DEF IInv, OpInv
<1>2. /\ pc[o] = "derive"
      /\ (/\ ~Denied(o) /\ todo' = [todo EXCEPT ![o] = Planned(o)]
          /\ Goto(o, IF plan[o].frozen THEN "prove" ELSE "freeze"))
         \/ (Goto(o, IF plan[o].frozen THEN "settle" ELSE "refuse") /\ UNCHANGED todo)
      /\ UNCHANGED <<store, op, input, plan, asked, held, answer, seen, visit, faults, moves>>
  BY DEF Derive
<1>3. /\ pc' \in [Ops -> Places]
      /\ pc'[o] \in {"prove", "freeze", "settle", "refuse"}
      /\ pc'[o] \in {"prove", "settle"} <=> plan[o].frozen
      /\ pc'[o] \in {"prove", "freeze"} => ~Denied(o) /\ todo' = [todo EXCEPT ![o] = Planned(o)]
      /\ \A p \in Ops \ {o} : pc'[p] = pc[p]
  <2>1. "prove" \in Places /\ "freeze" \in Places /\ "settle" \in Places /\ "refuse" \in Places
    BY DEF Places
  <2>2. CASE /\ ~Denied(o) /\ todo' = [todo EXCEPT ![o] = Planned(o)]
             /\ Goto(o, IF plan[o].frozen THEN "prove" ELSE "freeze")
    BY <1>1, <2>1, <2>2, GotoTypes
  <2>3. CASE Goto(o, IF plan[o].frozen THEN "settle" ELSE "refuse")
    BY <1>1, <2>1, <2>3, GotoTypes
  <2> QED BY <1>2, <2>2, <2>3
<1>4. /\ DOMAIN todo' = Ops /\ \A p \in Ops \ {o} : todo'[p] = todo[p]
      /\ pc'[o] \in {"prove", "freeze"} => todo'[o] = Planned(o)
  <2>1. DOMAIN todo = Ops
    BY <1>1 DEF TypeOK
  <2> QED BY <1>2, <1>3, <2>1
<1>5. TypeOK'
  BY <1>1, <1>2, <1>3, <1>4 DEF TypeOK, Places, store
<1>6. \A p \in Ops \ {o} : Elsewhere(p)
  BY <1>2, <1>3, <1>4 DEF Elsewhere, store
<1>7. PlaceInv(o)'
  BY <1>1, <1>2, <1>3 DEF OpInv, PlaceInv, store
<1>8. SeenInv(o)'
  BY <1>1, <1>2, <1>3 DEF OpInv, SeenInv
<1>9. WorkInv(o)'
  <2>1. Validated(answer[o]) /\ (plan[o].frozen => answer[o] = plan[o].answer)
    BY <1>1, <1>2 DEF OpInv, WorkInv, Reading
  <2>2. Validated(answer[o])' /\ (plan[o].frozen => answer[o] = plan[o].answer)'
    BY <1>2, <2>1 DEF Validated, Subject, Addressed
  <2>3. ASSUME pc'[o] \in {"prove", "freeze"}
        PROVE  Owed(answer[o], todo[o])' /\ Marked(todo[o])'
    <3>1. Owed(answer[o], Planned(o)) /\ Marked(Planned(o))
      BY <1>1, <1>2, <1>3, <2>1, <2>3, PlanOwes DEF OpInv
    <3> DEFINE steps == Planned(o)
    <3>2. todo'[o] = steps /\ UNCHANGED <<cases, signals, answer>>
      BY <1>2, <1>4, <2>3 DEF store
    <3> HIDE DEF steps
    <3>3. Owed(answer[o], steps) /\ Marked(steps)
      BY <3>1 DEF steps
    <3>4. Marked(todo[o])'
      BY <3>2, <3>3 DEF Marked, Leads
    <3>5. Owed(answer[o], todo[o])'
      <4>1. Founded(todo[o])'
        BY <3>2, <3>3 DEF Owed, Founded, Leads, Builds, StateOf
      <4>2. Chained(todo[o])'
        BY <3>2, <3>3 DEF Owed, Chained, Builds, StateOf
      <4>3. Lasting(todo[o])' /\ Signalled(todo[o])'
        BY <3>2, <3>3 DEF Owed, Lasting, SoundRow, Subject, Signalled
      <4>4. Covered(answer[o], todo[o])'
        BY <3>2, <3>3 DEF Owed, Covered, Addressed
      <4>5. (todo[o] \subseteq StepTypes /\ IsFiniteSet(todo[o]) /\ Keyed(todo[o]))'
        BY <3>2, <3>3 DEF Owed, Keyed, StepTypes
      <4> QED BY <4>1, <4>2, <4>3, <4>4, <4>5 DEF Owed
    <3> QED BY <3>4, <3>5
  <2> QED BY <1>3, <2>2, <2>3 DEF WorkInv
<1> QED BY <1>2, <1>5, <1>6, <1>7, <1>8, <1>9, QuietStep DEF store

-----------------------------------------------------------------------------
(* The invariant holds at first, and every step keeps it.                   *)

LEMMA SeedSubject == \A r \in SeedReports : Subject(SeedCase, Issue[r])
<1> SUFFICES ASSUME NEW r \in SeedReports PROVE Subject(SeedCase, Issue[r])
  OBVIOUS
<1>1. IsFiniteSet(SeedReports)
  BY FiniteAssumption, ReportAssumption, FS_Subset
<1>2. PICK issue : IssuesOf(SeedReports) = {issue}
  BY <1>1, IssuesFinite, FS_Singleton, CandidateAssumption
<1>3. Issue[r] = issue /\ issue # "OTHER"
  BY <1>2, CandidateAssumption DEF IssuesOf, Detectable
<1> QED BY <1>2, <1>3, CandidateAssumption DEF Subject, Proposed

LEMMA InitHolds == ASSUME Init PROVE IInv
<1> USE DEF Init
<1>1. Cardinality(SeedMessages) \in Nat
  <2>1. SeedMessages \in SUBSET Messages
    BY ReportAssumption DEF SeedMessages
  <2> QED BY <2>1, FiniteAssumption, FS_Subset, FS_CardinalityType
<1>2. cases \in [Cases -> Rows]
  BY ReportAssumption DEF Rows, CaseStates, NoCase
<1>3. signals \in [Messages -> Signals]
  BY <1>1, CaseAssumption DEF Signals, CaseStates, NoSignal
<1>4. \A c \in Cases : IF cases[c].version = 0 THEN cases[c] = NoCase
                                               ELSE cases[c].state \in CaseStates
  BY DEF CaseStates, NoCase
<1>5. TypeOK
  <2>1. audited \subseteq Ops \X Cases
    OBVIOUS
  <2>2. op \in [Ops -> [status : {"PENDING", "RUNNING"} \union Terminal,
                        version : Nat, aged : BOOLEAN]]
    OBVIOUS
  <2>3. input \in [Ops -> [Cases -> Nat]]
    BY DEF NoInput
  <2>4. /\ DOMAIN plan = Ops
        /\ \A o \in Ops : plan[o].answer \in Answers \union {NoAnswer} /\ plan[o].frozen \in BOOLEAN
    BY DEF NoPlan, NoAnswer
  <2>5. /\ progress \in [Ops -> Nat] /\ record \in [Ops -> {"NONE", "SUCCEEDED", "FAILED"}]
        /\ asked \in [Ops -> 0 .. 2] /\ pc \in [Ops -> Places]
        /\ held \in [Ops -> Nat] /\ visit \in [Ops -> Nat]
    BY DEF Places
  <2>6. answer \in [Ops -> Answers \union {NoAnswer}] /\ DOMAIN seen = Ops /\ DOMAIN todo = Ops
    OBVIOUS
  <2>7. faults \in SUBSET FaultKinds /\ moves \in [Cases -> 0 .. MaxMoves]
    BY NumberAssumption
  <2> QED BY <1>2, <1>3, <1>4, <2>1, <2>2, <2>3, <2>4, <2>5, <2>6, <2>7 DEF TypeOK, Places
<1>6. SoundCases
  <2> SUFFICES ASSUME NEW c \in Cases PROVE SoundRow(c, cases[c])
    BY DEF SoundCases
  <2>1. cases[c].facts = {} /\ cases[c].reports = (IF c = SeedCase THEN SeedReports ELSE {})
    BY DEF NoCase
  <2>2. IsFiniteSet(cases[c].facts) /\ Cardinality(cases[c].facts) <= MaxFacts
    <3>1. IsFiniteSet(cases[c].facts) /\ Cardinality(cases[c].facts) = 0
      BY <2>1, FS_EmptySet
    <3> QED BY <3>1, NumberAssumption
  <2>3. OneValue(cases[c].facts)
    BY <2>1 DEF OneValue
  <2>4. \A r \in cases[c].reports : Subject(c, Issue[r])
    BY <2>1, SeedSubject
  <2> QED BY <1>4, <2>2, <2>3, <2>4 DEF SoundRow
<1>7. ASSUME NEW o \in Ops PROVE OpInv(o)
  <2>1. Validated(NoAnswer)
    BY DEF Validated, NoAnswer, Addressed
  <2>2. SoundPlan(plan[o])
    BY <2>1, FS_EmptySet DEF NoPlan, NoAnswer, SoundPlan, Keyed, Marked
  <2>3. Cardinality(plan[o].steps) = 0
    BY FS_EmptySet DEF NoPlan
  <2>4. PlanInv(o)
    BY <2>2, <2>3 DEF PlanInv, DataSteps, NoPlan
  <2>5. PlaceInv(o)
    BY DEF PlaceInv
  <2>6. SeenInv(o)
    BY NothingSeenTypes DEF SeenInv
  <2>7. WorkInv(o) /\ Recorded(o)
    BY DEF WorkInv, Reading, Recorded
  <2> QED BY <2>4, <2>5, <2>6, <2>7 DEF OpInv
<1>8. CaseIsWhatWasCommitted
  <2> SUFFICES ASSUME NEW c \in Cases PROVE Ledger(c)
    BY LedgerByCase
  <2>1. \A o \in Ops : Committed(o) = {}
    BY DEF Committed, Prefix, NoPlan
  <2>2. Writes(c) = {}
    BY <2>1, WritesMember
  <2>3. Written(c) = {}
    BY <2>2 DEF Written
  <2>4. ReportsIn(Written(c)) = {} /\ {i[2] : i \in {j \in Written(c) : j[1] = 3}} = {}
    BY <2>3 DEF ReportsIn
  <2>5. Cardinality(Writes(c)) = 0
    BY <2>2, FS_EmptySet
  <2>6. cases[c].version = Initially(c).version + moves[c] + 0
        /\ cases[c].reports = Initially(c).reports /\ cases[c].facts = {}
    BY DEF Initially, NoCase
  <2> QED BY <2>2, <2>4, <2>5, <2>6 DEF Ledger
<1> QED BY <1>5, <1>6, <1>7, <1>8 DEF IInv, OpInv

LEMMA StutterHolds == ASSUME IInv, UNCHANGED vars PROVE IInv'
<1> USE DEF vars, store, worker
<1>1. TypeOK'
  BY DEF IInv, TypeOK
<1>2. Typed /\ Typed' /\ Grows
  BY <1>1, Typing, GrowsByStanding DEF IInv
<1>3. SoundCases'
  BY DEF IInv, SoundCases, SoundRow, Subject
<1>4. CaseIsWhatWasCommitted'
  BY LedgerStands, CommittedStays DEF IInv
<1>5. \A p \in Ops : OpInv(p)'
  BY <1>2, OthersStay DEF IInv, OpInv, Elsewhere
<1> QED BY <1>1, <1>3, <1>4, <1>5 DEF IInv, OpInv

LEMMA NextHolds == ASSUME IInv, [Next]_vars PROVE IInv'
<1>1. CASE UNCHANGED vars
  BY <1>1, StutterHolds
<1>2. ASSUME NEW o \in Ops, Work(o) PROVE IInv'
  BY <1>2, BeginStep, FreezeInputStep, InvokeStep, LoadCasesStep, DeriveStep, FreezePlanStep,
     ProveStep, CommitStepStep, FinalizeStep, RefuseStep, SettleStep DEF Work
<1>3. ASSUME NEW o \in Ops,
             Claim(o) \/ ReadFails(o) \/ Crash(o) \/ Age(o) \/ Visit(o) \/ Abandon(o)
      PROVE  IInv'
  BY <1>3, ClaimStep, ReadFailsStep, CrashStep, AgeStep, VisitStep, AbandonStep
<1>4. ASSUME NEW c \in Cases, MoveCase(c) PROVE IInv'
  BY <1>4, MoveCaseStep
<1> QED BY <1>1, <1>2, <1>3, <1>4 DEF Next

(* The inductive invariant: a plan in memory is a sound continuation of the *)
(* store as long as the versions it names stand, a plan past its proof is   *)
(* the tail of the frozen one, and a record speaks for the store.           *)
THEOREM MonitorInductive == Spec => []IInv
<1>1. Init => IInv
  BY InitHolds
<1>2. IInv /\ [Next]_vars => IInv'
  BY NextHolds
<1> QED BY <1>1, <1>2, PTL DEF Spec

(* Types: every row, signal, plan, claim and place of every operation is of *)
(* its kind, and a case without a version is no case.                       *)
THEOREM MonitorTypes == Spec => []TypeOK
<1>1. IInv => TypeOK
  BY DEF IInv
<1> QED BY <1>1, MonitorInductive, PTL

(* The records tell the truth of the store: a successful invocation record  *)
(* stands for the whole answer written, a failed one for nothing touched,   *)
(* and an operation succeeds only with its record or with nothing to ask.   *)
(* Code: _finalize, _record_failed_invocation, MonitorOperationWorker.      *)
THEOREM RecordsAreHonest == Spec => []RecordIsHonest
<1>1. IInv => RecordIsHonest
  <2> SUFFICES ASSUME IInv, NEW o \in Ops
      PROVE  /\ record[o] = "SUCCEEDED" =>
                   /\ progress[o] = DataSteps(o) + 1
                   /\ \A g \in Addressed(plan[o].answer) :
                         /\ g.reports \subseteq cases[CaseOf(g)].reports
                         /\ g.facts \subseteq cases[CaseOf(g)].facts
                         /\ \A m \in MessagesOf(g) : signals[m].case = CaseOf(g)
             /\ record[o] = "FAILED" => progress[o] = 0 /\ ~plan[o].frozen
             /\ op[o].status = "SUCCEEDED" => record[o] = "SUCCEEDED" \/ asked[o] = 0
    BY DEF RecordIsHonest
  <2>1. PlanInv(o) /\ PlaceInv(o) /\ Recorded(o)
    BY DEF IInv
  <2>2. ASSUME record[o] = "SUCCEEDED", NEW g \in Addressed(plan[o].answer)
        PROVE  /\ g.reports \subseteq cases[CaseOf(g)].reports
               /\ g.facts \subseteq cases[CaseOf(g)].facts
               /\ \A m \in MessagesOf(g) : signals[m].case = CaseOf(g)
    BY <2>1, <2>2 DEF Recorded, Covered, ReportsIn, FactsIn, MessagesIn
  <2> QED BY <2>1, <2>2 DEF PlanInv, PlaceInv, Recorded
<1> QED BY <1>1, MonitorInductive, PTL

(* No update is lost, applied twice, applied beyond the prefix progress     *)
(* names, or left unaudited: a case is what it started with and what the    *)
(* committed steps wrote, and its version counts each write once.           *)
(* Code: _commit_step, the versions every step expects, first_for_case.     *)
THEOREM CasesAreWhatWasCommitted == Spec => []CaseIsWhatWasCommitted
<1>1. IInv => CaseIsWhatWasCommitted
  BY DEF IInv
<1> QED BY <1>1, MonitorInductive, PTL

(* A case stays within its bound of facts, settles no slot twice and is     *)
(* about one issue, however many operations extend it at once.              *)
(* Code: _check_projected_case_capacity, _plan_facts,                       *)
(* _validate_candidate_links, derive_identities.                            *)
THEOREM CasesStaySound == Spec => []CaseStaysSound
<1>1. IInv => CaseStaysSound
  <2> SUFFICES ASSUME IInv, NEW c \in Cases
      PROVE  /\ Cardinality(cases[c].facts) <= MaxFacts
             /\ \A f, h \in cases[c].facts : f[1] = h[1] => f = h
             /\ Cardinality(cases[c].reports) > 1 =>
                   \E issue \in {Issue[r] : r \in Reports} \ {"OTHER"} :
                       IssuesOf(cases[c].reports) = {issue}
    BY DEF CaseStaysSound
  <2>1. SoundRow(c, cases[c]) /\ cases[c].reports \subseteq Reports
    BY DEF IInv, SoundCases, TypeOK, Rows
  <2>2. ASSUME Cardinality(cases[c].reports) > 1
        PROVE  \E issue \in {Issue[r] : r \in Reports} \ {"OTHER"} :
                   IssuesOf(cases[c].reports) = {issue}
    <3>1. cases[c].reports # {}
      BY <2>2, FS_EmptySet
    <3>2. PICK r \in cases[c].reports : TRUE
      BY <3>1
    <3>3. Subject(c, Issue[r])
      BY <2>1 DEF SoundRow
    <3>4. \A t \in cases[c].reports : Issue[t] = Issue[r]
      <4> SUFFICES ASSUME NEW t \in cases[c].reports PROVE Issue[t] = Issue[r]
        OBVIOUS
      <4>1. PICK R \in Proposed : /\ Detectable(R) /\ CandidateOf[R] = c
                                  /\ IssuesOf(R) = {Issue[r]}
        BY <3>3 DEF Subject
      <4>2. Subject(c, Issue[t])
        BY <2>1 DEF SoundRow
      <4>3. PICK T \in Proposed : /\ Detectable(T) /\ CandidateOf[T] = c
                                  /\ IssuesOf(T) = {Issue[t]}
        BY <4>2 DEF Subject
      <4>4. R = T
        BY <4>1, <4>3, CandidateAssumption
      <4> QED BY <4>1, <4>3, <4>4
    <3>5. IssuesOf(cases[c].reports) = {Issue[r]}
      BY <3>4 DEF IssuesOf
    <3>6. Issue[r] \in {Issue[t] : t \in Reports} \ {"OTHER"}
      BY <2>1, <3>3 DEF Subject
    <3> QED BY <3>5, <3>6
  <2> QED BY <2>1, <2>2 DEF SoundRow, OneValue
<1> QED BY <1>1, MonitorInductive, PTL

-----------------------------------------------------------------------------
(* A resumed operation.  Cutting what is left of a group gives the windows  *)
(* that are left: ranks move down by whole windows.                         *)

LEMMA Times == ASSUME NEW B \in Nat, NEW x \in Int, NEW y \in Int, x <= y
               PROVE  B * x <= B * y /\ B * x \in Int /\ B * y \in Int
OBVIOUS

LEMMA DivMeans ==
    ASSUME NEW B \in Nat \ {0}, NEW r \in Nat
    PROVE  /\ r \div B \in Nat
           /\ B * (r \div B) <= r /\ r < B * (r \div B) + B
           /\ \A q \in Int : B * q <= r /\ r < B * q + B => q = r \div B
           /\ \A n \in Int : n <= r \div B <=> B * n <= r
<1> DEFINE p == r \div B
<1>1. p \in Nat /\ B * p <= r /\ r < B * p + B
  OBVIOUS
<1> HIDE DEF p
<1>2. \A n \in Int : B * (n + 1) = B * n + B /\ B * n \in Int
  OBVIOUS
<1>3. ASSUME NEW n \in Int PROVE n <= p <=> B * n <= r
  <2>1. CASE n <= p
    <3>1. B * n <= B * p
      BY <1>1, <2>1, Times
    <3> QED BY <1>1, <1>2, <2>1, <3>1
  <2>2. CASE ~(n <= p)
    <3>1. p + 1 <= n
      BY <1>1, <2>2
    <3>2. B * (p + 1) <= B * n
      BY <1>1, <3>1, Times
    <3> QED BY <1>1, <1>2, <2>2, <3>2
  <2> QED BY <2>1, <2>2
<1>4. ASSUME NEW q \in Int, B * q <= r, r < B * q + B PROVE q = p
  <2>1. q <= p
    BY <1>3, <1>4
  <2>2. ~(q + 1 <= p)
    BY <1>2, <1>3, <1>4
  <2> QED BY <1>1, <2>1, <2>2
<1> QED BY <1>1, <1>3, <1>4 DEF p

LEMMA DivShift ==
    ASSUME NEW B \in Nat \ {0}, NEW r \in Nat, NEW n \in Nat, B * n <= r
    PROVE  /\ B * n \in Nat /\ r - B * n \in Nat
           /\ (r - B * n) \div B = (r \div B) - n
<1> DEFINE p == r \div B
           x == r - B * n
<1>1. p \in Nat /\ B * p <= r /\ r < B * p + B
  BY DivMeans
<1>2. B * n \in Nat /\ x \in Nat
  OBVIOUS
<1> HIDE DEF p
<1>3. B * (p - n) = B * p - B * n /\ p - n \in Int /\ B * p \in Int
  BY <1>1
<1>4. B * (p - n) <= x /\ x < B * (p - n) + B
  BY <1>1, <1>2, <1>3
<1> HIDE DEF x
<1>5. p - n = x \div B
  BY <1>2, <1>3, <1>4, DivMeans
<1> QED BY <1>2, <1>5 DEF p, x

Before(j, i) == j[1] < i[1] \/ (j[1] = i[1] /\ j[2] < i[2])
Distinct(items) == \A i, j \in items : i[1] = j[1] /\ i[2] = j[2] => i = j
Level(items, i) == Rank(items, i) \div ItemBudget
From(items, n) == {i \in items : n <= Level(items, i)}
Countable(items) == items \subseteq ItemTypes /\ IsFiniteSet(items) /\ Distinct(items)

LEMMA BeforeOrders ==
    ASSUME NEW items, Countable(items)
    PROVE  /\ \A i \in items : ~Before(i, i)
           /\ \A i, j \in items : i = j \/ Before(i, j) \/ Before(j, i)
           /\ \A i, j \in items : ~(Before(i, j) /\ Before(j, i))
           /\ \A i, j, k \in items : Before(i, j) /\ Before(j, k) => Before(i, k)
<1>1. \A i \in items : i[1] \in Nat /\ i[2] \in Nat
  <2> SUFFICES ASSUME NEW i \in items PROVE i[1] \in Nat /\ i[2] \in Nat
    OBVIOUS
  <2>1. i \in ItemTypes
    BY DEF Countable
  <2> QED BY <2>1 DEF ItemTypes
<1>2. \A i, j \in items : i[1] = j[1] /\ i[2] = j[2] => i = j
  BY DEF Countable, Distinct
<1> QED BY <1>1, <1>2 DEF Before

LEMMA RanksAre ==
    ASSUME NEW items, Countable(items)
    PROVE  /\ Cardinality(items) \in Nat
           /\ \A i \in items : Rank(items, i) \in 0 .. (Cardinality(items) - 1)
           /\ \A i, j \in items : Rank(items, i) < Rank(items, j) => Before(i, j)
           /\ \A i, j \in items : Before(i, j) => Rank(items, i) < Rank(items, j)
           /\ \A i, j \in items : Rank(items, i) = Rank(items, j) => i = j
           /\ \A r \in 0 .. (Cardinality(items) - 1) : \E i \in items : Rank(items, i) = r
<1> DEFINE below(i) == {j \in items : Before(j, i)}
           size == Cardinality(items)
<1>1. IsFiniteSet(items) /\ size \in Nat
  BY FS_CardinalityType DEF Countable
<1>2. \A i : Rank(items, i) = Cardinality(below(i))
  BY DEF Rank, Before
<1>3. ASSUME NEW i \in items PROVE IsFiniteSet(below(i)) /\ Cardinality(below(i)) \in 0 .. (size - 1)
  <2>1. below(i) \in SUBSET (items \ {i})
    BY BeforeOrders
  <2>2. IsFiniteSet(items \ {i}) /\ Cardinality(items \ {i}) = size - 1
    BY <1>1, FS_RemoveElement
  <2> HIDE DEF below, size
  <2>3. IsFiniteSet(below(i)) /\ Cardinality(below(i)) <= size - 1
    BY <2>1, <2>2, FS_Subset
  <2>4. Cardinality(below(i)) \in Nat
    BY <2>3, FS_CardinalityType
  <2> QED BY <1>1, <2>3, <2>4
<1>4. ASSUME NEW i \in items, NEW j \in items, Before(i, j)
      PROVE  Cardinality(below(i)) < Cardinality(below(j))
  <2>1. below(i) \in SUBSET below(j) /\ i \in below(j) /\ i \notin below(i)
    BY <1>4, BeforeOrders
  <2>2. below(i) # below(j)
    BY <2>1
  <2> HIDE DEF below
  <2>3. Cardinality(below(i)) <= Cardinality(below(j)) /\ Cardinality(below(i)) # Cardinality(below(j))
    BY <1>3, <2>1, <2>2, FS_Subset
  <2>4. Cardinality(below(i)) \in Nat /\ Cardinality(below(j)) \in Nat
    BY <1>3, FS_CardinalityType
  <2> QED BY <2>3, <2>4
<1> DEFINE place == [i \in items |-> Cardinality(below(i))]
<1>5. \A i \in items : place[i] \in 0 .. (size - 1)
  BY <1>3
<1>6. \A i, j \in items : Before(i, j) => place[i] < place[j]
  BY <1>4
<1>7. \A i \in items : place[i] = Rank(items, i)
  BY <1>2
<1> HIDE DEF place, below
<1>8. \A i, j \in items : (place[i] < place[j] => Before(i, j)) /\ (place[i] = place[j] => i = j)
  <2> SUFFICES ASSUME NEW i \in items, NEW j \in items
      PROVE  (place[i] < place[j] => Before(i, j)) /\ (place[i] = place[j] => i = j)
    OBVIOUS
  <2>1. place[i] \in Int /\ place[j] \in Int
    BY <1>1, <1>5
  <2>2. i = j \/ Before(i, j) \/ Before(j, i)
    BY BeforeOrders
  <2> QED BY <1>6, <2>1, <2>2
<1>9. \A r \in 0 .. (size - 1) : \E i \in items : place[i] = r
  <2>1. DOMAIN place = items /\ place \in [items -> 0 .. (size - 1)]
    BY <1>5 DEF place
  <2>2. place \in Injection(items, 0 .. (size - 1))
    BY <1>8, <2>1 DEF Injection, IsInjective
  <2>3. IsFiniteSet(0 .. (size - 1)) /\ Cardinality(0 .. (size - 1)) = size
    <3>1. 0 \in Int /\ size - 1 \in Int
      BY <1>1
    <3>2. Cardinality(0 .. (size - 1)) = IF 0 > size - 1 THEN 0 ELSE (size - 1) - 0 + 1
      BY <3>1, FS_Interval
    <3> QED BY <1>1, <3>1, <3>2, FS_Interval
  <2>4. place \in Surjection(items, 0 .. (size - 1))
    BY <2>2, <2>3, FS_Injection
  <2> QED BY <2>4 DEF Surjection
<1> QED BY <1>1, <1>5, <1>6, <1>7, <1>8, <1>9

LEMMA FromSplits ==
    ASSUME NEW items, Countable(items), NEW n \in Nat
    PROVE  /\ Countable(From(items, n))
           /\ From(items, n) \subseteq items
           /\ \A i \in items : Level(items, i) \in Nat /\ Rank(items, i) \in Nat
           /\ \A i \in items : i \in From(items, n) <=> ItemBudget * n <= Rank(items, i)
           /\ IsFiniteSet(items \ From(items, n))
<1>1. \A i \in items : Rank(items, i) \in Nat
  BY RanksAre
<1>2. From(items, n) \in SUBSET items
  BY DEF From
<1>3. IsFiniteSet(From(items, n)) /\ IsFiniteSet(items \ From(items, n))
  BY <1>2, FS_Subset, FS_Difference DEF Countable
<1>4. ASSUME NEW i \in items
      PROVE  Level(items, i) \in Nat /\ (i \in From(items, n) <=> ItemBudget * n <= Rank(items, i))
  <2>1. n \in Int
    OBVIOUS
  <2> QED BY <1>1, <2>1, DivMeans, NumberAssumption DEF From, Level
<1> QED BY <1>1, <1>2, <1>3, <1>4 DEF Countable, Distinct

(* As long as something is left, whole windows went before it. *)
LEMMA FromSize ==
    ASSUME NEW items, Countable(items), NEW n \in Nat, ItemBudget * n < Cardinality(items)
    PROVE  /\ From(items, n) # {}
           /\ Cardinality(items \ From(items, n)) = ItemBudget * n
<1> DEFINE below(i) == {j \in items : Before(j, i)}
<1>1. ItemBudget * n \in Nat
  BY NumberAssumption
<1>2. Cardinality(items) \in Nat /\ ItemBudget * n \in 0 .. (Cardinality(items) - 1)
  BY <1>1, RanksAre
<1>3. PICK p \in items : Rank(items, p) = ItemBudget * n
  BY <1>2, RanksAre
<1>4. p \in From(items, n)
  <2>1. p \in From(items, n) <=> ItemBudget * n <= Rank(items, p)
    BY FromSplits
  <2>2. ItemBudget * n <= Rank(items, p)
    BY <1>1, <1>3
  <2> QED BY <2>1, <2>2
<1>5. items \ From(items, n) = below(p)
  <2> SUFFICES ASSUME NEW j \in items PROVE j \notin From(items, n) <=> Before(j, p)
    OBVIOUS
  <2>1. Rank(items, j) \in Nat /\ (j \in From(items, n) <=> ItemBudget * n <= Rank(items, j))
    BY FromSplits
  <2>2. Before(j, p) <=> Rank(items, j) < Rank(items, p)
    BY RanksAre
  <2> QED BY <1>1, <1>3, <2>1, <2>2
<1>6. Rank(items, p) = Cardinality(below(p))
  BY DEF Rank, Before
<1> QED BY <1>3, <1>4, <1>5, <1>6

LEMMA FromLevels ==
    ASSUME NEW items, Countable(items), NEW n \in Nat, NEW i \in From(items, n)
    PROVE  Level(From(items, n), i) = Level(items, i) - n
<1> DEFINE rest == From(items, n)
           gone == items \ rest
           below == {j \in rest : Before(j, i)}
<1>1. /\ i \in items /\ rest \subseteq items /\ IsFiniteSet(gone) /\ IsFiniteSet(rest)
      /\ Rank(items, i) \in 0 .. (Cardinality(items) - 1) /\ Cardinality(items) \in Nat
      /\ ItemBudget * n <= Rank(items, i) /\ ItemBudget * n \in Nat
  BY FromSplits, RanksAre, NumberAssumption DEF Countable
<1>2. Cardinality(gone) = ItemBudget * n
  BY <1>1, FromSize
<1>3. {j \in items : Before(j, i)} = below \union gone
  <2> SUFFICES ASSUME NEW j \in gone PROVE Before(j, i)
    BY <1>1
  <2>1. Rank(items, j) \in Nat /\ ~(ItemBudget * n <= Rank(items, j))
    BY FromSplits
  <2>2. Rank(items, j) < Rank(items, i)
    BY <1>1, <2>1
  <2> QED BY <1>1, <2>2, RanksAre
<1>4. IsFiniteSet(below) /\ below \intersect gone = {}
  <2>1. below \in SUBSET rest
    OBVIOUS
  <2> QED BY <1>1, <2>1, FS_Subset
<1>5. Cardinality(below) \in Nat /\ Cardinality(below \intersect gone) = 0
  BY <1>4, FS_CardinalityType, FS_EmptySet
<1>6. Cardinality(below \union gone) = Cardinality(below) + Cardinality(gone) - 0
  BY <1>1, <1>4, <1>5, FS_Union
<1>7. Rank(items, i) = Cardinality(below \union gone) /\ Rank(rest, i) = Cardinality(below)
  BY <1>3 DEF Rank, Before
<1> HIDE DEF rest, gone, below
<1>8. Rank(rest, i) = Rank(items, i) - ItemBudget * n
  BY <1>1, <1>2, <1>5, <1>6, <1>7
<1>9. (Rank(items, i) - ItemBudget * n) \div ItemBudget = (Rank(items, i) \div ItemBudget) - n
  <2>1. Rank(items, i) \in Nat
    BY <1>1
  <2> QED BY <1>1, <2>1, DivShift, NumberAssumption
<1> QED BY <1>8, <1>9 DEF Level, rest

LEMMA FromCounts ==
    ASSUME NEW items, Countable(items), NEW n \in Nat, n <= StepCount(items)
    PROVE  /\ StepCount(items) \in Nat
           /\ StepCount(From(items, n)) = StepCount(items) - n
<1> DEFINE N == Cardinality(items)
           R == Cardinality(From(items, n))
           B == ItemBudget
<1>1. N \in Nat /\ B \in Nat \ {0} /\ B * n \in Nat
  BY RanksAre, NumberAssumption
<1>2. Countable(From(items, n)) /\ R \in Nat /\ IsFiniteSet(items) /\ From(items, n) \in SUBSET items
  BY FromSplits, RanksAre DEF Countable
<1>3. StepCount(items) = (N + B - 1) \div B /\ StepCount(From(items, n)) = (R + B - 1) \div B
  BY DEF StepCount
<1> HIDE DEF N, R, B
<1>4. N + B - 1 \in Nat /\ R + B - 1 \in Nat /\ n \in Int
  BY <1>1, <1>2
<1>5. B * n <= N + B - 1 /\ StepCount(items) \in Nat
  BY <1>1, <1>3, <1>4, DivMeans
<1>6. (N + B - 1 - B * n) \div B = StepCount(items) - n
  <2>1. PICK total \in Nat : total = N + B - 1
    BY <1>4
  <2>2. B * n <= total
    BY <1>5, <2>1
  <2>3. (total - B * n) \div B = (total \div B) - n
    BY <1>1, <2>2, DivShift
  <2>4. StepCount(items) = total \div B
    BY <1>3, <2>1
  <2>5. N + B - 1 - B * n = total - B * n
    BY <1>1, <2>1
  <2> QED BY <2>3, <2>4, <2>5
<1>7. CASE B * n < N
  <2>1. Cardinality(items \ From(items, n)) = B * n
    BY <1>7, FromSize DEF N, B
  <2>2. Cardinality(items \ From(items, n)) = N - R
    <3>1. items \intersect From(items, n) = From(items, n)
      BY <1>2
    <3> QED BY <1>2, <3>1, FS_Difference DEF N, R
  <2>3. R + B - 1 = N + B - 1 - B * n
    BY <1>1, <1>2, <2>1, <2>2
  <2> QED BY <1>3, <1>5, <1>6, <2>3
<1>8. CASE ~(B * n < N)
  <2>1. From(items, n) = {}
    <3> SUFFICES ASSUME NEW i \in From(items, n) PROVE FALSE
      OBVIOUS
    <3>1. i \in items /\ Rank(items, i) \in 0 .. (N - 1) /\ B * n <= Rank(items, i)
      BY FromSplits, RanksAre DEF N, B
    <3> QED BY <1>1, <1>8, <3>1
  <2>2. R = 0
    BY <2>1, FS_EmptySet DEF R
  <2>3. (R + B - 1) \div B = 0
    <3>1. B * 0 = 0 /\ 0 \in Int
      BY <1>1
    <3> QED BY <1>1, <1>4, <2>2, <3>1, DivMeans
  <2>4. ~(n + 1 <= StepCount(items))
    <3>1. B * (n + 1) = B * n + B /\ n + 1 \in Int
      BY <1>1
    <3> QED BY <1>1, <1>3, <1>4, <1>8, <3>1, DivMeans
  <2> QED BY <1>3, <1>5, <2>3, <2>4
<1> QED BY <1>7, <1>8

LEMMA FromWindows ==
    ASSUME NEW items, Countable(items), NEW n \in Nat, NEW k \in Nat
    PROVE  /\ Window(From(items, n), k) = Window(items, n + k)
           /\ From(items, 0) = items
           /\ items \ From(items, n + 1) = (items \ From(items, n)) \union Window(items, n)
           /\ Window(items, n) \subseteq From(items, n)
           /\ From(items, n + 1) \subseteq From(items, n)
           /\ From(items, n + 1) \intersect Window(items, n) = {}
<1>1. \A i \in items : Level(items, i) \in Nat
  BY FromSplits
<1>2. \A j \in Nat : \A i : i \in Window(items, j) <=> i \in items /\ Level(items, i) = j
  BY DEF Window, Level
<1>3. \A i : i \in Window(From(items, n), k) <=>
               i \in From(items, n) /\ Level(From(items, n), i) = k
  BY DEF Window, Level
<1>4. \A i \in From(items, n) : Level(From(items, n), i) = Level(items, i) - n
  BY FromLevels
<1>5. \A j \in Nat : \A i : i \in From(items, j) <=> i \in items /\ j <= Level(items, i)
  BY DEF From
<1>6. Window(From(items, n), k) = Window(items, n + k)
  <2>1. ASSUME NEW i \in Window(From(items, n), k) PROVE i \in Window(items, n + k)
    BY <1>1, <1>2, <1>3, <1>4, <1>5, <2>1
  <2>2. ASSUME NEW i \in Window(items, n + k) PROVE i \in Window(From(items, n), k)
    BY <1>1, <1>2, <1>3, <1>4, <1>5, <2>2
  <2> QED BY <2>1, <2>2
<1>7. From(items, 0) = items
  BY <1>1, <1>5
<1>8. items \ From(items, n + 1) = (items \ From(items, n)) \union Window(items, n)
  BY <1>1, <1>2, <1>5
<1>9. Window(items, n) \subseteq From(items, n) /\ From(items, n + 1) \subseteq From(items, n)
      /\ From(items, n + 1) \intersect Window(items, n) = {}
  BY <1>1, <1>2, <1>5
<1> QED BY <1>6, <1>7, <1>8, <1>9

-----------------------------------------------------------------------------
(* What a frozen plan was cut from, and how far the store has followed it.  *)

(* A step of a group as it is frozen. *)
Laid(g, row, items, k) ==
    [case     |-> CaseOf(g),
     new      |-> g.target = 0,
     expected |-> row.version + k,
     first    |-> k = 0,
     items    |-> {<<i[1], i[2], IF i[1] = 2 THEN i[3] ELSE 0>> : i \in Window(items, k)}]

Steps(g, row, items, n) == {Laid(g, row, items, k) : k \in 0 .. (n - 1)}

Of(steps, c) == {t \in steps : t.case = c}

(* The row once n steps are in it. *)
RowAfter(row, items, n) ==
    [version |-> row.version + n,
     state   |-> IF n = 0 THEN row.state ELSE StateOf(row),
     reports |-> row.reports \union ReportsIn(items \ From(items, n)),
     facts   |-> row.facts \union FactsIn(items \ From(items, n))]

(* The group passed the gates over the row, and these were its items. *)
Cut(o, g, row, items) ==
    /\ row \in Rows /\ SoundRow(CaseOf(g), row) /\ StateOf(row) \in Linkable
    /\ Countable(items)
    /\ \A i \in items : i[1] = 1 => i[3] = 0
    /\ ReportsIn(items) = g.reports \ row.reports
    /\ MessagesIn(items) \subseteq MessagesOf(g)
    /\ FactsIn(items) = NewFacts(g, row)
    /\ ~AmbiguousOrDrifted(g, row) /\ ~OverCapacity(g, row)
    /\ g.target # 0 => row.version # 0 /\ row.version = input[o][g.target]

Shows(m, g, state) ==
    /\ signals[m].case = CaseOf(g)
    /\ signals[m].state = state
    /\ signals[m].related = Cardinality(MessagesOf(g))

(* As long as nobody else moved the case, it is the row with n steps in it, *)
(* and the messages that are not still to be shown show it.                 *)
Follows(g, row, items, n) ==
    /\ row.version + n <= cases[CaseOf(g)].version
    /\ row.version + n = cases[CaseOf(g)].version =>
          /\ cases[CaseOf(g)] = RowAfter(row, items, n)
          /\ \A m \in MessagesOf(g) \ MessagesIn(From(items, n)) : Shows(m, g, StateOf(row))
    /\ \A i \in From(items, n) :
          i[1] = 2 => /\ i[3] <= signals[i[2]].version
                      /\ i[3] = signals[i[2]].version =>
                            /\ signals[i[2]].case \in {0, CaseOf(g)}
                            /\ ~Shows(i[2], g, StateOf(row))

Traced(o, g, steps, done) ==
    \E row, items : \E n \in Nat :
        /\ Cut(o, g, row, items)
        /\ n <= StepCount(items)
        /\ Of(steps, CaseOf(g)) = Steps(g, row, items, StepCount(items))
        /\ Of(done, CaseOf(g)) = Steps(g, row, items, n)
        /\ Follows(g, row, items, n)

(* Every step is of a group of the answer. *)
Attributed(a, steps) == \A t \in steps : \E g \in Addressed(a) : t.case = CaseOf(g)

Sourced(a, steps) ==
    \A t \in steps : \E g \in Addressed(a) :
        /\ t.case = CaseOf(g)
        /\ t.related = Cardinality(MessagesOf(g))
        /\ FactsIn(t.items) \subseteq g.facts

Described(steps) == {Describe(s) : s \in steps}

(* What is frozen has been followed as far as it is committed; what is not  *)
(* frozen yet is traced too; and each step in memory is of one group.       *)
FrozenTrace(o) ==
    plan[o].frozen /\ ~Rivals(plan[o].answer) =>
        /\ Attributed(plan[o].answer, plan[o].steps)
        /\ \A g \in Addressed(plan[o].answer) : Traced(o, g, plan[o].steps, Committed(o))

PlannedTrace(o) ==
    pc[o] = "freeze" /\ ~Rivals(answer[o]) =>
        /\ Attributed(answer[o], todo[o])
        /\ \A g \in Addressed(answer[o]) : Traced(o, g, Described(todo[o]), {})

TraceInv(o) ==
    /\ FrozenTrace(o) /\ PlannedTrace(o)
    /\ pc[o] \in {"freeze", "prove", "commit"} => Sourced(answer[o], todo[o])

(* Parts of a set of items. *)

LEMMA ItemShape ==
    ASSUME NEW i \in ItemTypes
    PROVE  i = <<i[1], i[2], i[3]>> /\ i[1] \in {1, 2, 3} /\ i[2] \in Nat /\ i[3] \in Nat
BY DEF ItemTypes

(* The facts whose slot none of the others settles. *)
Apart(facts, others) == {f \in facts : \A h \in others : f[1] # h[1]}

LEMMA PartsAre ==
    ASSUME NEW items, Countable(items), NEW X, X \subseteq items
    PROVE  /\ ReportsIn(items \ X) = ReportsIn(items) \ ReportsIn(X)
           /\ MessagesIn(items \ X) = MessagesIn(items) \ MessagesIn(X)
           /\ FactsIn(items \ X) = Apart(FactsIn(items), FactsIn(X))
<1>1. \A i, j \in items : i[1] = j[1] /\ i[2] = j[2] => i = j
  BY DEF Countable, Distinct
<1>2. ReportsIn(items \ X) = ReportsIn(items) \ ReportsIn(X)
  BY <1>1 DEF ReportsIn
<1>3. MessagesIn(items \ X) = MessagesIn(items) \ MessagesIn(X)
  BY <1>1 DEF MessagesIn
<1>4. ASSUME NEW f \in FactsIn(items \ X)
      PROVE  f \in FactsIn(items) /\ \A h \in FactsIn(X) : f[1] # h[1]
  <2>1. PICK i \in items \ X : i[1] = 3 /\ f = <<i[2], i[3]>>
    BY DEF FactsIn
  <2>2. ASSUME NEW h \in FactsIn(X), f[1] = h[1] PROVE FALSE
    <3>1. PICK j \in X : j[1] = 3 /\ h = <<j[2], j[3]>>
      BY DEF FactsIn
    <3>2. i[2] = j[2]
      BY <2>1, <2>2, <3>1
    <3> QED BY <1>1, <2>1, <3>1, <3>2
  <2>3. f \in FactsIn(items)
    BY <2>1 DEF FactsIn
  <2> QED BY <2>2, <2>3
<1>5. ASSUME NEW f \in FactsIn(items), \A h \in FactsIn(X) : f[1] # h[1]
      PROVE  f \in FactsIn(items \ X)
  <2>1. PICK i \in items : i[1] = 3 /\ f = <<i[2], i[3]>>
    BY DEF FactsIn
  <2>2. i \notin X
    <3> SUFFICES ASSUME i \in X PROVE FALSE
      OBVIOUS
    <3>1. f \in FactsIn(X)
      BY <2>1 DEF FactsIn
    <3> QED BY <1>5, <3>1
  <2> QED BY <2>1, <2>2 DEF FactsIn
<1> QED BY <1>2, <1>3, <1>4, <1>5 DEF Apart

LEMMA PartsJoin ==
    ASSUME NEW X, NEW Y
    PROVE  /\ ReportsIn(X \union Y) = ReportsIn(X) \union ReportsIn(Y)
           /\ MessagesIn(X \union Y) = MessagesIn(X) \union MessagesIn(Y)
           /\ FactsIn(X \union Y) = FactsIn(X) \union FactsIn(Y)
BY DEF ReportsIn, MessagesIn, FactsIn

(* Items are told by their reports, messages and facts. *)
LEMMA Rebuilt ==
    ASSUME NEW items, items \subseteq ItemTypes, NEW R, NEW U, NEW F,
           \A i \in items : i[1] = 1 => i[3] = 0,
           \A i \in items : i[1] = 2 => i[3] = signals[i[2]].version,
           R = ReportsIn(items), U = MessagesIn(items), F = FactsIn(items)
    PROVE  items = ({<<1, r, 0>> : r \in R} \union {<<2, m, signals[m].version>> : m \in U})
                       \union {<<3, f[1], f[2]>> : f \in F}
<1> DEFINE ofR == {<<1, r, 0>> : r \in R}
           ofU == {<<2, m, signals[m].version>> : m \in U}
           ofF == {<<3, f[1], f[2]>> : f \in F}
<1>1. \A i \in items : i = <<i[1], i[2], i[3]>> /\ i[1] \in {1, 2, 3}
  BY ItemShape
<1>2. ASSUME NEW i \in items PROVE i \in (ofR \union ofU) \union ofF
  <2>1. CASE i[1] = 1
    <3>1. i[2] \in R /\ i = <<1, i[2], 0>>
      BY <1>1, <2>1 DEF ReportsIn
    <3> QED BY <3>1
  <2>2. CASE i[1] = 2
    <3>1. i[2] \in U /\ i = <<2, i[2], signals[i[2]].version>>
      BY <1>1, <2>2 DEF MessagesIn
    <3> QED BY <3>1
  <2>3. CASE i[1] = 3
    <3>1. <<i[2], i[3]>> \in F /\ i = <<3, i[2], i[3]>>
      BY <1>1, <2>3 DEF FactsIn
    <3>2. <<i[2], i[3]>>[1] = i[2] /\ <<i[2], i[3]>>[2] = i[3]
      OBVIOUS
    <3> QED BY <3>1, <3>2
  <2> QED BY <1>1, <2>1, <2>2, <2>3
<1>3. ASSUME NEW r \in R PROVE <<1, r, 0>> \in items
  <2>1. PICK i \in items : i[1] = 1 /\ i[2] = r
    BY DEF ReportsIn
  <2>2. i = <<1, r, 0>>
    BY <1>1, <2>1
  <2> QED BY <2>1, <2>2
<1>4. ASSUME NEW m \in U PROVE <<2, m, signals[m].version>> \in items
  <2>1. PICK i \in items : i[1] = 2 /\ i[2] = m
    BY DEF MessagesIn
  <2>2. i = <<2, m, signals[m].version>>
    BY <1>1, <2>1
  <2> QED BY <2>1, <2>2
<1>5. ASSUME NEW f \in F PROVE <<3, f[1], f[2]>> \in items
  <2>1. PICK i \in items : i[1] = 3 /\ f = <<i[2], i[3]>>
    BY DEF FactsIn
  <2>2. i = <<3, f[1], f[2]>>
    BY <1>1, <2>1
  <2> QED BY <2>1, <2>2
<1> QED BY <1>2, <1>3, <1>4, <1>5

(* What is derived from a case that only this operation moved is what was   *)
(* left of the original items, and the gates let it pass again.             *)

LEMMA RowAfterFacts ==
    ASSUME NEW o \in Ops, NEW g, NEW row, NEW items, Cut(o, g, row, items), NEW n \in Nat
    PROVE  LET now == RowAfter(row, items, n) IN
           /\ row.version \in Nat /\ now.version = row.version + n
           /\ StateOf(now) = StateOf(row)
           /\ now.version > 0 => now.state \in Linkable
           /\ g.reports \ now.reports = ReportsIn(From(items, n))
           /\ NewFacts(g, now) = FactsIn(From(items, n))
           /\ now.facts \union NewFacts(g, now) = row.facts \union NewFacts(g, row)
           /\ now.facts \subseteq g.facts \union row.facts
<1> DEFINE now == RowAfter(row, items, n)
           left == From(items, n)
           gone == items \ left
<1>1. /\ row.version \in Nat /\ StateOf(row) \in Linkable /\ Countable(items)
      /\ ReportsIn(items) = g.reports \ row.reports /\ FactsIn(items) = NewFacts(g, row)
  BY DEF Cut, Rows
<1>2. /\ now.version = row.version + n
      /\ now.state = (IF n = 0 THEN row.state ELSE StateOf(row))
      /\ now.reports = row.reports \union ReportsIn(gone)
      /\ now.facts = row.facts \union FactsIn(gone)
  BY DEF RowAfter
<1>3. left \subseteq items /\ gone \subseteq items /\ items \ gone = left /\ items = gone \union left
  BY <1>1, FromSplits
<1> HIDE DEF now, left, gone
<1>4. ReportsIn(left) = ReportsIn(items) \ ReportsIn(gone)
      /\ FactsIn(left) = Apart(FactsIn(items), FactsIn(gone))
  BY <1>1, <1>3, PartsAre
<1>5. FactsIn(items) = FactsIn(gone) \union FactsIn(left)
  BY <1>3, PartsJoin
<1>6. StateOf(now) = StateOf(row) /\ (now.version > 0 => now.state \in Linkable)
  <2>1. CASE n = 0
    BY <1>1, <1>2, <2>1 DEF StateOf
  <2>2. CASE n # 0
    <3>1. now.version # 0 /\ now.state = StateOf(row)
      BY <1>1, <1>2, <2>2
    <3> QED BY <1>1, <3>1 DEF StateOf
  <2> QED BY <2>1, <2>2
<1>7. g.reports \ now.reports = ReportsIn(left)
  BY <1>1, <1>2, <1>4
<1>8. NewFacts(g, now) = FactsIn(left)
  <2>1. \A f : f \in NewFacts(g, now) <=> f \in NewFacts(g, row) /\ \A h \in FactsIn(gone) : f[1] # h[1]
    BY <1>2 DEF NewFacts
  <2> QED BY <1>1, <1>4, <2>1 DEF Apart
<1>9. now.facts \union NewFacts(g, now) = row.facts \union NewFacts(g, row)
  BY <1>1, <1>2, <1>5, <1>8
<1>10. now.facts \subseteq g.facts \union row.facts
  BY <1>1, <1>2, <1>5 DEF NewFacts
<1> QED BY <1>1, <1>2, <1>6, <1>7, <1>8, <1>9, <1>10 DEF now, left

LEMMA Resumed ==
    ASSUME Typed, NEW o \in Ops, NEW a, Validated(a), NEW g \in Addressed(a), NEW row, NEW items,
           Cut(o, g, row, items), NEW n \in Nat, Follows(g, row, items, n),
           cases[CaseOf(g)].version = row.version + n,
           \A i \in From(items, n) : i[1] = 2 => signals[i[2]].version = i[3]
    PROVE  LET now == cases[CaseOf(g)] IN
           /\ Items(g, now) = From(items, n)
           /\ ~AmbiguousOrDrifted(g, now) /\ ~AlreadyLinked(g) /\ ~OverCapacity(g, now)
           /\ now.version > 0 => now.state \in Linkable
<1> DEFINE now == cases[CaseOf(g)]
           left == From(items, n)
<1>1. now = RowAfter(row, items, n)
  BY DEF Follows
<1>2. /\ StateOf(now) = StateOf(row)
      /\ now.version > 0 => now.state \in Linkable
      /\ g.reports \ now.reports = ReportsIn(left)
      /\ NewFacts(g, now) = FactsIn(left)
      /\ now.facts \union NewFacts(g, now) = row.facts \union NewFacts(g, row)
      /\ now.facts \subseteq g.facts \union row.facts
  BY <1>1, RowAfterFacts
<1>3. /\ \A m \in MessagesOf(g) \ MessagesIn(left) : Shows(m, g, StateOf(row))
      /\ \A i \in left : i[1] = 2 => /\ signals[i[2]].version = i[3]
                                     /\ signals[i[2]].case \in {0, CaseOf(g)}
                                     /\ ~Shows(i[2], g, StateOf(row))
  BY DEF Follows
<1>4. left \subseteq items /\ left \subseteq ItemTypes
  BY FromSplits DEF Cut, Countable
<1>5. MessagesIn(left) \subseteq MessagesOf(g) /\ CaseOf(g) # 0
  BY <1>4, CaseOfAddressed DEF Cut, MessagesIn
<1> HIDE DEF now, left
<1>6. \A m \in MessagesIn(left) : signals[m].case \in {0, CaseOf(g)} /\ ~Shows(m, g, StateOf(row))
  BY <1>3 DEF MessagesIn
<1>7. Undisplayed(g, now) = MessagesIn(left)
  <2>1. ASSUME NEW m \in MessagesOf(g), m \in MessagesIn(left) PROVE m \in Undisplayed(g, now)
    <3>1. signals[m].case \in {0, CaseOf(g)} /\ ~Shows(m, g, StateOf(row))
      BY <1>6, <2>1
    <3> QED BY <1>2, <3>1 DEF Undisplayed, Shows
  <2>2. ASSUME NEW m \in MessagesOf(g), m \notin MessagesIn(left) PROVE m \notin Undisplayed(g, now)
    <3>1. Shows(m, g, StateOf(row))
      BY <1>3, <2>2
    <3> QED BY <1>2, <1>5, <3>1 DEF Undisplayed, Shows
  <2>3. Undisplayed(g, now) \subseteq MessagesOf(g)
    BY DEF Undisplayed
  <2> QED BY <1>5, <2>1, <2>2, <2>3
<1>8. Items(g, now) = left
  <2>1. \A i \in left : (i[1] = 1 => i[3] = 0) /\ (i[1] = 2 => i[3] = signals[i[2]].version)
    BY <1>3, <1>4 DEF Cut
  <2> QED BY <1>2, <1>4, <1>7, <2>1, Rebuilt DEF Items
<1>9. ~AmbiguousOrDrifted(g, now)
  <2>1. ~AmbiguousOrDrifted(g, row)
    BY DEF Cut
  <2> QED BY <1>2, <2>1 DEF AmbiguousOrDrifted
<1>10. ~AlreadyLinked(g)
  BY <1>3, <1>6 DEF AlreadyLinked, Shows
<1>11. ~OverCapacity(g, now)
  BY <1>2 DEF Cut, OverCapacity
<1> QED BY <1>2, <1>8, <1>9, <1>10, <1>11 DEF now, left

LEMMA LaidContent ==
    ASSUME NEW g, NEW row, NEW items, NEW k, NEW s,
           s.case = CaseOf(g), s.new = (g.target = 0), s.expected = row.version + k,
           s.items = Window(items, k)
    PROVE  /\ Content(s) = Content(Laid(g, row, items, k))
           /\ s.first = (k = 0) => Describe(s) = Laid(g, row, items, k)
<1> DEFINE reduced(W) == {<<i[1], i[2], IF i[1] = 2 THEN i[3] ELSE 0>> : i \in W}
           W == Window(items, k)
           t == Laid(g, row, items, k)
<1>1. t.case = s.case /\ t.new = s.new /\ t.expected = s.expected /\ t.items = reduced(W)
      /\ t.first = (k = 0)
      /\ t = [case |-> t.case, new |-> t.new, expected |-> t.expected, first |-> t.first, items |-> t.items]
  BY DEF Laid
<1>2. \A x : /\ Describe(x).items = reduced(x.items)
             /\ Content(x) = <<x.case, x.new, x.expected, reduced(x.items)>>
             /\ Describe(x) = [case |-> x.case, new |-> x.new, expected |-> x.expected,
                               first |-> x.first, items |-> reduced(x.items)]
  BY DEF Describe, Content
<1>3. reduced(reduced(W)) = reduced(W)
  <2>1. ASSUME NEW i \in W
        PROVE  LET j == <<i[1], i[2], IF i[1] = 2 THEN i[3] ELSE 0>>
               IN <<j[1], j[2], IF j[1] = 2 THEN j[3] ELSE 0>> = j
    OBVIOUS
  <2> QED BY <2>1
<1> HIDE DEF reduced, W, t
<1>4. s.items = W
  BY DEF W
<1>5. Content(s) = Content(t)
  BY <1>1, <1>2, <1>3, <1>4
<1>6. s.first = (k = 0) => Describe(s) = t
  BY <1>1, <1>2, <1>4
<1> QED BY <1>5, <1>6 DEF t

LEMMA LaidTells ==
    ASSUME NEW g, NEW row, NEW items, row.version \in Nat
    PROVE  /\ \A k \in Nat : /\ Laid(g, row, items, k).expected = row.version + k
                             /\ Laid(g, row, items, k).case = CaseOf(g)
                             /\ Laid(g, row, items, k).new = (g.target = 0)
           /\ \A k, j \in Nat : Laid(g, row, items, k) = Laid(g, row, items, j) => k = j
<1>1. \A k \in Nat : /\ Laid(g, row, items, k).expected = row.version + k
                     /\ Laid(g, row, items, k).case = CaseOf(g)
                     /\ Laid(g, row, items, k).new = (g.target = 0)
  BY DEF Laid
<1>2. \A k, j \in Nat : Laid(g, row, items, k) = Laid(g, row, items, j) => k = j
  <2> SUFFICES ASSUME NEW k \in Nat, NEW j \in Nat, Laid(g, row, items, k) = Laid(g, row, items, j)
      PROVE  k = j
    OBVIOUS
  <2>1. row.version + k = row.version + j
    BY <1>1
  <2> QED BY <2>1
<1> QED BY <1>1, <1>2

LEMMA StepsAre ==
    ASSUME NEW g, NEW row, NEW items, NEW n \in Nat, row.version \in Nat
    PROVE  /\ \A t : t \in Steps(g, row, items, n) <=>
                       \E k \in Nat : k < n /\ t = Laid(g, row, items, k)
           /\ IsFiniteSet(Steps(g, row, items, n))
           /\ Cardinality(Steps(g, row, items, n)) = n
<1>1. \A t : t \in Steps(g, row, items, n) <=> \E k \in Nat : k < n /\ t = Laid(g, row, items, k)
  <2>1. \A k : k \in 0 .. (n - 1) <=> k \in Nat /\ k < n
    OBVIOUS
  <2> QED BY <2>1 DEF Steps
<1>2. IsFiniteSet(Steps(g, row, items, n)) /\ Cardinality(Steps(g, row, items, n)) = n
  <2> DEFINE S == Steps(g, row, items, n)
             f == [k \in 0 .. (n - 1) |-> Laid(g, row, items, k)]
  <2>1. IsFiniteSet(0 .. (n - 1)) /\ Cardinality(0 .. (n - 1)) = n
    <3>1. 0 \in Int /\ n - 1 \in Int
      OBVIOUS
    <3>2. Cardinality(0 .. (n - 1)) = IF 0 > n - 1 THEN 0 ELSE (n - 1) - 0 + 1
      BY <3>1, FS_Interval
    <3> QED BY <3>1, <3>2, FS_Interval
  <2>2. f \in [0 .. (n - 1) -> S]
    BY DEF Steps
  <2>3. \A t \in S : \E k \in 0 .. (n - 1) : f[k] = t
    BY DEF Steps
  <2>4. \A k, j \in 0 .. (n - 1) : f[k] = f[j] => k = j
    BY LaidTells
  <2> HIDE DEF f, S
  <2>5. f \in Bijection(0 .. (n - 1), S)
    BY <2>2, <2>3, <2>4 DEF Bijection, Injection, Surjection, IsInjective
  <2>6. ExistsBijection(0 .. (n - 1), S)
    BY <2>5 DEF ExistsBijection
  <2>7. IsFiniteSet(S) /\ Cardinality(S) = Cardinality(0 .. (n - 1))
    BY <2>1, <2>6, FS_Bijection
  <2> QED BY <2>1, <2>7 DEF S
<1> QED BY <1>1, <1>2

(* One group of a resumed operation: the gates pass, and what is cut is     *)
(* what of the frozen plan is left for its case.                            *)
LEMMA GroupResumes ==
    ASSUME IInv, NEW o \in Ops, TraceInv(o), pc[o] = "derive", plan[o].frozen, Undisturbed(o),
           NEW g \in Addressed(answer[o])
    PROVE  LET now == seen[o][CaseOf(g)] IN
           /\ ~Ineligible(o, g, now) /\ ~AmbiguousOrDrifted(g, now)
           /\ ~AlreadyLinked(g) /\ ~OverCapacity(g, now)
           /\ Contents(CutSteps(g, now)) = Contents(Of(Remaining(o), CaseOf(g)))
<1> DEFINE c == CaseOf(g)
           now == cases[c]
<1>1. /\ Typed /\ WorkInv(o) /\ SoundCases
      /\ Validated(answer[o]) /\ answer[o] = plan[o].answer
  BY Typing DEF IInv, WorkInv, Reading
<1>2. ~Rivals(plan[o].answer) /\ g \in Addressed(plan[o].answer)
  BY <1>1 DEF Undisturbed
<1>3. PICK row, items : \E n \in Nat :
          /\ Cut(o, g, row, items)
          /\ n <= StepCount(items)
          /\ Of(plan[o].steps, CaseOf(g)) = Steps(g, row, items, StepCount(items))
          /\ Of(Committed(o), CaseOf(g)) = Steps(g, row, items, n)
          /\ Follows(g, row, items, n)
  BY <1>2 DEF TraceInv, FrozenTrace, Traced
<1>4. PICK n \in Nat :
          /\ Cut(o, g, row, items)
          /\ n <= StepCount(items)
          /\ Of(plan[o].steps, CaseOf(g)) = Steps(g, row, items, StepCount(items))
          /\ Of(Committed(o), CaseOf(g)) = Steps(g, row, items, n)
          /\ Follows(g, row, items, n)
  BY <1>3
<1>5. /\ row.version \in Nat /\ Countable(items) /\ StepCount(items) \in Nat
      /\ \A i \in items : Level(items, i) \in 0 .. (StepCount(items) - 1)
  <2>1. row.version \in Nat /\ Countable(items)
    BY <1>4 DEF Cut, Rows
  <2>2. items \subseteq ItemTypes /\ IsFiniteSet(items)
    BY <2>1 DEF Countable
  <2> QED BY <2>1, <2>2, WindowsAre DEF Level
<1>6. /\ \A t : t \in Steps(g, row, items, StepCount(items)) <=>
                    \E k \in Nat : k < StepCount(items) /\ t = Laid(g, row, items, k)
      /\ \A t : t \in Steps(g, row, items, n) <=> \E k \in Nat : k < n /\ t = Laid(g, row, items, k)
      /\ \A k \in Nat : Laid(g, row, items, k).expected = row.version + k
      /\ \A k, j \in Nat : Laid(g, row, items, k) = Laid(g, row, items, j) => k = j
      /\ Cardinality(Steps(g, row, items, n)) = n
  <2>1. \A t : t \in Steps(g, row, items, StepCount(items)) <=>
                   \E k \in Nat : k < StepCount(items) /\ t = Laid(g, row, items, k)
    BY <1>5, StepsAre
  <2>2. /\ \A t : t \in Steps(g, row, items, n) <=> \E k \in Nat : k < n /\ t = Laid(g, row, items, k)
        /\ Cardinality(Steps(g, row, items, n)) = n
    BY <1>5, StepsAre
  <2>3. /\ \A k \in Nat : Laid(g, row, items, k).expected = row.version + k
        /\ \A k, j \in Nat : Laid(g, row, items, k) = Laid(g, row, items, j) => k = j
    BY <1>5, LaidTells
  <2> QED BY <2>1, <2>2, <2>3
<1>7. seen[o][c] = now /\ now.version = row.version + n
      /\ \A t \in Remaining(o) : t.case = c => SignalsHold(t)
  <2>1. PICK s \in plan[o].steps :
            /\ s.case = CaseOf(g)
            /\ \A t \in plan[o].steps : t.case = s.case => s.expected <= t.expected
            /\ seen[o][s.case].version = s.expected + Cardinality({t \in Committed(o) : t.case = s.case})
            /\ cases[s.case] = seen[o][s.case]
            /\ \A t \in Remaining(o) : t.case = s.case => SignalsHold(t)
    BY DEF Undisturbed
  <2>2. s \in Of(plan[o].steps, CaseOf(g))
    BY <2>1 DEF Of
  <2>3. PICK k \in Nat : k < StepCount(items) /\ s = Laid(g, row, items, k)
    BY <1>4, <1>6, <2>2
  <2>4. 0 < StepCount(items)
    BY <1>5, <2>3
  <2>5. Laid(g, row, items, 0) \in Of(plan[o].steps, CaseOf(g))
    BY <1>4, <1>6, <2>4
  <2>6. s.expected <= Laid(g, row, items, 0).expected
    BY <2>1, <2>5 DEF Of
  <2>7. s.expected = row.version
    BY <1>5, <1>6, <2>3, <2>6
  <2>8. {t \in Committed(o) : t.case = s.case} = Of(Committed(o), CaseOf(g))
    BY <2>1 DEF Of
  <2> QED BY <1>4, <1>6, <2>1, <2>7, <2>8
<1>8. \A t : t \in Of(Remaining(o), c) <=>
                \E k \in Nat : n <= k /\ k < StepCount(items) /\ t = Laid(g, row, items, k)
  <2>1. \A t : t \in Of(Remaining(o), c) <=>
                  t \in Of(plan[o].steps, CaseOf(g)) /\ t \notin Of(Committed(o), CaseOf(g))
    BY DEF Of, Remaining, Committed
  <2>2. ASSUME NEW t, t \in Of(Remaining(o), c)
        PROVE  \E k \in Nat : n <= k /\ k < StepCount(items) /\ t = Laid(g, row, items, k)
    <3>1. PICK k \in Nat : k < StepCount(items) /\ t = Laid(g, row, items, k)
      BY <1>4, <1>6, <2>1, <2>2
    <3>2. ~(k < n)
      BY <1>4, <1>6, <2>1, <2>2, <3>1
    <3> QED BY <3>1, <3>2
  <2>3. ASSUME NEW k \in Nat, n <= k, k < StepCount(items)
        PROVE  Laid(g, row, items, k) \in Of(Remaining(o), c)
    <3>1. Laid(g, row, items, k) \in Of(plan[o].steps, CaseOf(g))
      BY <1>4, <1>6, <2>3
    <3>2. Laid(g, row, items, k) \notin Steps(g, row, items, n)
      BY <1>6, <2>3
    <3> QED BY <1>4, <2>1, <3>1, <3>2
  <2> QED BY <2>2, <2>3
<1>9. \A i \in From(items, n) : i[1] = 2 => signals[i[2]].version = i[3]
  <2> SUFFICES ASSUME NEW i \in From(items, n), i[1] = 2 PROVE signals[i[2]].version = i[3]
    OBVIOUS
  <2> DEFINE k == Level(items, i)
             t == Laid(g, row, items, k)
  <2>1. i \in items /\ k \in Nat /\ n <= k /\ k < StepCount(items)
    BY <1>5 DEF From
  <2>2. t \in Of(Remaining(o), c)
    BY <1>8, <2>1
  <2>3. SignalsHold(t)
    BY <1>7, <2>2 DEF Of
  <2>4. i \in Window(items, k)
    BY <2>1 DEF Window, Level
  <2>5. <<i[1], i[2], i[3]>> \in t.items
    BY <2>4 DEF Laid
  <2> QED BY <2>3, <2>5 DEF SignalsHold
<1>10. /\ Items(g, now) = From(items, n)
       /\ ~AmbiguousOrDrifted(g, now) /\ ~AlreadyLinked(g) /\ ~OverCapacity(g, now)
       /\ now.version > 0 => now.state \in Linkable
  BY <1>1, <1>4, <1>7, <1>9, Resumed
<1>11. ~Ineligible(o, g, now)
  <2>1. CASE g.target = 0
    BY <1>10, <2>1 DEF Ineligible
  <2>2. CASE g.target # 0
    <3>1. c = g.target /\ c \in Cases
      BY <1>1, <2>2, CaseOfAddressed DEF CaseOf
    <3>2. row.version # 0 /\ row.version = input[o][g.target]
      BY <1>4, <2>2 DEF Cut
    <3>3. now.version > 0
      BY <1>5, <1>7, <3>2
    <3>4. OwnSteps(o, g.target) = n
      <4>1. OwnSteps(o, g.target) = Cardinality(Of(Committed(o), c))
        BY <3>1 DEF OwnSteps, Committed, Of
      <4> QED BY <1>4, <1>6, <4>1
    <3>5. "OTHER" \notin IssuesOf(now.reports)
      <4>1. SoundRow(c, now)
        BY <1>1, <3>1 DEF SoundCases
      <4> QED BY <4>1 DEF SoundRow, Subject, IssuesOf
    <3> QED BY <1>7, <1>10, <2>2, <3>2, <3>3, <3>4, <3>5 DEF Ineligible
  <2> QED BY <2>1, <2>2
<1>12. Contents(CutSteps(g, now)) = Contents(Of(Remaining(o), c))
  <2>1. StepCount(Items(g, now)) = StepCount(items) - n
    BY <1>4, <1>5, <1>10, FromCounts
  <2>2. ASSUME NEW k \in Nat
        PROVE  Content(CutStep(g, now, k)) = Content(Laid(g, row, items, n + k))
    <3> DEFINE s == CutStep(g, now, k)
    <3>1. s.items = Window(items, n + k)
      BY <1>5, <1>10, FromWindows DEF CutStep
    <3>2. s.case = CaseOf(g) /\ s.new = (g.target = 0) /\ s.expected = now.version + k
      BY DEF CutStep
    <3>3. s.expected = row.version + (n + k)
      BY <1>5, <1>7, <3>2
    <3> QED BY <3>1, <3>2, <3>3, LaidContent
  <2>3. \A s : s \in CutSteps(g, now) <=>
                   \E k \in Nat : k < StepCount(items) - n /\ s = CutStep(g, now, k)
    <3>1. \A k : k \in Numbers(g, now) <=> k \in Nat /\ k < StepCount(items) - n
      BY <1>5, <2>1 DEF Numbers
    <3> QED BY <3>1, CutStepsAre
  <2>4. ASSUME NEW s \in CutSteps(g, now)
        PROVE  \E t \in Of(Remaining(o), c) : Content(s) = Content(t)
    <3>1. PICK k \in Nat : k < StepCount(items) - n /\ s = CutStep(g, now, k)
      BY <2>3
    <3>2. n + k \in Nat /\ n <= n + k /\ n + k < StepCount(items)
      BY <1>5, <3>1
    <3> QED BY <1>8, <2>2, <3>1, <3>2
  <2>5. ASSUME NEW t \in Of(Remaining(o), c)
        PROVE  \E s \in CutSteps(g, now) : Content(s) = Content(t)
    <3>1. PICK j \in Nat : n <= j /\ j < StepCount(items) /\ t = Laid(g, row, items, j)
      BY <1>8
    <3>2. PICK k \in Nat : j = n + k /\ k < StepCount(items) - n
      <4>1. j - n \in Nat /\ j = n + (j - n) /\ j - n < StepCount(items) - n
        BY <1>5, <3>1
      <4> QED BY <4>1
    <3> QED BY <2>2, <2>3, <3>1, <3>2
  <2> QED BY <2>4, <2>5 DEF Contents
<1> QED BY <1>7, <1>10, <1>11, <1>12

LEMMA TraceTells ==
    ASSUME IInv, NEW o \in Ops, TraceInv(o), pc[o] = "derive", plan[o].frozen, Undisturbed(o)
    PROVE  /\ ~Denied(o)
           /\ {Content(s) : s \in Planned(o)} = {Content(s) : s \in Remaining(o)}
<1>1. ~Denied(o)
  BY GroupResumes DEF Denied
<1>2. answer[o] = plan[o].answer
  BY DEF IInv, WorkInv, Reading
<1>3. \A s : s \in Planned(o) <=>
                 \E g \in Addressed(answer[o]) : s \in CutSteps(g, seen[o][CaseOf(g)])
  BY DEF Planned
<1>4. \A g \in Addressed(answer[o]) :
          Contents(CutSteps(g, seen[o][CaseOf(g)])) = Contents(Of(Remaining(o), CaseOf(g)))
  BY GroupResumes
<1>5. ASSUME NEW s \in Planned(o) PROVE \E t \in Remaining(o) : Content(s) = Content(t)
  <2>1. PICK g \in Addressed(answer[o]) : s \in CutSteps(g, seen[o][CaseOf(g)])
    BY <1>3
  <2>2. Content(s) \in Contents(Of(Remaining(o), CaseOf(g)))
    BY <1>4, <2>1 DEF Contents
  <2> QED BY <2>2 DEF Contents, Of
<1>6. ASSUME NEW t \in Remaining(o) PROVE \E s \in Planned(o) : Content(s) = Content(t)
  <2>1. Attributed(answer[o], plan[o].steps)
    BY <1>2 DEF TraceInv, FrozenTrace, Undisturbed
  <2>2. PICK g \in Addressed(answer[o]) : t.case = CaseOf(g)
    BY <2>1 DEF Attributed, Remaining
  <2>3. Content(t) \in Contents(CutSteps(g, seen[o][CaseOf(g)]))
    BY <1>4, <2>2 DEF Contents, Of
  <2> QED BY <1>3, <2>3 DEF Contents
<1> QED BY <1>1, <1>5, <1>6

-----------------------------------------------------------------------------
(* What a plan was cut from stays known while others move the store.        *)

(* A message that shows a case changes only with that case. *)
Steady ==
    \A m \in Messages :
        signals[m].case # 0 /\ cases'[signals[m].case].version = cases[signals[m].case].version
            => signals'[m] = signals[m]

LEMMA FollowsStays ==
    ASSUME Typed, Typed', Grows, Steady, NEW o \in Ops, NEW a, Validated(a), NEW g \in Addressed(a),
           NEW row, NEW items, Cut(o, g, row, items), NEW n \in Nat, Follows(g, row, items, n)
    PROVE  Follows(g, row, items, n)'
<1> DEFINE c == CaseOf(g)
           left == From(items, n)
           state == StateOf(row)
<1>1. /\ c \in Cases /\ c # 0 /\ MessagesOf(g) \subseteq Messages /\ row.version \in Nat
  BY CaseOfAddressed DEF Cut, Rows
<1>2. /\ cases[c].version \in Nat /\ cases'[c].version \in Nat
      /\ cases[c].version <= cases'[c].version
      /\ cases[c].version = cases'[c].version => cases'[c] = cases[c]
  <2>1. cases[c] \in Rows /\ cases'[c] \in Rows
    BY <1>1 DEF Typed
  <2> QED BY <1>1, <2>1 DEF Rows, Grows
<1>3. \A m \in Messages : /\ signals[m].version \in Nat /\ signals'[m].version \in Nat
                          /\ signals[m].version <= signals'[m].version
                          /\ signals[m].version = signals'[m].version => signals'[m] = signals[m]
  <2>1. \A m \in Messages : signals[m] \in Signals /\ signals'[m] \in Signals
    BY DEF Typed
  <2> QED BY <2>1 DEF Signals, Grows
<1>4. \A i \in left : i[1] = 2 => i[2] \in Messages /\ i[3] \in Nat
  <2> SUFFICES ASSUME NEW i \in left, i[1] = 2 PROVE i[2] \in Messages /\ i[3] \in Nat
    OBVIOUS
  <2>1. i \in items
    BY FromSplits DEF Cut
  <2>2. i[2] \in MessagesOf(g)
    BY <2>1 DEF Cut, MessagesIn
  <2>3. i \in ItemTypes
    BY <2>1 DEF Cut, Countable
  <2> QED BY <1>1, <2>2, <2>3, ItemShape
<1>5. row.version + n <= cases'[c].version
  BY <1>1, <1>2 DEF Follows
<1>6. ASSUME row.version + n = cases'[c].version
      PROVE  /\ cases'[c] = RowAfter(row, items, n)
             /\ \A m \in MessagesOf(g) \ MessagesIn(left) : Shows(m, g, state)'
  <2>1. row.version + n <= cases[c].version
    BY DEF Follows
  <2>2. row.version + n = cases[c].version /\ cases'[c] = cases[c]
    BY <1>1, <1>2, <1>6, <2>1
  <2>3. \A m \in MessagesOf(g) \ MessagesIn(left) : Shows(m, g, state)
    BY <2>2 DEF Follows
  <2>4. ASSUME NEW m \in MessagesOf(g) \ MessagesIn(left) PROVE Shows(m, g, state)'
    <3>1. Shows(m, g, state) /\ signals[m].case = c /\ m \in Messages
      BY <1>1, <2>3 DEF Shows
    <3>2. signals'[m] = signals[m]
      BY <1>1, <2>2, <3>1 DEF Steady
    <3> QED BY <3>1, <3>2 DEF Shows
  <2> QED BY <2>2, <2>4 DEF Follows
<1>7. ASSUME NEW i \in left, i[1] = 2
      PROVE  /\ i[3] <= signals'[i[2]].version
             /\ i[3] = signals'[i[2]].version => /\ signals'[i[2]].case \in {0, c}
                                                 /\ ~Shows(i[2], g, state)'
  <2>1. i[2] \in Messages /\ i[3] \in Nat /\ i[3] <= signals[i[2]].version
    BY <1>4, <1>7 DEF Follows
  <2>2. i[3] <= signals'[i[2]].version
    BY <1>3, <2>1
  <2>3. ASSUME i[3] = signals'[i[2]].version
        PROVE  signals'[i[2]].case \in {0, c} /\ ~Shows(i[2], g, state)'
    <3>1. i[3] = signals[i[2]].version /\ signals'[i[2]] = signals[i[2]]
      BY <1>3, <2>1, <2>3
    <3>2. signals[i[2]].case \in {0, c} /\ ~Shows(i[2], g, state)
      BY <1>7, <3>1 DEF Follows
    <3> QED BY <3>1, <3>2 DEF Shows
  <2> QED BY <2>2, <2>3
<1> QED BY <1>5, <1>6, <1>7 DEF Follows

LEMMA TracedStays ==
    ASSUME Typed, Typed', Grows, Steady, NEW o \in Ops, NEW a, Validated(a), NEW g \in Addressed(a),
           NEW S, NEW D, Traced(o, g, S, D), input'[o] = input[o]
    PROVE  Traced(o, g, S, D)'
<1>1. PICK row, items : \E n \in Nat :
          /\ Cut(o, g, row, items)
          /\ n <= StepCount(items)
          /\ Of(S, CaseOf(g)) = Steps(g, row, items, StepCount(items))
          /\ Of(D, CaseOf(g)) = Steps(g, row, items, n)
          /\ Follows(g, row, items, n)
  BY DEF Traced
<1>2. PICK n \in Nat :
          /\ Cut(o, g, row, items)
          /\ n <= StepCount(items)
          /\ Of(S, CaseOf(g)) = Steps(g, row, items, StepCount(items))
          /\ Of(D, CaseOf(g)) = Steps(g, row, items, n)
          /\ Follows(g, row, items, n)
  BY <1>1
<1>3. Follows(g, row, items, n)'
  BY <1>2, FollowsStays
<1>4. Cut(o, g, row, items)'
  BY <1>2 DEF Cut
<1> QED BY <1>2, <1>3, <1>4 DEF Traced

(* The operation p neither plans nor commits in this step. *)
Calm(p) ==
    /\ plan'[p] = plan[p] /\ Committed(p)' = Committed(p)
    /\ input'[p] = input[p] \/ (~plan[p].frozen /\ pc[p] # "freeze")
    /\ pc'[p] = "freeze" => pc[p] = "freeze"
    /\ pc'[p] \in {"freeze", "prove", "commit"} =>
          /\ pc[p] \in {"freeze", "prove", "commit"}
          /\ answer'[p] = answer[p] /\ todo'[p] = todo[p]

LEMMA FrozenStays ==
    ASSUME Typed, Typed', Grows, Steady, NEW p \in Ops, OpInv(p), FrozenTrace(p),
           plan'[p] = plan[p], Committed(p)' = Committed(p),
           input'[p] = input[p] \/ ~plan[p].frozen
    PROVE  FrozenTrace(p)'
<1> SUFFICES ASSUME plan'[p].frozen, ~Rivals(plan'[p].answer)
             PROVE  /\ Attributed(plan'[p].answer, plan'[p].steps)
                    /\ \A g \in Addressed(plan'[p].answer) : Traced(p, g, plan[p].steps, Committed(p))'
  BY DEF FrozenTrace
<1> DEFINE a == plan[p].answer
           S == plan[p].steps
           D == Committed(p)
<1>1. plan'[p] = plan[p] /\ Committed(p)' = D /\ input'[p] = input[p]
  OBVIOUS
<1>2. Attributed(a, S) /\ \A g \in Addressed(a) : Traced(p, g, S, D)
  BY DEF FrozenTrace
<1>3. Validated(a)
  BY DEF OpInv, PlanInv, SoundPlan
<1>4. ASSUME NEW g \in Addressed(a) PROVE Traced(p, g, plan[p].steps, Committed(p))'
  <2>1. PICK T : T = S
    OBVIOUS
  <2>2. PICK E : E = D
    OBVIOUS
  <2>3. Traced(p, g, T, E)
    BY <1>2, <2>1, <2>2
  <2>4. Traced(p, g, T, E)'
    BY <1>1, <1>3, <2>3, TracedStays
  <2>5. plan'[p].steps = T /\ Committed(p)' = E
    BY <1>1, <2>1, <2>2
  <2> HIDE DEF S, D
  <2> QED BY <2>4, <2>5 DEF Traced
<1> QED BY <1>1, <1>2, <1>4

LEMMA PlannedStays ==
    ASSUME Typed, Typed', Grows, Steady, NEW p \in Ops, OpInv(p), PlannedTrace(p),
           pc'[p] = "freeze" =>
               /\ pc[p] = "freeze" /\ answer'[p] = answer[p] /\ todo'[p] = todo[p]
               /\ input'[p] = input[p]
    PROVE  PlannedTrace(p)'
<1> SUFFICES ASSUME pc'[p] = "freeze", ~Rivals(answer'[p])
             PROVE  /\ Attributed(answer'[p], todo'[p])
                    /\ \A g \in Addressed(answer'[p]) : Traced(p, g, Described(todo[p]), {})'
  BY DEF PlannedTrace
<1> DEFINE a == answer[p]
           S == Described(todo[p])
<1>1. pc[p] = "freeze" /\ answer'[p] = answer[p] /\ todo'[p] = todo[p] /\ input'[p] = input[p]
  OBVIOUS
<1>2. Attributed(a, todo[p]) /\ \A g \in Addressed(a) : Traced(p, g, S, {})
  BY <1>1 DEF PlannedTrace
<1>3. Validated(a)
  BY <1>1 DEF OpInv, WorkInv, Reading
<1>4. ASSUME NEW g \in Addressed(a) PROVE Traced(p, g, Described(todo[p]), {})'
  <2>1. PICK T : T = S
    OBVIOUS
  <2>2. Traced(p, g, T, {})
    BY <1>2, <2>1
  <2>3. Traced(p, g, T, {})'
    BY <1>1, <1>3, <2>2, TracedStays
  <2>4. Described(todo[p])' = T
    BY <1>1, <2>1 DEF Described
  <2> HIDE DEF S
  <2> QED BY <2>3, <2>4 DEF Traced
<1> QED BY <1>1, <1>2, <1>4

LEMMA TraceStays ==
    ASSUME Typed, Typed', Grows, Steady, NEW p \in Ops, OpInv(p), TraceInv(p), Calm(p)
    PROVE  TraceInv(p)'
<1>1. FrozenTrace(p)'
  BY FrozenStays DEF Calm, TraceInv
<1>2. PlannedTrace(p)'
  <2>1. plan[p].frozen => pc[p] # "freeze"
    BY DEF OpInv, PlaceInv
  <2> QED BY <2>1, PlannedStays DEF Calm, TraceInv
<1>3. ASSUME pc'[p] \in {"freeze", "prove", "commit"} PROVE Sourced(answer'[p], todo'[p])
  BY <1>3 DEF Calm, TraceInv
<1> QED BY <1>1, <1>2, <1>3 DEF TraceInv

LEMMA CalmElsewhere ==
    ASSUME NEW o \in Ops, NEW p \in Ops, Committed(p)' = Committed(p),
           plan'[p] = plan[p], input'[p] = input[p], pc'[p] = pc[p],
           answer'[p] = answer[p], todo'[p] = todo[p]
    PROVE  Calm(p)
BY DEF Calm

(* A worker that only moves on, or stops, or is not there. *)
LEMMA CalmSteps ==
    ASSUME IInv, NEW o \in Ops,
           UNCHANGED plan, \A p \in Ops : Committed(p)' = Committed(p),
           \A p \in Ops \ {o} : pc'[p] = pc[p] /\ input'[p] = input[p]
                                /\ answer'[p] = answer[p] /\ todo'[p] = todo[p],
           input'[o] = input[o] \/ pc[o] = "context",
           \/ pc'[o] \notin {"freeze", "prove", "commit"}
           \/ answer'[o] = answer[o] /\ todo'[o] = todo[o]
                /\ (pc'[o] = pc[o] \/ (pc[o] = "prove" /\ pc'[o] # "freeze"))
    PROVE  \A p \in Ops : Calm(p)
<1>1. pc[o] = "context" => ~plan[o].frozen
  BY DEF IInv, PlaceInv
<1>2. Calm(o)
  BY <1>1 DEF Calm
<1>3. \A p \in Ops \ {o} : Calm(p)
  BY CalmElsewhere
<1> QED BY <1>2, <1>3

LEMMA CommittedByStore ==
    ASSUME UNCHANGED <<plan, progress>>
    PROVE  \A p \in Ops : Committed(p)' = Committed(p)
BY CommittedStays

Quiet(o) ==
    \/ Claim(o) \/ Begin(o) \/ FreezeInput(o) \/ Invoke(o) \/ LoadCases(o) \/ Prove(o)
    \/ Finalize(o) \/ Refuse(o) \/ Settle(o) \/ ReadFails(o) \/ Crash(o)
    \/ Age(o) \/ Visit(o) \/ Abandon(o)

LEMMA QuietCalm ==
    ASSUME IInv, NEW o \in Ops, Quiet(o)
    PROVE  UNCHANGED <<cases, signals>> /\ \A p \in Ops : Calm(p)
<1>1. /\ pc \in [Ops -> Places] /\ DOMAIN pc = Ops /\ DOMAIN todo = Ops
      /\ DOMAIN input = Ops /\ DOMAIN answer = Ops
  BY DEF IInv, TypeOK, Places
<1> DEFINE at(place) == pc' = [pc EXCEPT ![o] = place]
<1>2. ASSUME NEW place, at(place) PROVE pc'[o] = place /\ \A p \in Ops \ {o} : pc'[p] = pc[p]
  BY <1>1, <1>2
<1> HIDE DEF at
<1> USE DEF store, worker
<1>3. CASE Claim(o)
  <2>1. /\ UNCHANGED <<cases, signals, plan, progress, input, answer, todo>>
        /\ at("begin") \/ pc' = pc
    BY <1>3 DEF Claim, Goto, at
  <2>2. pc[o] = "idle"
    BY <1>3 DEF Claim
  <2> QED BY <1>2, <2>1, <2>2, CommittedByStore, CalmSteps
<1>4. CASE Begin(o)
  <2>1. /\ UNCHANGED <<cases, signals, plan, progress, input, todo>>
        /\ answer' = [answer EXCEPT ![o] = plan[o].answer]
        /\ \E place \in {"settle", "succeed", "load", "context", "invoke"} : at(place)
    <3>1. record[o] \in {"NONE", "SUCCEEDED", "FAILED"} /\ plan[o].frozen \in BOOLEAN
      BY DEF IInv, TypeOK
    <3> QED BY <1>4, <3>1 DEF Begin, Goto, at
  <2>2. \A p \in Ops \ {o} : answer'[p] = answer[p]
    BY <1>1, <2>1
  <2>3. pc'[o] \notin {"freeze", "prove", "commit"} /\ \A p \in Ops \ {o} : pc'[p] = pc[p]
    BY <1>2, <2>1
  <2> QED BY <2>1, <2>2, <2>3, CommittedByStore, CalmSteps
<1>5. CASE FreezeInput(o)
  <2>1. /\ UNCHANGED <<cases, signals, plan, progress, answer, todo>> /\ pc[o] = "context"
        /\ input' \in {input, [input EXCEPT ![o] = CandidateSummaries]}
        /\ \E place \in {"invoke", "succeed", "settle"} : at(place)
    BY <1>5 DEF FreezeInput, Goto, at
  <2>2. \A p \in Ops \ {o} : input'[p] = input[p]
    BY <1>1, <2>1
  <2>3. pc'[o] \notin {"freeze", "prove", "commit"} /\ \A p \in Ops \ {o} : pc'[p] = pc[p]
    BY <1>2, <2>1
  <2> QED BY <2>1, <2>2, <2>3, CommittedByStore, CalmSteps
<1>6. CASE Invoke(o)
  <2>1. /\ UNCHANGED <<cases, signals, plan, progress, input, todo>> /\ pc[o] = "invoke"
        /\ answer' = answer \/ \E a \in Answers : answer' = [answer EXCEPT ![o] = a]
        /\ pc' = pc \/ \E place \in {"load", "refuse"} : at(place)
    BY <1>6 DEF Invoke, Goto, at
  <2>2. \A p \in Ops \ {o} : answer'[p] = answer[p]
    BY <1>1, <2>1
  <2>3. pc'[o] \notin {"freeze", "prove", "commit"} /\ \A p \in Ops \ {o} : pc'[p] = pc[p]
    BY <1>2, <2>1
  <2> QED BY <2>1, <2>2, <2>3, CommittedByStore, CalmSteps
<1>7. CASE LoadCases(o)
  <2>1. UNCHANGED <<cases, signals, plan, progress, input, answer, todo>> /\ at("derive")
    BY <1>7 DEF LoadCases, Goto, at
  <2> QED BY <1>2, <2>1, CommittedByStore, CalmSteps
<1>8. CASE Prove(o)
  <2>1. /\ UNCHANGED <<cases, signals, plan, progress, input, answer, todo>> /\ pc[o] = "prove"
        /\ at("commit") \/ at("settle")
    BY <1>8 DEF Prove, Goto, at
  <2> QED BY <1>2, <2>1, CommittedByStore, CalmSteps
<1>9. CASE Finalize(o)
  <2>1. /\ UNCHANGED <<cases, signals, plan, input, answer, todo>>
        /\ at("succeed") \/ at("release")
        /\ progress' = progress \/
              (progress[o] = DataSteps(o) /\ progress' = [progress EXCEPT ![o] = DataSteps(o) + 1])
    BY <1>9 DEF Finalize, Finalizable, Complete, Goto, at
  <2>2. \A p \in Ops : Committed(p)' = Committed(p)
    <3>1. CASE progress' = progress
      BY <2>1, <3>1, CommittedByStore
    <3>2. CASE progress[o] = DataSteps(o) /\ progress' = [progress EXCEPT ![o] = DataSteps(o) + 1]
      <4>1. Ordered(plan[o].steps) /\ DOMAIN progress = Ops
        BY PlanOrders DEF IInv, PlanInv, TypeOK
      <4>2. DataSteps(o) \in Nat /\ Cardinality(plan[o].steps) = DataSteps(o)
        BY <4>1, FS_CardinalityType DEF DataSteps, Ordered
      <4>3. progress'[o] = DataSteps(o) + 1 /\ \A p \in Ops \ {o} : progress'[p] = progress[p]
        BY <3>2, <4>1
      <4>4. Prefix(plan[o].steps, DataSteps(o)) = plan[o].steps
        BY <4>1, <4>2, PrefixEnds
      <4>5. Prefix(plan[o].steps, DataSteps(o) + 1) = plan[o].steps
        <5>1. DataSteps(o) + 1 \in Nat /\ Cardinality(plan[o].steps) <= DataSteps(o) + 1
          BY <4>2
        <5> QED BY <4>1, <5>1, PrefixEnds
      <4>6. Committed(o)' = Committed(o)
        BY <2>1, <3>2, <4>3, <4>4, <4>5 DEF Committed
      <4>7. \A p \in Ops \ {o} : Committed(p)' = Committed(p)
        BY <2>1, <4>3, CommittedStays
      <4> QED BY <4>6, <4>7
    <3> QED BY <2>1, <3>1, <3>2
  <2> QED BY <1>2, <2>1, <2>2, CalmSteps
<1>10. CASE Refuse(o)
  <2>1. UNCHANGED <<cases, signals, plan, progress, input, answer, todo>> /\ at("settle")
    BY <1>10 DEF Refuse, Goto, at
  <2> QED BY <1>2, <2>1, CommittedByStore, CalmSteps
<1>11. CASE Settle(o)
  <2>1. /\ UNCHANGED <<cases, signals, plan, progress, input>> /\ Forget(o)
        /\ at("idle") \/ at("recheck")
    BY <1>11 DEF Settle, Goto, at
  <2>2. \A p \in Ops \ {o} : answer'[p] = answer[p] /\ todo'[p] = todo[p]
    BY <2>1, ForgetTypes DEF IInv
  <2> QED BY <1>2, <2>1, <2>2, CommittedByStore, CalmSteps
<1>12. CASE ReadFails(o)
  <2>1. /\ UNCHANGED <<cases, signals, plan, progress, input, answer, todo>>
        /\ at("refuse") \/ at("settle")
    BY <1>12 DEF ReadFails, Goto, at
  <2> QED BY <1>2, <2>1, CommittedByStore, CalmSteps
<1>13. CASE Crash(o)
  <2>1. UNCHANGED <<cases, signals, plan, progress, input>> /\ Forget(o) /\ at("idle")
    BY <1>13 DEF Crash, Goto, at
  <2>2. \A p \in Ops \ {o} : answer'[p] = answer[p] /\ todo'[p] = todo[p]
    BY <2>1, ForgetTypes DEF IInv
  <2> QED BY <1>2, <2>1, <2>2, CommittedByStore, CalmSteps
<1>14. CASE Age(o) \/ Visit(o) \/ Abandon(o)
  <2>1. UNCHANGED <<cases, signals, plan, progress, input, answer, todo, pc>>
    BY <1>14 DEF Age, Visit, Abandon
  <2> QED BY <2>1, CommittedByStore, CalmSteps
<1> QED BY <1>3, <1>4, <1>5, <1>6, <1>7, <1>8, <1>9, <1>10, <1>11, <1>12, <1>13, <1>14
        DEF Quiet

(* What is derived before anything is frozen. *)

LEMMA DerivedCuttable ==
    ASSUME Typed, NEW o \in Ops, Validated(answer[o]), SeenInv(o), pc[o] = "derive", ~Denied(o),
           NEW g \in Addressed(answer[o])
    PROVE  /\ Cuttable(answer[o], g, seen[o][CaseOf(g)])
           /\ ~Ineligible(o, g, seen[o][CaseOf(g)])
<1>1. CaseOf(g) \in Cases
  BY CaseOfAddressed
<1>2. seen[o][CaseOf(g)] \in Rows /\ SoundRow(CaseOf(g), seen[o][CaseOf(g)])
  BY <1>1 DEF SeenInv
<1> QED BY <1>2 DEF Denied, Cuttable

LEMMA ItemsCount ==
    ASSUME Typed, NEW a, Validated(a), NEW g, NEW row, Cuttable(a, g, row)
    PROVE  /\ Countable(Items(g, row))
           /\ \A i \in Items(g, row) : i[1] = 1 => i[3] = 0
<1> DEFINE items == Items(g, row)
<1>1. items \subseteq ItemTypes /\ IsFiniteSet(items)
  BY ItemsAre
<1>2. ASSUME NEW i \in items
      PROVE  /\ i[1] \in {1, 2, 3}
             /\ i[1] = 1 => i[3] = 0
             /\ i[1] = 2 => i[3] = signals[i[2]].version
             /\ i[1] = 3 => \E f \in g.facts : i[2] = f[1] /\ i[3] = f[2]
  BY DEF Items, NewFacts
<1> HIDE DEF items
<1>3. ASSUME NEW i \in items, NEW j \in items, i[1] = j[1], i[2] = j[2]
      PROVE  i = j
  <2>1. i = <<i[1], i[2], i[3]>> /\ j = <<j[1], j[2], j[3]>>
    BY <1>1, ItemShape
  <2>2. i[3] = j[3]
    <3>1. CASE i[1] = 1
      <4>1. i[3] = 0
        BY <1>2, <3>1
      <4>2. j[3] = 0
        BY <1>2, <1>3, <3>1
      <4> QED BY <4>1, <4>2
    <3>2. CASE i[1] = 2
      <4>1. i[3] = signals[i[2]].version
        BY <1>2, <3>2
      <4>2. j[1] = 2
        BY <1>3, <3>2
      <4>3. j[3] = signals[j[2]].version
        BY <1>2, <4>2
      <4> QED BY <1>3, <4>1, <4>3
    <3>3. CASE i[1] = 3
      <4>1. PICK f \in g.facts : i[2] = f[1] /\ i[3] = f[2]
        BY <1>2, <3>3
      <4>2. PICK h \in g.facts : j[2] = h[1] /\ j[3] = h[2]
        BY <1>2, <1>3, <3>3
      <4> QED BY <1>3, <4>1, <4>2 DEF Cuttable, AmbiguousOrDrifted
    <3> QED BY <1>2, <3>1, <3>2, <3>3
  <2> QED BY <1>3, <2>1, <2>2
<1> QED BY <1>1, <1>2, <1>3 DEF Countable, Distinct, items

LEMMA CutItems ==
    ASSUME Typed, NEW o \in Ops, Validated(answer[o]), SeenInv(o), pc[o] = "derive", ~Denied(o),
           progress[o] = 0, SoundPlan(plan[o]), input \in [Ops -> [Cases -> Nat]],
           NEW g \in Addressed(answer[o])
    PROVE  Cut(o, g, seen[o][CaseOf(g)], Items(g, seen[o][CaseOf(g)]))
<1> DEFINE row == seen[o][CaseOf(g)]
           items == Items(g, row)
<1>1. Cuttable(answer[o], g, row) /\ ~Ineligible(o, g, row)
  BY DerivedCuttable
<1>2. /\ row \in Rows /\ SoundRow(CaseOf(g), row)
      /\ ~AmbiguousOrDrifted(g, row) /\ ~OverCapacity(g, row)
  BY <1>1 DEF Cuttable
<1>3. Countable(items) /\ \A i \in items : i[1] = 1 => i[3] = 0
  BY <1>1, ItemsCount
<1>4. /\ ReportsIn(items) = g.reports \ row.reports
      /\ MessagesIn(items) \subseteq MessagesOf(g)
      /\ FactsIn(items) = NewFacts(g, row)
  <2>1. Undisplayed(g, row) \subseteq MessagesOf(g)
    BY DEF Undisplayed
  <2> QED BY <1>1, <2>1, ItemsAre
<1> HIDE DEF row, items
<1>5. row.version \in Nat
  BY <1>2 DEF Rows
<1>6. StateOf(row) \in Linkable
  <2>1. "CANDIDATE" \in Linkable
    BY DEF Linkable
  <2>2. row.version # 0 => row.state \in Linkable
    BY <1>1, <1>5 DEF Ineligible
  <2> QED BY <2>1, <2>2 DEF StateOf
<1>7. ASSUME g.target # 0 PROVE row.version # 0 /\ row.version = input[o][g.target]
  <2>1. OwnSteps(o, g.target) = 0
    <3>1. Ordered(plan[o].steps)
      BY PlanOrders
    <3>2. Prefix(plan[o].steps, progress[o]) = {}
      BY <3>1, PrefixEnds
    <3>3. {s \in Prefix(plan[o].steps, progress[o]) : s.case = g.target} = {}
      BY <3>2
    <3> QED BY <3>3, FS_EmptySet DEF OwnSteps
  <2>2. row.version # 0 /\ row.version = input[o][g.target] + 0
    BY <1>1, <1>7, <2>1 DEF Ineligible
  <2>3. input[o][g.target] \in Nat
    <3>1. g.target \in Cases
      BY <1>7, CaseOfAddressed
    <3> QED BY <3>1
  <2> QED BY <2>2, <2>3
<1> QED BY <1>2, <1>3, <1>4, <1>6, <1>7 DEF Cut, row, items

LEMMA RowAfterNothing ==
    ASSUME NEW row \in Rows, NEW items, Countable(items)
    PROVE  RowAfter(row, items, 0) = row
<1>1. items \ From(items, 0) = {}
  BY FromWindows
<1>2. ReportsIn({}) = {} /\ FactsIn({}) = {}
  BY DEF ReportsIn, FactsIn
<1>3. row = [version |-> row.version, state |-> row.state, reports |-> row.reports, facts |-> row.facts]
      /\ row.version \in Nat
  BY DEF Rows
<1>4. row.version + 0 = row.version
  BY <1>3
<1> QED BY <1>1, <1>2, <1>3, <1>4 DEF RowAfter

LEMMA PlannedSourced ==
    ASSUME Typed, NEW o \in Ops, Validated(answer[o]), SeenInv(o), pc[o] = "derive", ~Denied(o)
    PROVE  Sourced(answer[o], Planned(o)) /\ Attributed(answer[o], Planned(o))
<1> SUFFICES ASSUME NEW t \in Planned(o)
             PROVE  \E g \in Addressed(answer[o]) :
                        /\ t.case = CaseOf(g)
                        /\ t.related = Cardinality(MessagesOf(g))
                        /\ FactsIn(t.items) \subseteq g.facts
  BY DEF Sourced, Attributed
<1>1. PICK g \in Addressed(answer[o]) : t \in CutSteps(g, seen[o][CaseOf(g)])
  BY DEF Planned
<1> DEFINE row == seen[o][CaseOf(g)]
<1>2. PICK k \in Numbers(g, row) : t = CutStep(g, row, k)
  BY <1>1, CutStepsAre
<1>3. Cuttable(answer[o], g, row)
  BY DerivedCuttable
<1>4. t.case = CaseOf(g) /\ t.related = Cardinality(MessagesOf(g)) /\ t.items = Window(Items(g, row), k)
  BY <1>2 DEF CutStep
<1>5. FactsIn(t.items) \subseteq FactsIn(Items(g, row))
  BY <1>4 DEF FactsIn, Window
<1>6. FactsIn(Items(g, row)) \subseteq g.facts
  BY <1>3, ItemsAre
<1> QED BY <1>4, <1>5, <1>6

LEMMA PlannedTraced ==
    ASSUME Typed, NEW o \in Ops, Validated(answer[o]), SeenInv(o), pc[o] = "derive", ~Denied(o),
           progress[o] = 0, SoundPlan(plan[o]), input \in [Ops -> [Cases -> Nat]],
           ~Rivals(answer[o]), NEW g \in Addressed(answer[o])
    PROVE  Traced(o, g, Described(Planned(o)), {})
<1> DEFINE row == seen[o][CaseOf(g)]
           items == Items(g, row)
           c == CaseOf(g)
<1>1. Cut(o, g, row, items)
  BY CutItems
<1>2. Cuttable(answer[o], g, row) /\ c \in Cases /\ c # 0 /\ MessagesOf(g) \subseteq Messages
  BY DerivedCuttable, CaseOfAddressed
<1>3. /\ row.version \in Nat /\ Countable(items) /\ StepCount(items) \in Nat /\ row \in Rows
  <2>1. row \in Rows /\ row.version \in Nat /\ Countable(items)
    BY <1>1 DEF Cut, Rows
  <2>2. items \subseteq ItemTypes /\ IsFiniteSet(items)
    BY <2>1 DEF Countable
  <2> QED BY <2>1, <2>2, WindowsAre
<1>4. Of({}, c) = Steps(g, row, items, 0)
  BY <1>3, StepsAre DEF Of
<1>5. Of(Described(Planned(o)), c) = Steps(g, row, items, StepCount(items))
  <2>1. ASSUME NEW k \in Nat
        PROVE  Describe(CutStep(g, row, k)) = Laid(g, row, items, k)
    <3> DEFINE s == CutStep(g, row, k)
    <3>1. s.case = CaseOf(g) /\ s.new = (g.target = 0) /\ s.expected = row.version + k
          /\ s.items = Window(items, k) /\ s.first = (k = 0)
      BY DEF CutStep
    <3> HIDE DEF s
    <3>2. Describe(s) = Laid(g, row, items, k)
      BY <3>1, LaidContent
    <3> QED BY <3>2 DEF s
  <2>2. \A k : k \in Numbers(g, row) <=> k \in Nat /\ k < StepCount(items)
    BY <1>3 DEF Numbers
  <2>3. \A t : t \in Steps(g, row, items, StepCount(items)) <=>
                  \E k \in Nat : k < StepCount(items) /\ t = Laid(g, row, items, k)
    BY <1>3, StepsAre
  <2>4. ASSUME NEW t \in Of(Described(Planned(o)), c) PROVE t \in Steps(g, row, items, StepCount(items))
    <3>1. PICK s \in Planned(o) : t = Describe(s) /\ t.case = c
      BY DEF Of, Described
    <3>2. PICK h \in Addressed(answer[o]) : s \in CutSteps(h, seen[o][CaseOf(h)])
      BY DEF Planned
    <3>3. PICK k \in Numbers(h, seen[o][CaseOf(h)]) : s = CutStep(h, seen[o][CaseOf(h)], k)
      BY <3>2, CutStepsAre
    <3>4. s.case = CaseOf(h) /\ t.case = s.case
      BY <3>1, <3>3 DEF CutStep, Describe
    <3>5. h = g
      BY <3>1, <3>4 DEF Rivals
    <3> QED BY <2>1, <2>2, <2>3, <3>1, <3>3, <3>5
  <2>5. ASSUME NEW t \in Steps(g, row, items, StepCount(items)) PROVE t \in Of(Described(Planned(o)), c)
    <3>1. PICK k \in Nat : k < StepCount(items) /\ t = Laid(g, row, items, k)
      BY <2>3
    <3>2. CutStep(g, row, k) \in CutSteps(g, row)
      BY <2>2, <3>1, CutStepsAre
    <3>3. CutStep(g, row, k) \in Planned(o)
      BY <3>2 DEF Planned
    <3>4. t.case = c
      BY <1>3, <3>1, LaidTells
    <3> QED BY <2>1, <3>1, <3>3, <3>4 DEF Of, Described
  <2> QED BY <2>4, <2>5
<1>6. Follows(g, row, items, 0)
  <2>1. From(items, 0) = items
    BY <1>3, FromWindows
  <2>2. RowAfter(row, items, 0) = row
    BY <1>3, RowAfterNothing
  <2>3. row.version <= cases[c].version /\ (row.version = cases[c].version => cases[c] = row)
    BY <1>2 DEF SeenInv
  <2>4. \A m \in MessagesOf(g) : m \in Messages /\ signals[m].case \in {0, c} /\ signals[m].version \in Nat
    <3>1. \A m \in MessagesOf(g) : signals[m] \in Signals
      BY <1>2 DEF Typed
    <3> QED BY <1>2, <3>1 DEF Cuttable, AlreadyLinked, Signals
  <2>5. MessagesIn(items) = Undisplayed(g, row)
    BY <1>2, ItemsAre
  <2>6. \A m \in MessagesOf(g) : m \notin Undisplayed(g, row) <=> Shows(m, g, StateOf(row))
    BY <1>2, <2>4 DEF Undisplayed, Shows
  <2>7. \A i \in items : i[1] = 2 =>
            /\ i[2] \in Undisplayed(g, row) /\ i[2] \in MessagesOf(g)
            /\ i[3] = signals[i[2]].version
    <3>1. \A i \in items : i[1] = 2 => i[2] \in MessagesIn(items)
      BY DEF MessagesIn
    <3> QED BY <1>2, <2>5, <3>1, ItemsAre
  <2>8. \A i \in items : i[1] = 2 =>
            /\ i[3] <= signals[i[2]].version
            /\ signals[i[2]].case \in {0, c} /\ ~Shows(i[2], g, StateOf(row))
    BY <2>4, <2>6, <2>7
  <2>9. row.version + 0 = row.version
    BY <1>3
  <2> HIDE DEF items, row
  <2> QED BY <2>1, <2>2, <2>3, <2>5, <2>6, <2>8, <2>9 DEF Follows
<1> HIDE DEF row, items
<1> QED BY <1>1, <1>3, <1>4, <1>5, <1>6 DEF Traced, row, items

LEMMA CalmTrace ==
    ASSUME IInv, IInv', Grows, Steady, \A p \in Ops : Calm(p), \A p \in Ops : TraceInv(p)
    PROVE  \A p \in Ops : TraceInv(p)'
<1>1. Typed /\ Typed'
  BY Typing DEF IInv
<1>2. \A p \in Ops : OpInv(p)
  BY DEF IInv, OpInv
<1> QED BY <1>1, <1>2, TraceStays

LEMMA QuietTrace ==
    ASSUME IInv, IInv', NEW o \in Ops, Quiet(o), \A p \in Ops : TraceInv(p)
    PROVE  \A p \in Ops : TraceInv(p)'
<1>1. UNCHANGED <<cases, signals>> /\ \A p \in Ops : Calm(p)
  BY QuietCalm
<1>2. Grows /\ Steady
  BY <1>1, Typing, GrowsByStanding DEF IInv, Steady
<1> QED BY <1>1, <1>2, CalmTrace

LEMMA StutterTrace ==
    ASSUME IInv, IInv', UNCHANGED vars, \A p \in Ops : TraceInv(p)
    PROVE  \A p \in Ops : TraceInv(p)'
<1> USE DEF vars, store, worker
<1>1. Grows /\ Steady
  BY Typing, GrowsByStanding DEF IInv, Steady
<1>2. \A p \in Ops : Calm(p)
  <2>1. \A p \in Ops : Committed(p)' = Committed(p)
    BY CommittedByStore
  <2> QED BY <2>1, CalmElsewhere
<1> QED BY <1>1, <1>2, CalmTrace

(* Another writer touches no signal, and a case it moves is not followed    *)
(* any more.                                                                *)
LEMMA MoveCaseGrows ==
    ASSUME IInv, NEW c \in Cases, MoveCase(c)
    PROVE  Grows /\ Steady
<1>1. Typed
  BY Typing DEF IInv
<1>2. PICK state \in {"OPEN", "CLOSED"} :
          /\ cases' = [cases EXCEPT ![c].state = state, ![c].version = @ + 1]
          /\ UNCHANGED signals
  BY DEF MoveCase
<1>3. cases[c] \in Rows /\ cases[c].version \in Nat
  BY <1>1 DEF Typed, Rows
<1>4. /\ cases'[c].version = cases[c].version + 1
      /\ cases'[c].reports = cases[c].reports /\ cases'[c].facts = cases[c].facts
      /\ \A d \in Cases \ {c} : cases'[d] = cases[d]
  BY <1>1, <1>2, <1>3 DEF Typed, Rows
<1>5. Grows
  <2>1. ASSUME NEW d \in Cases
        PROVE  /\ cases[d].version <= cases'[d].version
               /\ cases[d].version = cases'[d].version => cases'[d] = cases[d]
               /\ cases[d].reports \subseteq cases'[d].reports
               /\ cases[d].facts \subseteq cases'[d].facts
    <3>1. cases[d].version \in Nat
      BY <1>1 DEF Typed, Rows
    <3>2. CASE d = c
      BY <1>4, <3>1, <3>2
    <3>3. CASE d # c
      BY <1>4, <3>1, <3>3
    <3> QED BY <3>2, <3>3
  <2>2. \A m \in Messages : signals[m].version <= signals'[m].version /\ signals'[m] = signals[m]
    BY <1>1, <1>2 DEF Typed, Signals
  <2> QED BY <2>1, <2>2 DEF Grows
<1>6. Steady
  BY <1>2 DEF Steady
<1> QED BY <1>5, <1>6

LEMMA MoveCaseTrace ==
    ASSUME IInv, IInv', NEW c \in Cases, MoveCase(c), \A p \in Ops : TraceInv(p)
    PROVE  \A p \in Ops : TraceInv(p)'
<1>1. UNCHANGED <<plan, progress, input, answer, todo, pc>>
  BY DEF MoveCase, worker
<1>2. \A p \in Ops : Committed(p)' = Committed(p)
  BY <1>1, CommittedByStore
<1>3. \A p \in Ops : Calm(p)
  BY <1>1, <1>2, CalmElsewhere
<1> QED BY <1>3, MoveCaseGrows, CalmTrace

(* The step that is committed is the next one of its group. *)

(* What is known of it, *)
Due(g, row, items, n, S, D, d) ==
    /\ row.version \in Nat /\ StepCount(items) \in Nat
    /\ Of(S, CaseOf(g)) = Steps(g, row, items, StepCount(items))
    /\ Of(D, CaseOf(g)) = Steps(g, row, items, n)
    /\ d \in S /\ d \notin D /\ d.case = CaseOf(g)
    /\ \A e \in S : Earlier(e, d) => e \in D

(* ... and what follows. *)
Comes(g, row, items, n, D, d) ==
    /\ d = Laid(g, row, items, n) /\ n < StepCount(items)
    /\ Of(D \union {d}, CaseOf(g)) = Steps(g, row, items, n + 1)

LEMMA AdvancePlace ==
    ASSUME NEW g, NEW row, NEW items, NEW n \in Nat, NEW S, NEW D, NEW d,
           Due(g, row, items, n, S, D, d)
    PROVE  Comes(g, row, items, n, D, d)
<1> USE DEF Due, Comes
<1>1. /\ \A t : t \in Steps(g, row, items, StepCount(items)) <=>
                    \E k \in Nat : k < StepCount(items) /\ t = Laid(g, row, items, k)
      /\ \A t : t \in Steps(g, row, items, n) <=> \E k \in Nat : k < n /\ t = Laid(g, row, items, k)
  <2>1. \A t : t \in Steps(g, row, items, StepCount(items)) <=>
                   \E k \in Nat : k < StepCount(items) /\ t = Laid(g, row, items, k)
    BY StepsAre
  <2>2. \A t : t \in Steps(g, row, items, n) <=> \E k \in Nat : k < n /\ t = Laid(g, row, items, k)
    BY StepsAre
  <2> QED BY <2>1, <2>2
<1>2. \A t : t \in Steps(g, row, items, n + 1) <=> \E k \in Nat : k < n + 1 /\ t = Laid(g, row, items, k)
  <2>1. n + 1 \in Nat
    OBVIOUS
  <2> QED BY <2>1, StepsAre
<1>3. /\ \A k \in Nat : /\ Laid(g, row, items, k).expected = row.version + k
                        /\ Laid(g, row, items, k).case = CaseOf(g)
                        /\ Laid(g, row, items, k).new = (g.target = 0)
      /\ \A k, j \in Nat : Laid(g, row, items, k) = Laid(g, row, items, j) => k = j
  BY LaidTells
<1>4. PICK k \in Nat : k < StepCount(items) /\ d = Laid(g, row, items, k)
  <2>1. d \in Of(S, CaseOf(g))
    BY DEF Of
  <2> QED BY <1>1, <2>1
<1>5. ~(k < n)
  <2> SUFFICES ASSUME k < n PROVE FALSE
    OBVIOUS
  <2>1. d \in Of(D, CaseOf(g))
    BY <1>1, <1>4
  <2> QED BY <2>1 DEF Of
<1>6. ~(n < k)
  <2> SUFFICES ASSUME n < k PROVE FALSE
    OBVIOUS
  <2> DEFINE e == Laid(g, row, items, n)
  <2>1. e \in Of(S, CaseOf(g))
    BY <1>1, <1>4
  <2>2. e.case = d.case /\ e.new = d.new /\ e.expected = row.version + n /\ d.expected = row.version + k
    BY <1>3, <1>4
  <2>3. Earlier(e, d)
    BY <2>2 DEF Earlier, SameGroup
  <2>4. e \in S
    BY <2>1 DEF Of
  <2>5. e \in Of(D, CaseOf(g))
    BY <2>2, <2>3, <2>4 DEF Of
  <2>6. PICK j \in Nat : j < n /\ e = Laid(g, row, items, j)
    BY <1>1, <2>5
  <2> QED BY <1>3, <2>6
<1>7. k = n
  BY <1>5, <1>6
<1>8. \A t : t \in Of(D \union {d}, CaseOf(g)) <=> t \in Of(D, CaseOf(g)) \/ t = d
  BY DEF Of
<1>9. \A j \in Nat : j < n + 1 <=> j < n \/ j = n
  OBVIOUS
<1>10. Of(D \union {d}, CaseOf(g)) = Steps(g, row, items, n + 1)
  <2>1. ASSUME NEW t \in Of(D \union {d}, CaseOf(g)) PROVE t \in Steps(g, row, items, n + 1)
    <3>1. CASE t \in Of(D, CaseOf(g))
      BY <1>1, <1>2, <1>9, <3>1
    <3>2. CASE t = d
      <4>1. n < n + 1
        OBVIOUS
      <4> QED BY <1>2, <1>4, <1>7, <3>2, <4>1
    <3> QED BY <1>8, <3>1, <3>2
  <2>2. ASSUME NEW t \in Steps(g, row, items, n + 1) PROVE t \in Of(D \union {d}, CaseOf(g))
    <3>1. PICK j \in Nat : j < n + 1 /\ t = Laid(g, row, items, j)
      BY <1>2
    <3>2. CASE j < n
      BY <1>1, <1>8, <3>1, <3>2
    <3>3. CASE j = n
      BY <1>4, <1>7, <1>8, <3>1, <3>3
    <3> QED BY <1>9, <3>1, <3>2, <3>3
  <2> QED BY <2>1, <2>2
<1> QED BY <1>4, <1>7, <1>10

(* It writes the items of its window. *)
LEMMA AdvanceItems ==
    ASSUME NEW o \in Ops, NEW a, Validated(a), NEW g \in Addressed(a), NEW row, NEW items,
           Cut(o, g, row, items), NEW n \in Nat, NEW s, s.items \subseteq ItemTypes,
           Content(s) = Content(Laid(g, row, items, n)), FactsIn(s.items) \subseteq g.facts
    PROVE  /\ s.case = CaseOf(g) /\ s.expected = row.version + n
           /\ ReportsIn(s.items) = ReportsIn(Window(items, n))
           /\ MessagesIn(s.items) = MessagesIn(Window(items, n))
           /\ FactsIn(s.items) = FactsIn(Window(items, n))
<1> DEFINE W == Window(items, n)
           w == [case |-> CaseOf(g), new |-> (g.target = 0), expected |-> row.version + n,
                 first |-> TRUE, items |-> W]
<1>1. w.case = CaseOf(g) /\ w.new = (g.target = 0) /\ w.expected = row.version + n /\ w.items = W
  OBVIOUS
<1> HIDE DEF w
<1>2. Content(w) = Content(Laid(g, row, items, n))
  BY <1>1, LaidContent
<1>3. s.case = w.case /\ s.expected = w.expected
  BY <1>2 DEF Content
<1>4. /\ ReportsIn(s.items) = ReportsIn(w.items) /\ MessagesIn(s.items) = MessagesIn(w.items)
      /\ Slots(s.items) = Slots(w.items)
  BY <1>2, ContentItems
<1>5. W \subseteq items /\ W \subseteq ItemTypes
  BY DEF Window, Cut, Countable
<1> HIDE DEF W
<1>6. FactsIn(W) \subseteq g.facts
  <2>1. FactsIn(W) \subseteq FactsIn(items)
    BY <1>5 DEF FactsIn
  <2> QED BY <2>1 DEF Cut, NewFacts
<1>7. \A f, h \in g.facts : f[1] = h[1] => f = h
  <2>1. \A f, h \in g.facts : f[1] = h[1] => f[2] = h[2]
    BY DEF Cut, AmbiguousOrDrifted
  <2>2. \A f \in g.facts : f = <<f[1], f[2]>>
    BY CaseOfAddressed
  <2> QED BY <2>1, <2>2
<1>8. \A X, Y : X \subseteq ItemTypes /\ Slots(X) = Slots(Y)
                /\ FactsIn(X) \subseteq g.facts /\ FactsIn(Y) \subseteq g.facts
                    => FactsIn(X) \subseteq FactsIn(Y)
  <2> SUFFICES ASSUME NEW X, NEW Y, Slots(X) = Slots(Y),
                      FactsIn(X) \subseteq g.facts, FactsIn(Y) \subseteq g.facts,
                      NEW f \in FactsIn(X)
      PROVE  f \in FactsIn(Y)
    OBVIOUS
  <2>1. PICK i \in X : i[1] = 3 /\ f = <<i[2], i[3]>>
    BY DEF FactsIn
  <2>2. i[2] \in Slots(Y)
    BY <2>1 DEF Slots
  <2>3. PICK j \in Y : j[1] = 3 /\ j[2] = i[2]
    BY <2>2 DEF Slots
  <2> DEFINE h == <<j[2], j[3]>>
  <2>4. h \in FactsIn(Y) /\ h[1] = i[2]
    BY <2>3 DEF FactsIn
  <2>5. f[1] = i[2]
    BY <2>1
  <2> HIDE DEF h
  <2>6. f = h
    BY <1>7, <2>4, <2>5
  <2> QED BY <2>4, <2>6
<1>9. FactsIn(s.items) = FactsIn(W)
  <2>1. FactsIn(s.items) \subseteq FactsIn(W)
    BY <1>1, <1>4, <1>5, <1>6, <1>8
  <2>2. FactsIn(W) \subseteq FactsIn(s.items)
    BY <1>1, <1>4, <1>5, <1>6, <1>8
  <2> QED BY <2>1, <2>2
<1> QED BY <1>1, <1>3, <1>4, <1>9 DEF W

(* The store follows the plan one step further. *)
LEMMA AdvanceFollows ==
    ASSUME Typed, NEW o \in Ops, NEW a, Validated(a), NEW g \in Addressed(a), NEW row, NEW items,
           Cut(o, g, row, items), NEW n \in Nat, Follows(g, row, items, n),
           NEW s, s.items \subseteq ItemTypes, Content(s) = Content(Laid(g, row, items, n)),
           FactsIn(s.items) \subseteq g.facts, s.related = Cardinality(MessagesOf(g)),
           CaseHolds(s), Builds(cases[s.case], s), Moves(s)
    PROVE  Follows(g, row, items, n + 1)'
<1> DEFINE c == CaseOf(g)
           W == Window(items, n)
           now == From(items, n)
           next == From(items, n + 1)
           state == StateOf(row)
<1>1. /\ c \in Cases /\ MessagesOf(g) \subseteq Messages
      /\ row.version \in Nat /\ Countable(items)
      /\ MessagesIn(items) \subseteq MessagesOf(g)
  BY CaseOfAddressed DEF Cut, Rows
<1>2. /\ s.case = c /\ s.expected = row.version + n
      /\ ReportsIn(s.items) = ReportsIn(W)
      /\ MessagesIn(s.items) = MessagesIn(W)
      /\ FactsIn(s.items) = FactsIn(W)
  BY AdvanceItems
<1>3. /\ items \ next = (items \ now) \union W /\ W \subseteq now
      /\ next \subseteq now /\ next \intersect W = {}
  BY <1>1, FromWindows
<1>4. now \subseteq items /\ \A i, j \in items : i[1] = j[1] /\ i[2] = j[2] => i = j
  BY <1>1, FromSplits DEF Countable, Distinct
<1>5. cases[c].version = row.version + n
  BY <1>2 DEF CaseHolds
<1>6. /\ cases[c] = RowAfter(row, items, n)
      /\ \A m \in MessagesOf(g) \ MessagesIn(now) : Shows(m, g, state)
  BY <1>5 DEF Follows
<1>7. StateOf(cases[c]) = state
  BY <1>6, RowAfterFacts
<1> HIDE DEF W, now, next, c, state
<1>8. /\ cases[c].reports = row.reports \union ReportsIn(items \ now)
      /\ cases[c].facts = row.facts \union FactsIn(items \ now)
  BY <1>6 DEF RowAfter, now
<1>9. s.row = [version |-> row.version + n + 1, state |-> state,
               reports |-> cases[c].reports \union ReportsIn(s.items),
               facts |-> cases[c].facts \union FactsIn(s.items)]
  BY <1>2, <1>7 DEF Builds
<1>10. /\ ReportsIn(items \ next) = ReportsIn(items \ now) \union ReportsIn(W)
       /\ FactsIn(items \ next) = FactsIn(items \ now) \union FactsIn(W)
  BY <1>3, PartsJoin
<1>11. s.row = RowAfter(row, items, n + 1)
  <2>1. RowAfter(row, items, n + 1) =
            [version |-> row.version + (n + 1), state |-> state,
             reports |-> row.reports \union ReportsIn(items \ next),
             facts |-> row.facts \union FactsIn(items \ next)]
    <3>1. n + 1 # 0
      OBVIOUS
    <3> QED BY <3>1 DEF RowAfter, next, state
  <2>2. row.version + (n + 1) = row.version + n + 1
    BY <1>1
  <2>3. cases[c].reports \union ReportsIn(s.items) = row.reports \union ReportsIn(items \ next)
    BY <1>2, <1>8, <1>10
  <2>4. cases[c].facts \union FactsIn(s.items) = row.facts \union FactsIn(items \ next)
    BY <1>2, <1>8, <1>10
  <2> QED BY <1>9, <2>1, <2>2, <2>3, <2>4
<1>12. cases'[c] = s.row
  BY <1>1, <1>2 DEF Moves, Typed
<1>13. row.version + (n + 1) = cases'[c].version
  BY <1>1, <1>9, <1>12
<1>14. \A m \in Messages : m \in MessagesIn(s.items) => Shows(m, g, state)'
  <2> SUFFICES ASSUME NEW m \in Messages, m \in MessagesIn(s.items)
      PROVE  Shows(m, g, state)'
    OBVIOUS
  <2>1. signals'[m] = [case |-> s.case, state |-> s.row.state, related |-> s.related,
                       version |-> signals[m].version + 1]
    BY DEF Moves
  <2>2. s.row.state = state
    BY <1>9
  <2> QED BY <1>2, <2>1, <2>2 DEF Shows, c
<1>15. \A m \in Messages : m \notin MessagesIn(s.items) => signals'[m] = signals[m]
  BY DEF Moves
<1>16. ASSUME NEW m \in MessagesOf(g) \ MessagesIn(next) PROVE Shows(m, g, state)'
  <2>1. m \in Messages
    BY <1>1
  <2>2. CASE m \in MessagesIn(s.items)
    BY <1>14, <2>1, <2>2
  <2>3. CASE m \notin MessagesIn(s.items)
    <3>1. m \notin MessagesIn(W)
      BY <1>2, <2>3
    <3>2. m \notin MessagesIn(now)
      <4>1. now \subseteq next \union W
        BY <1>3, <1>4
      <4> QED BY <1>16, <3>1, <4>1 DEF MessagesIn
    <3>3. Shows(m, g, state)
      BY <1>6, <3>2
    <3> QED BY <1>15, <2>1, <2>3, <3>3 DEF Shows
  <2> QED BY <2>2, <2>3
<1>17. ASSUME NEW i \in next, i[1] = 2
       PROVE  /\ i[3] <= signals'[i[2]].version
              /\ i[3] = signals'[i[2]].version => /\ signals'[i[2]].case \in {0, c}
                                                  /\ ~Shows(i[2], g, state)'
  <2>1. i \in now /\ i \in items /\ i \notin W
    BY <1>3, <1>4
  <2>2. i[2] \in MessagesIn(items)
    BY <1>17, <2>1 DEF MessagesIn
  <2>3. i[2] \notin MessagesIn(W)
    <3> SUFFICES ASSUME i[2] \in MessagesIn(W) PROVE FALSE
      OBVIOUS
    <3>1. PICK j \in W : j[1] = 2 /\ j[2] = i[2]
      BY DEF MessagesIn
    <3>2. j \in items
      BY <1>3, <1>4
    <3>3. i = j
      BY <1>4, <1>17, <2>1, <3>1, <3>2
    <3> QED BY <2>1, <3>3
  <2>4. signals'[i[2]] = signals[i[2]]
    BY <1>1, <1>2, <1>15, <2>2, <2>3
  <2>5. /\ i[3] <= signals[i[2]].version
        /\ i[3] = signals[i[2]].version => /\ signals[i[2]].case \in {0, c}
                                           /\ ~Shows(i[2], g, state)
    BY <1>17, <2>1 DEF Follows, now, c, state
  <2>6. Shows(i[2], g, state)' <=> Shows(i[2], g, state)
    BY <2>4 DEF Shows
  <2> QED BY <2>4, <2>5, <2>6
<1>18. row.version + (n + 1) <= cases'[c].version
  <2>1. row.version + (n + 1) \in Nat
    BY <1>1
  <2> QED BY <1>13, <2>1
<1> QED BY <1>11, <1>12, <1>16, <1>17, <1>18 DEF Follows, c, next, state

LEMMA Advance ==
    ASSUME Typed, NEW o \in Ops, NEW a, Validated(a), NEW g \in Addressed(a),
           NEW S, NEW D, Traced(o, g, S, D), input'[o] = input[o],
           NEW d, d \in S, d \notin D, \A e \in S : Earlier(e, d) => e \in D,
           NEW s, s.items \subseteq ItemTypes, Content(s) = Content(d), s.case = CaseOf(g),
           FactsIn(s.items) \subseteq g.facts, s.related = Cardinality(MessagesOf(g)),
           CaseHolds(s), Builds(cases[s.case], s), Moves(s)
    PROVE  Traced(o, g, S, D \union {d})'
<1>1. PICK row, items : \E n \in Nat :
          /\ Cut(o, g, row, items)
          /\ n <= StepCount(items)
          /\ Of(S, CaseOf(g)) = Steps(g, row, items, StepCount(items))
          /\ Of(D, CaseOf(g)) = Steps(g, row, items, n)
          /\ Follows(g, row, items, n)
  BY DEF Traced
<1>2. PICK n \in Nat :
          /\ Cut(o, g, row, items)
          /\ n <= StepCount(items)
          /\ Of(S, CaseOf(g)) = Steps(g, row, items, StepCount(items))
          /\ Of(D, CaseOf(g)) = Steps(g, row, items, n)
          /\ Follows(g, row, items, n)
  BY <1>1
<1>3. row.version \in Nat /\ StepCount(items) \in Nat
  <2>1. row.version \in Nat /\ items \subseteq ItemTypes /\ IsFiniteSet(items)
    BY <1>2 DEF Cut, Rows, Countable
  <2> QED BY <2>1, WindowsAre
<1>4. d.case = CaseOf(g)
  BY DEF Content
<1>5. /\ d = Laid(g, row, items, n) /\ n < StepCount(items)
      /\ Of(D \union {d}, CaseOf(g)) = Steps(g, row, items, n + 1)
  <2>1. Of(S, CaseOf(g)) = Steps(g, row, items, StepCount(items))
    BY <1>2
  <2>2. Of(D, CaseOf(g)) = Steps(g, row, items, n)
    BY <1>2
  <2>3. \A e \in S : Earlier(e, d) => e \in D
    OBVIOUS
  <2>4. Due(g, row, items, n, S, D, d)
    BY <1>3, <1>4, <2>1, <2>2, <2>3 DEF Due
  <2>5. Comes(g, row, items, n, D, d)
    BY <2>4, AdvancePlace
  <2> QED BY <2>5 DEF Comes
<1>6. Follows(g, row, items, n + 1)'
  BY <1>2, <1>5, AdvanceFollows
<1>7. n + 1 \in Nat /\ n + 1 <= StepCount(items)
  BY <1>3, <1>5
<1>8. Cut(o, g, row, items)'
  BY <1>2 DEF Cut
<1> QED BY <1>2, <1>5, <1>6, <1>7, <1>8 DEF Traced

-----------------------------------------------------------------------------
(* The steps that plan, freeze and commit keep the trace.                   *)

LEMMA DeriveTrace ==
    ASSUME IInv, IInv', NEW o \in Ops, Derive(o), \A p \in Ops : TraceInv(p)
    PROVE  \A p \in Ops : TraceInv(p)'
<1>1. TypeOK /\ Typed /\ Typed' /\ \A p \in Ops : OpInv(p)
  BY Typing DEF IInv, OpInv
<1>2. /\ pc[o] = "derive"
      /\ (/\ ~Denied(o) /\ todo' = [todo EXCEPT ![o] = Planned(o)]
          /\ Goto(o, IF plan[o].frozen THEN "prove" ELSE "freeze"))
         \/ (Goto(o, IF plan[o].frozen THEN "settle" ELSE "refuse") /\ UNCHANGED todo)
      /\ UNCHANGED <<cases, signals, plan, progress, input, answer>>
  BY DEF Derive, store
<1>3. /\ pc'[o] \in {"prove", "freeze", "settle", "refuse"}
      /\ pc'[o] = "freeze" => ~plan[o].frozen
      /\ pc'[o] \in {"prove", "freeze"} => ~Denied(o) /\ todo' = [todo EXCEPT ![o] = Planned(o)]
      /\ \A p \in Ops \ {o} : pc'[p] = pc[p]
  <2>1. "prove" \in Places /\ "freeze" \in Places /\ "settle" \in Places /\ "refuse" \in Places
    BY DEF Places
  <2>2. CASE /\ ~Denied(o) /\ todo' = [todo EXCEPT ![o] = Planned(o)]
             /\ Goto(o, IF plan[o].frozen THEN "prove" ELSE "freeze")
    BY <1>1, <2>1, <2>2, GotoTypes
  <2>3. CASE Goto(o, IF plan[o].frozen THEN "settle" ELSE "refuse")
    BY <1>1, <2>1, <2>3, GotoTypes
  <2> QED BY <1>2, <2>2, <2>3
<1>4. /\ \A p \in Ops \ {o} : todo'[p] = todo[p]
      /\ pc'[o] \in {"prove", "freeze"} => todo'[o] = Planned(o)
  <2>1. DOMAIN todo = Ops
    BY <1>1 DEF TypeOK
  <2> QED BY <1>2, <1>3, <2>1
<1>5. Grows /\ Steady /\ \A p \in Ops : Committed(p)' = Committed(p)
  BY <1>1, <1>2, GrowsByStanding, CommittedByStore DEF Steady
<1>6. \A p \in Ops \ {o} : TraceInv(p)'
  <2>1. \A p \in Ops \ {o} : Calm(p)
    BY <1>2, <1>3, <1>4, <1>5, CalmElsewhere
  <2> QED BY <1>1, <1>5, <2>1, TraceStays
<1>7. FrozenTrace(o)'
  BY <1>1, <1>2, <1>5, FrozenStays DEF TraceInv
<1>8. Validated(answer[o]) /\ SeenInv(o) /\ SoundPlan(plan[o]) /\ (~plan[o].frozen => progress[o] = 0)
  BY <1>1, <1>2 DEF OpInv, WorkInv, Reading, PlanInv
<1>9. ASSUME pc'[o] \in {"prove", "freeze"}
      PROVE  Sourced(answer'[o], todo'[o]) /\ Attributed(answer'[o], todo'[o])
  <2>1. Sourced(answer[o], Planned(o)) /\ Attributed(answer[o], Planned(o))
    BY <1>1, <1>2, <1>3, <1>8, <1>9, PlannedSourced
  <2>2. answer'[o] = answer[o] /\ todo'[o] = Planned(o)
    BY <1>2, <1>4, <1>9
  <2> QED BY <2>1, <2>2
<1>10. PlannedTrace(o)'
  <2> SUFFICES ASSUME pc'[o] = "freeze", ~Rivals(answer'[o]), NEW g \in Addressed(answer[o])
      PROVE  Traced(o, g, Described(todo[o]), {})'
    BY <1>2, <1>9 DEF PlannedTrace
  <2>1. Traced(o, g, Described(Planned(o)), {})
    BY <1>1, <1>2, <1>3, <1>8, PlannedTraced DEF TypeOK
  <2>2. PICK T : T = Described(Planned(o))
    OBVIOUS
  <2>3. Traced(o, g, T, {})'
    <3>1. Traced(o, g, T, {}) /\ input'[o] = input[o]
      BY <1>2, <2>1, <2>2
    <3> QED BY <1>1, <1>5, <1>8, <3>1, TracedStays
  <2>4. Described(todo[o])' = T
    BY <1>4, <2>2 DEF Described
  <2> QED BY <2>3, <2>4 DEF Traced
<1>11. TraceInv(o)'
  BY <1>3, <1>7, <1>9, <1>10 DEF TraceInv
<1> QED BY <1>6, <1>11

LEMMA FreezePlanTrace ==
    ASSUME IInv, IInv', NEW o \in Ops, FreezePlan(o), \A p \in Ops : TraceInv(p)
    PROVE  \A p \in Ops : TraceInv(p)'
<1>1. TypeOK /\ Typed /\ Typed' /\ \A p \in Ops : OpInv(p)
  BY Typing DEF IInv, OpInv
<1> DEFINE new == [answer |-> answer[o], frozen |-> TRUE,
                   steps  |-> {Describe(s) : s \in todo[o]}]
<1>2. /\ pc[o] = "freeze"
      /\ (plan' = plan /\ Goto(o, "settle"))
         \/ (plan' = [plan EXCEPT ![o] = new] /\ (Goto(o, "settle") \/ Goto(o, "prove")))
      /\ UNCHANGED <<cases, signals, progress, input, answer, todo>>
  BY DEF FreezePlan, store, worker
<1> HIDE DEF new
<1>3. /\ pc'[o] \in {"settle", "prove"} /\ \A p \in Ops \ {o} : pc'[p] = pc[p]
      /\ Goto(o, "settle") => pc'[o] = "settle"
  <2>1. "settle" \in Places /\ "prove" \in Places
    BY DEF Places
  <2> QED BY <1>1, <1>2, <2>1, GotoTypes
<1>4. Grows /\ Steady
  BY <1>1, <1>2, GrowsByStanding DEF Steady
<1>5. CASE plan' = plan /\ Goto(o, "settle")
  <2>1. \A p \in Ops : Committed(p)' = Committed(p)
    BY <1>2, <1>5, CommittedByStore
  <2>2. \A p \in Ops : Calm(p)
    BY <1>2, <1>3, <1>5, <2>1, CalmSteps
  <2> QED BY <1>4, <2>2, CalmTrace
<1>6. CASE plan' = [plan EXCEPT ![o] = new]
  <2>1. plan'[o] = new /\ \A p \in Ops \ {o} : plan'[p] = plan[p]
    BY <1>1, <1>6 DEF TypeOK
  <2>2. \A p \in Ops \ {o} : TraceInv(p)'
    <3>1. \A p \in Ops \ {o} : Committed(p)' = Committed(p)
      BY <1>2, <2>1, CommittedStays
    <3>2. \A p \in Ops \ {o} : Calm(p)
      BY <1>2, <1>3, <2>1, <3>1, CalmElsewhere
    <3> QED BY <1>1, <1>4, <3>2, TraceStays
  <2>3. ~plan[o].frozen /\ progress[o] = 0 /\ Validated(answer[o])
    BY <1>1, <1>2 DEF OpInv, PlaceInv, PlanInv, WorkInv, Reading
  <2>4. new.answer = answer[o] /\ new.steps = Described(todo[o])
    BY DEF new, Described
  <2>5. Committed(o)' = {}
    <3>1. SoundPlan(plan[o])'
      BY DEF IInv, PlanInv
    <3>2. Ordered(plan'[o].steps)
      <4>1. plan'[o].steps \subseteq FrozenTypes /\ IsFiniteSet(plan'[o].steps) /\ Keyed(plan'[o].steps)
        BY <3>1 DEF SoundPlan, Keyed, FrozenTypes
      <4> QED BY <4>1, CaseAssumption DEF Ordered, FrozenTypes
    <3>3. Prefix(plan'[o].steps, 0) = {}
      BY <3>2, PrefixEnds
    <3>4. progress'[o] = 0
      BY <1>2, <2>3
    <3> QED BY <3>3, <3>4 DEF Committed, Prefix, Position
  <2>6. ASSUME ~Rivals(answer[o])
        PROVE  /\ Attributed(answer[o], Described(todo[o]))
               /\ \A g \in Addressed(answer[o]) : Traced(o, g, plan[o].steps, Committed(o))'
    <3>1. /\ Attributed(answer[o], todo[o])
          /\ \A g \in Addressed(answer[o]) : Traced(o, g, Described(todo[o]), {})
      BY <1>2, <2>6 DEF TraceInv, PlannedTrace
    <3>2. Attributed(answer[o], Described(todo[o]))
      <4>1. \A s \in todo[o] : Describe(s).case = s.case
        BY DEF Describe
      <4> QED BY <3>1, <4>1 DEF Attributed, Described
    <3>3. ASSUME NEW g \in Addressed(answer[o]) PROVE Traced(o, g, plan[o].steps, Committed(o))'
      <4>1. PICK T : T = Described(todo[o])
        OBVIOUS
      <4>2. Traced(o, g, T, {})'
        <5>1. Traced(o, g, T, {}) /\ input'[o] = input[o]
          BY <1>2, <3>1, <4>1
        <5> QED BY <1>1, <1>4, <2>3, <5>1, TracedStays
      <4>3. plan'[o].steps = T
        BY <2>1, <2>4, <4>1
      <4> QED BY <2>5, <4>2, <4>3 DEF Traced
    <3> QED BY <3>2, <3>3
  <2>7. FrozenTrace(o)'
    <3>1. plan'[o].answer = answer[o] /\ plan'[o].steps = Described(todo[o])
      BY <2>1, <2>4
    <3> HIDE DEF new
    <3> QED BY <2>6, <3>1 DEF FrozenTrace
  <2>8. Sourced(answer[o], todo[o])
    BY <1>2 DEF TraceInv
  <2>9. TraceInv(o)'
    BY <1>2, <1>3, <2>7, <2>8 DEF TraceInv, PlannedTrace
  <2> QED BY <2>2, <2>9
<1> QED BY <1>2, <1>5, <1>6

LEMMA MovesSteady ==
    ASSUME Typed, NEW steps, Signalled(steps), NEW s \in steps, SignalsHold(s), Moves(s),
           cases'[s.case].version = cases[s.case].version + 1, cases[s.case].version \in Nat
    PROVE  Steady
<1> SUFFICES ASSUME NEW m \in Messages, signals[m].case # 0,
                    cases'[signals[m].case].version = cases[signals[m].case].version
             PROVE  signals'[m] = signals[m]
  BY DEF Steady
<1>1. CASE m \in MessagesIn(s.items)
  <2>1. PICK i \in s.items : i[1] = 2 /\ i[2] = m
    BY <1>1 DEF MessagesIn
  <2>2. i[3] = signals[m].version
    BY <2>1 DEF SignalsHold
  <2>3. signals[m].case \in {0, s.case}
    BY <2>1, <2>2 DEF Signalled
  <2>4. signals[m].case = s.case
    BY <2>3
  <2>5. cases'[s.case].version = cases[s.case].version
    BY <2>4
  <2> QED BY <2>5
<1>2. CASE m \notin MessagesIn(s.items)
  BY <1>2 DEF Moves
<1> QED BY <1>1, <1>2

LEMMA AppliedTrace ==
    ASSUME IInv, IInv', NEW o \in Ops, pc[o] = "commit", todo[o] # {},
           Applicable(o, First(todo[o])), Apply(o, First(todo[o])),
           (todo' = [todo EXCEPT ![o] = @ \ {First(todo[o])}] /\ UNCHANGED pc)
              \/ (Goto(o, "release") /\ UNCHANGED todo),
           UNCHANGED <<input, plan, answer>>,
           \A p \in Ops : TraceInv(p)
    PROVE  \A p \in Ops : TraceInv(p)'
<1> DEFINE s == First(todo[o])
           d == Frozen(o, s)
           done == Prefix(plan[o].steps, progress[o])
<1>1. TypeOK /\ Typed /\ Typed' /\ \A p \in Ops : OpInv(p)
  BY Typing DEF IInv, OpInv
<1>2. /\ s \in todo[o] /\ Leads(s, todo[o])
      /\ d \in plan[o].steps /\ Content(s) = Content(d)
      /\ progress[o] \in Nat /\ Number(o) = progress[o] + 1
      /\ d \notin done /\ Prefix(plan[o].steps, progress[o] + 1) = done \union {d}
      /\ \A e \in plan[o].steps : Earlier(e, d) => e \in done
  BY NextStep
<1>3. /\ Validated(answer[o]) /\ Owed(answer[o], todo[o])
      /\ plan[o].frozen /\ answer[o] = plan[o].answer
  BY <1>1 DEF OpInv, WorkInv, PlaceInv, Reading
<1>4. /\ CaseHolds(s) /\ SignalsHold(s) /\ Moves(s)
      /\ progress' = [progress EXCEPT ![o] = Number(o)]
  BY DEF Applicable, Apply, Moves, MessagesIn
<1> HIDE DEF s, d, done
<1>5. /\ Grows /\ s.case \in Cases /\ Builds(cases[s.case], s)
      /\ cases'[s.case] = s.row /\ s.row.version = cases[s.case].version + 1
  BY <1>2, <1>3, <1>4, StepGrows
<1>6. Steady
  <2>1. cases[s.case].version \in Nat
    BY <1>1, <1>5 DEF Typed, Rows
  <2>2. cases'[s.case].version = cases[s.case].version + 1
    BY <1>5
  <2> QED BY <1>1, <1>2, <1>3, <1>4, <2>1, <2>2, MovesSteady DEF Owed
<1>7. progress'[o] = progress[o] + 1 /\ \A p \in Ops \ {o} : progress'[p] = progress[p]
  <2>1. progress \in [Ops -> Nat]
    BY <1>1 DEF TypeOK
  <2> QED BY <1>2, <1>4, <2>1
<1>8. pc'[o] \in {"commit", "release"} /\ \A p \in Ops \ {o} : pc'[p] = pc[p]
  <2>1. CASE UNCHANGED pc
    BY <2>1
  <2>2. CASE Goto(o, "release")
    BY <1>1, <2>2, GotoTypes DEF Places
  <2> QED BY <2>1, <2>2
<1>9. /\ \A p \in Ops \ {o} : todo'[p] = todo[p]
      /\ todo'[o] \subseteq todo[o]
  <2>1. CASE todo' = [todo EXCEPT ![o] = @ \ {s}]
    BY <1>1, <2>1 DEF TypeOK
  <2>2. CASE UNCHANGED todo
    BY <2>2
  <2> QED BY <2>1, <2>2 DEF s
<1>10. done = Committed(o) /\ Committed(o)' = done \union {d}
       /\ \A p \in Ops \ {o} : Committed(p)' = Committed(p)
  BY <1>2, <1>7 DEF Committed, Prefix, Position, done
<1>11. \A p \in Ops \ {o} : TraceInv(p)'
  <2>1. \A p \in Ops \ {o} : Calm(p)
    BY <1>8, <1>9, <1>10, CalmElsewhere
  <2> QED BY <1>1, <1>5, <1>6, <2>1, TraceStays
<1>12. Sourced(answer[o], todo[o])
  BY DEF TraceInv
<1>13. ASSUME ~Rivals(plan[o].answer), NEW g \in Addressed(plan[o].answer)
       PROVE  Traced(o, g, plan[o].steps, Committed(o))'
  <2>1. PICK S : S = plan[o].steps
    OBVIOUS
  <2>2. PICK D : D = done
    OBVIOUS
  <2>3. PICK e : e = d
    OBVIOUS
  <2>4. PICK t : t = s
    OBVIOUS
  <2>5. Traced(o, g, S, D) /\ Validated(answer[o]) /\ g \in Addressed(answer[o])
    BY <1>3, <1>10, <1>13, <2>1, <2>2 DEF TraceInv, FrozenTrace
  <2>6. plan'[o].steps = S /\ Committed(o)' = D \union {e}
    BY <1>10, <2>1, <2>2, <2>3
  <2>7. /\ e \in S /\ e \notin D /\ (\A x \in S : Earlier(x, e) => x \in D)
        /\ Content(t) = Content(e)
    BY <1>2, <2>1, <2>2, <2>3, <2>4
  <2>8. PICK h \in Addressed(answer[o]) :
            /\ t.case = CaseOf(h) /\ t.related = Cardinality(MessagesOf(h))
            /\ FactsIn(t.items) \subseteq h.facts
    BY <1>2, <1>12, <2>4 DEF Sourced
  <2>9. Traced(o, g, S, D \union {e})'
    <3>1. CASE t.case = CaseOf(g)
      <4>1. h = g
        BY <1>3, <1>13, <2>5, <2>8, <3>1 DEF Rivals
      <4>2. t.items \subseteq ItemTypes
        BY <1>2, <1>3, <2>4 DEF Owed, StepTypes
      <4>3. CaseHolds(t) /\ Builds(cases[t.case], t) /\ Moves(t)
        BY <1>4, <1>5, <2>4
      <4> QED BY <1>1, <2>5, <2>7, <2>8, <3>1, <4>1, <4>2, <4>3, Advance
    <3>2. CASE t.case # CaseOf(g)
      <4>1. Traced(o, g, S, D)'
        BY <1>1, <1>5, <1>6, <2>5, TracedStays
      <4>2. e.case = t.case
        BY <2>7 DEF Content
      <4>3. Of(D \union {e}, CaseOf(g)) = Of(D, CaseOf(g))
        BY <3>2, <4>2 DEF Of
      <4> QED BY <4>1, <4>3 DEF Traced
    <3> QED BY <3>1, <3>2
  <2> QED BY <2>6, <2>9 DEF Traced
<1>14. FrozenTrace(o)'
  <2>1. ~Rivals(plan[o].answer) => Attributed(plan[o].answer, plan[o].steps)
    BY <1>3 DEF TraceInv, FrozenTrace
  <2> QED BY <1>13, <2>1 DEF FrozenTrace
<1>15. TraceInv(o)'
  <2>1. PlannedTrace(o)'
    BY <1>8 DEF PlannedTrace
  <2>2. Sourced(answer'[o], todo'[o])
    BY <1>9, <1>12 DEF Sourced
  <2> QED BY <1>14, <2>1, <2>2 DEF TraceInv
<1> QED BY <1>11, <1>15

LEMMA CommitTrace ==
    ASSUME IInv, IInv', NEW o \in Ops, CommitStep(o), \A p \in Ops : TraceInv(p)
    PROVE  \A p \in Ops : TraceInv(p)'
<1>1. CASE Applicable(o, First(todo[o])) /\ Apply(o, First(todo[o]))
  BY <1>1, AppliedTrace DEF CommitStep
<1>2. CASE Goto(o, "release") /\ UNCHANGED <<store, todo>>
  <2>1. TypeOK /\ Typed
    BY Typing DEF IInv
  <2>2. UNCHANGED <<cases, signals, plan, progress, input, answer, todo>>
    BY <1>2 DEF CommitStep, store
  <2>3. pc'[o] = "release" /\ \A p \in Ops \ {o} : pc'[p] = pc[p]
    BY <1>2, <2>1, GotoTypes DEF Places
  <2>4. \A p \in Ops : Committed(p)' = Committed(p)
    BY <2>2, CommittedByStore
  <2>5. \A p \in Ops : Calm(p)
    BY <2>2, <2>3, <2>4, CalmSteps
  <2>6. Grows /\ Steady
    BY <2>1, <2>2, GrowsByStanding DEF Steady
  <2> QED BY <2>5, <2>6, CalmTrace
<1> QED BY <1>1, <1>2 DEF CommitStep

LEMMA TraceInit == ASSUME Init PROVE \A p \in Ops : TraceInv(p)
BY DEF Init, TraceInv, FrozenTrace, PlannedTrace, NoPlan

LEMMA TraceNext ==
    ASSUME IInv, \A p \in Ops : TraceInv(p), [Next]_vars
    PROVE  \A p \in Ops : TraceInv(p)'
<1>1. IInv'
  BY NextHolds
<1>2. CASE UNCHANGED vars
  BY <1>1, <1>2, StutterTrace
<1>3. ASSUME NEW o \in Ops, Quiet(o) PROVE \A p \in Ops : TraceInv(p)'
  BY <1>1, <1>3, QuietTrace
<1>4. ASSUME NEW o \in Ops, Derive(o) PROVE \A p \in Ops : TraceInv(p)'
  BY <1>1, <1>4, DeriveTrace
<1>5. ASSUME NEW o \in Ops, FreezePlan(o) PROVE \A p \in Ops : TraceInv(p)'
  BY <1>1, <1>5, FreezePlanTrace
<1>6. ASSUME NEW o \in Ops, CommitStep(o) PROVE \A p \in Ops : TraceInv(p)'
  BY <1>1, <1>6, CommitTrace
<1>7. ASSUME NEW c \in Cases, MoveCase(c) PROVE \A p \in Ops : TraceInv(p)'
  BY <1>1, <1>7, MoveCaseTrace
<1>8. ASSUME NEW o \in Ops, \/ Claim(o) \/ Work(o) \/ ReadFails(o) \/ Crash(o)
                            \/ Age(o) \/ Visit(o) \/ Abandon(o)
      PROVE  Quiet(o) \/ Derive(o) \/ FreezePlan(o) \/ CommitStep(o)
  BY <1>8 DEF Work, Quiet
<1> QED BY <1>2, <1>3, <1>4, <1>5, <1>6, <1>7, <1>8 DEF Next

(* An operation's own committed steps never stand in its way: unless        *)
(* another writer moved a case or a signal it names, or two of its groups   *)
(* are rivals, a resumed operation passes the gates again and derives the   *)
(* tail of what it froze, exactly.                                          *)
(* Code: _rebind_expected_versions, _cut_steps, ApplyStepDescriptor.content.*)
THEOREM OwnWorkStands == Spec => []OwnWorkIsNoConflict
<1> DEFINE Traces == \A p \in Ops : TraceInv(p)
<1>1. Init => IInv /\ Traces
  BY InitHolds, TraceInit
<1>2. (IInv /\ Traces) /\ [Next]_vars => (IInv /\ Traces)'
  BY NextHolds, TraceNext
<1>3. IInv /\ Traces => OwnWorkIsNoConflict
  BY TraceTells DEF OwnWorkIsNoConflict
<1> QED BY <1>1, <1>2, <1>3, PTL DEF Spec

LEMMA GrowsNext ==
    ASSUME IInv, [Next]_vars
    PROVE  Grows
<1>1. Typed
  BY Typing DEF IInv
<1>2. CASE UNCHANGED <<cases, signals>>
  BY <1>1, <1>2, GrowsByStanding
<1>3. ASSUME NEW o \in Ops, CommitStep(o) PROVE Grows
  <2>1. CASE Applicable(o, First(todo[o])) /\ Apply(o, First(todo[o]))
    <3> DEFINE s == First(todo[o])
    <3>1. pc[o] = "commit" /\ todo[o] # {}
      BY <1>3 DEF CommitStep
    <3>2. s \in todo[o] /\ Leads(s, todo[o])
      BY <3>1, NextStep
    <3>3. Owed(answer[o], todo[o])
      BY <3>1 DEF IInv, WorkInv
    <3>4. CaseHolds(s) /\ SignalsHold(s) /\ Moves(s)
      BY <2>1 DEF Applicable, Apply, Moves, MessagesIn
    <3> HIDE DEF s
    <3> QED BY <3>2, <3>3, <3>4, StepGrows
  <2>2. CASE UNCHANGED store
    BY <1>2, <2>2 DEF store
  <2> QED BY <1>3, <2>1, <2>2 DEF CommitStep
<1>4. ASSUME NEW c \in Cases, MoveCase(c) PROVE Grows
  BY <1>4, MoveCaseGrows
<1>5. ASSUME NEW o \in Ops, Quiet(o) PROVE Grows
  BY <1>2, <1>5, QuietCalm
<1>6. ASSUME NEW o \in Ops, Derive(o) \/ FreezePlan(o) PROVE UNCHANGED <<cases, signals>>
  BY <1>6 DEF Derive, FreezePlan, store
<1>7. ASSUME NEW o \in Ops, \/ Claim(o) \/ Work(o) \/ ReadFails(o) \/ Crash(o)
                            \/ Age(o) \/ Visit(o) \/ Abandon(o)
      PROVE  Quiet(o) \/ Derive(o) \/ FreezePlan(o) \/ CommitStep(o)
  BY <1>7 DEF Work, Quiet
<1>8. UNCHANGED vars => UNCHANGED <<cases, signals>>
  BY DEF vars, store
<1> QED BY <1>2, <1>3, <1>4, <1>5, <1>6, <1>7, <1>8 DEF Next

(* Whoever writes, a case never loses a report or a fact, never changes     *)
(* under the version it had, and a message shown for a case is never shown  *)
(* for another.                                                             *)
(* Code: _commit_step, under the versions the step expects, and             *)
(* _plan_signal_decisions.                                                  *)
THEOREM StoreOnlyGrows == Spec => [][Grows]_vars
<1>1. IInv /\ [Next]_vars => Grows
  BY GrowsNext
<1> QED BY <1>1, MonitorInductive, PTL DEF Spec
=============================================================================
