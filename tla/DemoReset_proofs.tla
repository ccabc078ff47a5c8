-------------------------- MODULE DemoReset_proofs --------------------------
(***************************************************************************)
(* Proofs about DemoReset, for any cases, actions, operations, resets and  *)
(* interruptions.                                                          *)
(***************************************************************************)
EXTENDS DemoReset, TLAPS

(* Whoever is under way holds the lock, and has looked at the receipt under *)
(* it before it resolves anything.                                          *)
LockInv ==
    \A r \in Resets : /\ pc[r] \in Running \union {"release"} => lock = r
                      /\ pc[r] \in (Running \ {"recheck"}) => ~Replays(r)

(* The roots of a case are registered together, or are the manifest's.      *)
Rooted(c) == c = DemoCase \/ Registration(c) \subseteq marked

(* An operation of the world that stands is registered.                     *)
BegunInv ==
    \A o \in Operations : began[o] = world => <<"OPERATION", o>> \in marked

(* What an inventory finds by its roots and by the chains of its cases is   *)
(* all there is, but for what a fault or a late worker left.                *)
RootInv ==
    /\ \A c \in Cases : <<"CASE", c>> \in marked => Rooted(c)
    /\ \A c \in Cases, kind \in {"CASE", "ACTION_CURRENT"} :
           Stands(<<kind, c>>) => written[<<kind, c>>] = world /\ Rooted(c)
    /\ \A c \in Cases :
           Stands(<<"AUDIT", c>>)
               => faults > 0 \/ (written[<<"AUDIT", c>>] = world /\ Rooted(c))
    /\ Stands(Seed) => written[Seed] = world
    /\ \A o \in Operations :
           Stands(<<"OPERATION", o>>)
               => \/ began[o] < written[<<"OPERATION", o>>]
                  \/ written[<<"OPERATION", o>>] = world /\ <<"OPERATION", o>> \in marked
    /\ BegunInv

ChainInv ==
    /\ \A c \in Cases : \A a \in chain[c] : /\ caseOf[a] = c /\ execution[a] # "NONE"
                                            /\ Stands(<<"ACTION_CURRENT", c>>)
    /\ \A a \in Actions :
           /\ Stands(<<"ACTION", a>>) => written[<<"ACTION", a>>] = world /\ a \in chain[caseOf[a]]
           /\ Stands(<<"OUTBOUND", a>>) => execution[a] = "SENT"

Purging == lock # None /\ pc[lock] = "purge"

(* Until a reset is interrupted, executions and their locators are found by *)
(* the chains.                                                              *)
SendInv ==
    faults = 0 =>
      \A a \in Actions :
        /\ Stands(<<"EXECUTION", a>>) => written[<<"EXECUTION", a>>] = world
        /\ Stands(<<"OUTBOUND", a>>) => written[<<"OUTBOUND", a>>] = world
        /\ ~Purging => /\ Stands(<<"EXECUTION", a>>) => a \in chain[caseOf[a]]
                       /\ Stands(<<"OUTBOUND", a>>) => Stands(<<"EXECUTION", a>>)

(* What a reset resolved is what it will have to purge.                     *)
Captured(r) ==
    /\ Roots \subseteq targets[r]
    /\ \A a \in Actions : a \in chain[caseOf[a]]
                              => <<"ACTION", a>> \in targets[r] /\ <<"EXECUTION", a>> \in targets[r]
    /\ faults = 0 => \A a \in Actions, kind \in {"EXECUTION", "OUTBOUND"} :
                         Stands(<<kind, a>>) => <<kind, a>> \in targets[r]

Emptied(r) ==
    /\ Roots \subseteq targets[r]
    /\ \A p \in targets[r] : Stands(p) => p = Seed /\ pc[r] = "clear"
    /\ pc[r] # "reseed" => \A o \in Operations : began[o] # world

Sound(r) ==
    /\ pc[r] \in {"guard", "purge"} => Captured(r)
    /\ pc[r] = "purge" => ~InFlight(targets[r])
    /\ pc[r] \in {"reseed", "seed", "clear"} => Emptied(r)

ResetInv == \A r \in Resets : Sound(r)

IInv == TypeOK /\ LockInv /\ RootInv /\ ChainInv /\ SendInv /\ ResetInv /\ InFlightKeepsItsRecord

(* The partitions by kind.                                                  *)
LEMMA Kinds ==
    /\ Seed \in Partitions
    /\ \A c \in Cases, kind \in {"CASE", "AUDIT", "ACTION_CURRENT"} : <<kind, c>> \in Partitions
    /\ \A a \in Actions, kind \in {"ACTION", "EXECUTION", "OUTBOUND"} : <<kind, a>> \in Partitions
    /\ \A o \in Operations : <<"OPERATION", o>> \in Partitions
    /\ \A p \in Partitions :
          \/ p = Seed
          \/ \E c \in Cases, kind \in {"CASE", "AUDIT", "ACTION_CURRENT"} : p = <<kind, c>>
          \/ \E a \in Actions, kind \in {"ACTION", "EXECUTION", "OUTBOUND"} : p = <<kind, a>>
          \/ \E o \in Operations : p = <<"OPERATION", o>>
BY DEF Partitions, CaseWorld, ActionWorld, OperationRows

LEMMA InitOK == ASSUME Init PROVE IInv
<1>1. TypeOK
  <2>1. 0 \in 0 .. MaxFaults /\ 1 \in 0 .. 1 /\ 0 \in 0 .. 1
    BY ResetAssumption
  <2>2. written \in [Partitions -> 0 .. 1] /\ began \in [Operations -> 0 .. 1]
        /\ receipt \in [Keys -> 0 .. 1]
    BY <2>1 DEF Init
  <2> QED BY <2>1, <2>2, ResetAssumption DEF Init, TypeOK
<1>2. LockInv /\ ResetInv
  BY DEF Init, LockInv, ResetInv, Sound, Running, Destructive
<1>3. \A p \in Partitions : Stands(p) => p = Seed /\ written[p] = 1
  BY DEF Init, Stands
<1>4. RootInv
  <2>1. BegunInv
    BY DEF Init, BegunInv
  <2> QED BY <1>3, <2>1, Kinds DEF Init, RootInv, Seed
<1>5. ChainInv /\ SendInv
  BY <1>3, Kinds DEF Init, ChainInv, SendInv, Seed
<1>6. InFlightKeepsItsRecord
  BY DEF Init, InFlightKeepsItsRecord, Unsettled
<1> QED BY <1>1, <1>2, <1>4, <1>5, <1>6 DEF IInv

-----------------------------------------------------------------------------
(* The demo in use: no reset is under way.                                  *)

LEMMA Idle ==
    ASSUME IInv, Unlocked, InUse
    PROVE  LockInv' /\ ResetInv'
<1>1. \A r \in Resets : pc[r] \notin Running
  BY ResetAssumption DEF IInv, LockInv, Unlocked
<1>2. \A r \in Resets : pc'[r] \notin {"guard", "purge", "reseed", "seed", "clear"}
  BY <1>1 DEF InUse, Running, Destructive
<1>3. ResetInv'
  BY <1>2 DEF ResetInv, Sound
<1>4. LockInv'
  BY DEF IInv, LockInv, InUse, Replays
<1> QED BY <1>3, <1>4

(* A set of partitions is written in the world that stands.                 *)
LEMMA Writing ==
    ASSUME TypeOK, NEW ps, Write(ps), world' = world
    PROVE  /\ written' \in [Partitions -> 0 .. world']
           /\ \A p \in Partitions : p \in ps => Stands(p)' /\ written'[p] = world'
           /\ \A p \in Partitions : p \notin ps => written'[p] = written[p] /\ Stands(p)' = Stands(p)
<1>1. world \in 0 .. world /\ world # 0
  BY DEF TypeOK
<1> QED BY <1>1 DEF TypeOK, Write, Stands

(* Normal writes keep what is found by its roots, if what they write has    *)
(* roots.                                                                   *)
LEMMA RootsKept ==
    ASSUME TypeOK, RootInv, NEW ps, Write(ps), UNCHANGED <<world, faults>>,
           marked \subseteq marked',
           \A c \in Cases : <<"CASE", c>> \in marked' => Rooted(c)',
           \A c \in Cases, kind \in {"CASE", "ACTION_CURRENT"} : <<kind, c>> \in ps => Rooted(c)',
           \A c \in Cases : <<"AUDIT", c>> \in ps => faults > 0 \/ Rooted(c)',
           BegunInv', began' \in [Operations -> 0 .. world],
           \A o \in Operations : <<"OPERATION", o>> \in ps \/ began'[o] = began[o]
    PROVE  RootInv'
<1>1. /\ \A p \in Partitions : p \in ps => Stands(p)' /\ written'[p] = world'
      /\ \A p \in Partitions : p \notin ps => written'[p] = written[p] /\ Stands(p)' = Stands(p)
  BY Writing
<1>2. \A c \in Cases : Rooted(c) => Rooted(c)'
  BY DEF Rooted
<1>3. \A c \in Cases, kind \in {"CASE", "ACTION_CURRENT"} :
          Stands(<<kind, c>>)' => written'[<<kind, c>>] = world' /\ Rooted(c)'
  BY <1>1, <1>2, Kinds DEF RootInv
<1>4. \A c \in Cases :
          Stands(<<"AUDIT", c>>)'
              => faults' > 0 \/ (written'[<<"AUDIT", c>>] = world' /\ Rooted(c)')
  BY <1>1, <1>2, Kinds DEF RootInv
<1>5. Stands(Seed)' => written'[Seed] = world'
  BY <1>1, Kinds DEF RootInv
<1>6. ASSUME NEW o \in Operations, Stands(<<"OPERATION", o>>)'
      PROVE  \/ began'[o] < written'[<<"OPERATION", o>>]
             \/ written'[<<"OPERATION", o>>] = world' /\ <<"OPERATION", o>> \in marked'
  <2>1. CASE <<"OPERATION", o>> \in ps
    <3>1. written'[<<"OPERATION", o>>] = world /\ world' = world
      BY <1>1, <2>1, Kinds
    <3>2. CASE began'[o] = world
      BY <3>1, <3>2 DEF BegunInv
    <3>3. CASE began'[o] # world
      BY <3>1, <3>3 DEF TypeOK
    <3> QED BY <3>2, <3>3
  <2>2. CASE <<"OPERATION", o>> \notin ps
    <3>1. /\ Stands(<<"OPERATION", o>>) /\ written'[<<"OPERATION", o>>] = written[<<"OPERATION", o>>]
          /\ began'[o] = began[o]
      BY <1>1, <1>6, <2>2, Kinds
    <3> QED BY <3>1 DEF RootInv
  <2> QED BY <2>1, <2>2
<1> QED BY <1>3, <1>4, <1>5, <1>6 DEF RootInv

LEMMA Begun ==
    ASSUME RootInv, UNCHANGED <<began, world>>, marked \subseteq marked'
    PROVE  BegunInv'
BY DEF RootInv, BegunInv

LEMMA StartOperationOK ==
    ASSUME IInv, NEW o \in Operations, StartOperation(o)
    PROVE  IInv'
<1> DEFINE ps == {<<"OPERATION", o>>}
<1>1. /\ Write(ps) /\ Unlocked /\ InUse /\ world' = world
      /\ began' = [began EXCEPT ![o] = world] /\ marked' = marked \union ps
      /\ UNCHANGED <<chain, execution, caseOf, proposed, request, faults, lock, pc>>
  BY DEF StartOperation, InUse
<1>2. LockInv' /\ ResetInv'
  BY <1>1, Idle
<1>3. /\ written' \in [Partitions -> 0 .. world']
      /\ \A p \in Partitions : p \in ps => Stands(p)' /\ written'[p] = world'
      /\ \A p \in Partitions : p \notin ps => written'[p] = written[p] /\ Stands(p)' = Stands(p)
  BY <1>1, Writing DEF IInv
<1>4. began' \in [Operations -> 0 .. world]
  BY <1>1 DEF IInv, TypeOK
<1>5. TypeOK'
  <2>1. marked' \subseteq Partitions
    BY <1>1, Kinds DEF IInv, TypeOK
  <2> QED BY <1>1, <1>3, <1>4, <2>1 DEF IInv, TypeOK, InUse
<1>6. RootInv'
  <2>1. \A c \in Cases : <<"CASE", c>> \in marked' => Rooted(c)'
    BY <1>1 DEF IInv, RootInv, Rooted
  <2>2. BegunInv' /\ \A u \in Operations : <<"OPERATION", u>> \in ps \/ began'[u] = began[u]
    BY <1>1, <1>4 DEF IInv, TypeOK, RootInv, BegunInv
  <2> QED BY <1>1, <1>4, <2>1, <2>2, RootsKept DEF IInv
<1>7. ChainInv' /\ SendInv' /\ InFlightKeepsItsRecord'
  BY <1>1, <1>3, Kinds DEF IInv, ChainInv, SendInv, InFlightKeepsItsRecord, Purging
<1> QED BY <1>2, <1>5, <1>6, <1>7 DEF IInv

LEMMA ApplyMonitorStepOK ==
    ASSUME IInv, NEW o \in Operations, NEW c \in Cases, ApplyMonitorStep(o, c)
    PROVE  IInv'
<1> DEFINE ps == {<<"OPERATION", o>>, <<"CASE", c>>, <<"AUDIT", c>>}
<1>1. /\ Write(ps) /\ Unlocked /\ InUse /\ marked' = marked \union Registration(c)
      /\ UNCHANGED <<chain, execution, caseOf, proposed, began, request, world, faults, lock, pc>>
  BY DEF ApplyMonitorStep, InUse
<1>2. LockInv' /\ ResetInv'
  BY <1>1, Idle
<1>3. /\ written' \in [Partitions -> 0 .. world']
      /\ \A p \in Partitions : p \in ps => Stands(p)' /\ written'[p] = world'
      /\ \A p \in Partitions : p \notin ps => written'[p] = written[p] /\ Stands(p)' = Stands(p)
  BY <1>1, Writing DEF IInv
<1>4. TypeOK'
  <2>1. marked' \subseteq Partitions
    <3>1. Registration(c) \subseteq Partitions
      BY DEF Registration, Partitions, CaseWorld
    <3> QED BY <1>1, <3>1 DEF IInv, TypeOK
  <2> QED BY <1>1, <1>3, <2>1 DEF IInv, TypeOK, InUse
<1>5. RootInv'
  <2>1. Rooted(c)' /\ \A d \in Cases : Rooted(d) => Rooted(d)'
    BY <1>1 DEF Rooted, Registration
  <2>2. \A d \in Cases : <<"CASE", d>> \in marked' => Rooted(d)'
    BY <1>1, <2>1 DEF IInv, RootInv, Registration
  <2>3. \A d \in Cases, kind \in {"CASE", "AUDIT", "ACTION_CURRENT"} : <<kind, d>> \in ps => Rooted(d)'
    BY <2>1
  <2>4. BegunInv' /\ began' \in [Operations -> 0 .. world]
    BY <1>1, Begun DEF IInv, TypeOK
  <2> QED BY <1>1, <2>2, <2>3, <2>4, RootsKept DEF IInv
<1>6. ChainInv' /\ SendInv' /\ InFlightKeepsItsRecord'
  BY <1>1, <1>3, Kinds DEF IInv, ChainInv, SendInv, InFlightKeepsItsRecord, Purging
<1> QED BY <1>2, <1>4, <1>5, <1>6 DEF IInv

LEMMA ProposeActionOK ==
    ASSUME IInv, NEW a \in Actions, NEW c \in Cases, ProposeAction(a, c)
    PROVE  IInv'
<1> DEFINE ps == {<<"ACTION", a>>, <<"EXECUTION", a>>, <<"ACTION_CURRENT", c>>, <<"AUDIT", c>>}
<1>1. /\ Write(ps) /\ Unlocked /\ InUse /\ execution[a] = "NONE" /\ Stands(<<"CASE", c>>)
      /\ chain' = [chain EXCEPT ![c] = @ \union {a}] /\ caseOf' = [caseOf EXCEPT ![a] = c]
      /\ proposed' = proposed \union {c} /\ execution' = [execution EXCEPT ![a] = "OPEN"]
      /\ UNCHANGED <<marked, began, request, world, faults, lock, pc>>
  BY DEF ProposeAction, InUse
<1>2. LockInv' /\ ResetInv'
  BY <1>1, Idle
<1>3. /\ written' \in [Partitions -> 0 .. world']
      /\ \A p \in Partitions : p \in ps => Stands(p)' /\ written'[p] = world'
      /\ \A p \in Partitions : p \notin ps => written'[p] = written[p] /\ Stands(p)' = Stands(p)
  BY <1>1, Writing DEF IInv
<1>4. TypeOK'
  <2>1. /\ chain' \in [Cases -> SUBSET Actions] /\ caseOf' \in [Actions -> Cases]
        /\ execution' \in [Actions -> {"NONE", "OPEN", "SENDING", "SENT", "FAILED"}]
    BY <1>1 DEF IInv, TypeOK
  <2> QED BY <1>1, <1>3, <2>1 DEF IInv, TypeOK, InUse
<1>5. RootInv'
  <2>1. Rooted(c)' /\ \A d \in Cases : Rooted(d)' = Rooted(d)
    BY <1>1 DEF IInv, RootInv, Rooted
  <2>2. \A d \in Cases : <<"CASE", d>> \in marked' => Rooted(d)'
    BY <1>1, <2>1 DEF IInv, RootInv
  <2>3. \A d \in Cases, kind \in {"CASE", "AUDIT", "ACTION_CURRENT"} : <<kind, d>> \in ps => Rooted(d)'
    BY <2>1
  <2>4. BegunInv' /\ began' \in [Operations -> 0 .. world]
    BY <1>1, Begun DEF IInv, TypeOK
  <2> QED BY <1>1, <2>2, <2>3, <2>4, RootsKept DEF IInv
<1>6. /\ caseOf'[a] = c /\ execution'[a] = "OPEN" /\ chain'[c] = chain[c] \union {a}
      /\ \A d \in Cases : d # c => chain'[d] = chain[d]
      /\ \A b \in Actions : b # a => caseOf'[b] = caseOf[b] /\ execution'[b] = execution[b]
      /\ caseOf \in [Actions -> Cases] /\ chain \in [Cases -> SUBSET Actions]
  BY <1>1 DEF IInv, TypeOK
<1>7. /\ \A d \in Cases : \A b \in chain'[d] :
              /\ caseOf'[b] = d /\ execution'[b] # "NONE"
              /\ Stands(<<"ACTION_CURRENT", d>>)'
      /\ \A b \in Actions :
              /\ Stands(<<"ACTION", b>>)'
                   => written'[<<"ACTION", b>>] = world' /\ b \in chain'[caseOf'[b]]
              /\ Stands(<<"OUTBOUND", b>>)' => execution'[b] = "SENT"
  <2>1. ASSUME NEW d \in Cases, NEW b \in chain'[d]
        PROVE  caseOf'[b] = d /\ execution'[b] # "NONE"
    <3>1. CASE b \in chain[d]
      <4>1. b \in Actions /\ caseOf[b] = d /\ execution[b] # "NONE"
        BY <1>6, <3>1 DEF IInv, ChainInv
      <4> QED BY <1>1, <1>6, <4>1
    <3>2. CASE b = a /\ d = c
      BY <1>6, <3>2
    <3> QED BY <1>6, <3>1, <3>2
  <2>2. ASSUME NEW d \in Cases, NEW b \in chain'[d]
        PROVE  Stands(<<"ACTION_CURRENT", d>>)'
    BY <1>3, <1>6, <2>2, Kinds DEF IInv, ChainInv
  <2>3. ASSUME NEW b \in Actions, b # a, Stands(<<"ACTION", b>>)'
        PROVE  written'[<<"ACTION", b>>] = world' /\ b \in chain'[caseOf'[b]]
    <3>1. written[<<"ACTION", b>>] = world /\ b \in chain[caseOf[b]]
          /\ written'[<<"ACTION", b>>] = written[<<"ACTION", b>>]
      BY <1>3, <2>3, Kinds DEF IInv, ChainInv
    <3> QED BY <1>1, <1>6, <3>1
  <2>4. written'[<<"ACTION", a>>] = world' /\ a \in chain'[caseOf'[a]]
    BY <1>3, <1>6, Kinds
  <2>5. ASSUME NEW b \in Actions, Stands(<<"OUTBOUND", b>>)'
        PROVE  execution'[b] = "SENT"
    <3>1. execution[b] = "SENT"
      BY <1>3, <2>5, Kinds DEF IInv, ChainInv
    <3> QED BY <1>1, <1>6, <3>1
  <2> QED BY <2>1, <2>2, <2>3, <2>4, <2>5
<1>8. ChainInv'
  BY <1>7 DEF ChainInv
<1>9. SendInv'
  <2>1. ASSUME NEW b \in Actions, b # a, faults = 0
        PROVE  /\ Stands(<<"EXECUTION", b>>)'
                    => written'[<<"EXECUTION", b>>] = world' /\ b \in chain'[caseOf'[b]]
               /\ Stands(<<"OUTBOUND", b>>)'
                    => written'[<<"OUTBOUND", b>>] = world' /\ Stands(<<"EXECUTION", b>>)'
    <3>1. /\ written'[<<"EXECUTION", b>>] = written[<<"EXECUTION", b>>]
          /\ Stands(<<"EXECUTION", b>>)' = Stands(<<"EXECUTION", b>>)
          /\ written'[<<"OUTBOUND", b>>] = written[<<"OUTBOUND", b>>]
          /\ Stands(<<"OUTBOUND", b>>)' = Stands(<<"OUTBOUND", b>>)
      BY <1>3, <2>1, Kinds
    <3>2. ~Purging
      BY <1>1 DEF Purging, Unlocked
    <3>3. b \in chain[caseOf[b]] => b \in chain'[caseOf'[b]]
      BY <1>6, <2>1
    <3> QED BY <1>1, <2>1, <3>1, <3>2, <3>3 DEF IInv, SendInv
  <2>2. written'[<<"EXECUTION", a>>] = world' /\ Stands(<<"EXECUTION", a>>)'
    BY <1>3, Kinds
  <2>3. ~Stands(<<"OUTBOUND", a>>)' /\ a \in chain'[caseOf'[a]]
    BY <1>6, <1>7
  <2> QED BY <1>1, <2>1, <2>2, <2>3 DEF SendInv
<1>10. InFlightKeepsItsRecord'
  <2>1. \A b \in Actions : execution'[b] = Unsettled => Stands(<<"EXECUTION", b>>)'
    BY <1>3, <1>6, Kinds DEF IInv, InFlightKeepsItsRecord, Unsettled
  <2>2. \A d \in Cases : request'[d] = "ASKED" => Stands(<<"CASE", d>>)'
    BY <1>1, <1>3, Kinds DEF IInv, InFlightKeepsItsRecord
  <2> QED BY <2>1, <2>2 DEF InFlightKeepsItsRecord
<1> QED BY <1>2, <1>4, <1>5, <1>8, <1>9, <1>10 DEF IInv

(* A step of a send that leaves the chains alone.                           *)
LEMMA SendMoves ==
    ASSUME IInv, Unlocked, InUse, NEW a \in Actions, NEW s \in {"SENDING", "SENT", "FAILED"},
           Stands(<<"EXECUTION", a>>), execution[a] \in {"OPEN", "SENDING"},
           Write({<<"EXECUTION", a>>, <<"AUDIT", caseOf[a]>>}),
           execution' = [execution EXCEPT ![a] = s],
           UNCHANGED <<chain, marked, caseOf, proposed, began, request>>
    PROVE  IInv'
<1> DEFINE ps == {<<"EXECUTION", a>>, <<"AUDIT", caseOf[a]>>}
<1>1. UNCHANGED <<world, faults, lock, pc>> /\ Write(ps)
  BY DEF InUse
<1> HIDE DEF ps
<1>2. LockInv' /\ ResetInv'
  BY Idle
<1>3. /\ written' \in [Partitions -> 0 .. world']
      /\ \A p \in Partitions : p \in ps => Stands(p)' /\ written'[p] = world'
      /\ \A p \in Partitions : p \notin ps => written'[p] = written[p] /\ Stands(p)' = Stands(p)
  BY <1>1, Writing DEF IInv
<1>4. execution' \in [Actions -> {"NONE", "OPEN", "SENDING", "SENT", "FAILED"}]
      /\ execution'[a] = s /\ \A b \in Actions : b # a => execution'[b] = execution[b]
  BY DEF IInv, TypeOK
<1>5. TypeOK'
  BY <1>1, <1>3, <1>4 DEF IInv, TypeOK, InUse
<1>6. ~Stands(<<"OUTBOUND", a>>) /\ ~Purging
  BY DEF IInv, ChainInv, Purging, Unlocked
<1>7. faults = 0 => a \in chain[caseOf[a]] /\ Rooted(caseOf[a])
  <2>1. faults = 0 => a \in chain[caseOf[a]]
    BY <1>6 DEF IInv, SendInv
  <2>2. caseOf[a] \in Cases
    BY DEF IInv, TypeOK
  <2> QED BY <2>1, <2>2 DEF IInv, ChainInv, RootInv
<1>8. RootInv'
  <2>1. BegunInv' /\ began' \in [Operations -> 0 .. world]
    BY <1>1, Begun DEF IInv, TypeOK
  <2>2. \A c \in Cases : Rooted(c)' = Rooted(c)
    BY DEF Rooted
  <2>3. \A c \in Cases : <<"AUDIT", c>> \in ps => faults > 0 \/ Rooted(c)'
    BY <1>7, <2>2 DEF ps, IInv, TypeOK
  <2>4. \A c \in Cases, kind \in {"CASE", "ACTION_CURRENT"} : <<kind, c>> \notin ps
    BY DEF ps
  <2>5. \A c \in Cases : <<"CASE", c>> \in marked' => Rooted(c)'
    BY <2>2 DEF IInv, RootInv
  <2> QED BY <1>1, <2>1, <2>3, <2>4, <2>5, RootsKept DEF IInv
<1>9. ChainInv'
  <2>1. \A c \in Cases : <<"ACTION_CURRENT", c>> \notin ps
    BY DEF ps
  <2>2. \A b \in Actions : <<"ACTION", b>> \notin ps /\ <<"OUTBOUND", b>> \notin ps
    BY DEF ps
  <2>3. ASSUME NEW c \in Cases, NEW b \in chain'[c]
        PROVE  caseOf'[b] = c /\ execution'[b] # "NONE" /\ Stands(<<"ACTION_CURRENT", c>>)'
    <3>1. b \in Actions /\ b \in chain[c]
      BY <2>3 DEF IInv, TypeOK
    <3> QED BY <1>3, <1>4, <2>1, <3>1, Kinds DEF IInv, ChainInv
  <2>4. ASSUME NEW b \in Actions
        PROVE  /\ Stands(<<"ACTION", b>>)'
                    => written'[<<"ACTION", b>>] = world' /\ b \in chain'[caseOf'[b]]
               /\ Stands(<<"OUTBOUND", b>>)' => execution'[b] = "SENT"
    <3>1. /\ Stands(<<"OUTBOUND", b>>)' => Stands(<<"OUTBOUND", b>>)
          /\ Stands(<<"ACTION", b>>)' => Stands(<<"ACTION", b>>)
          /\ written'[<<"ACTION", b>>] = written[<<"ACTION", b>>]
      BY <1>3, <2>2, Kinds
    <3>2. Stands(<<"OUTBOUND", b>>) => b # a /\ execution[b] = "SENT"
      BY <1>6 DEF IInv, ChainInv
    <3> QED BY <1>1, <1>4, <3>1, <3>2 DEF IInv, ChainInv
  <2> QED BY <2>3, <2>4 DEF ChainInv
<1>10. SendInv'
  <2>1. \A b \in Actions : <<"OUTBOUND", b>> \notin ps /\ (b # a => <<"EXECUTION", b>> \notin ps)
    BY DEF ps
  <2>2. <<"EXECUTION", a>> \in ps
    BY DEF ps
  <2> QED BY <1>1, <1>3, <1>6, <1>7, <2>1, <2>2, Kinds DEF IInv, SendInv
<1>11. InFlightKeepsItsRecord'
  <2>1. \A b \in Actions : b # a => <<"EXECUTION", b>> \notin ps
    BY DEF ps
  <2>2. <<"EXECUTION", a>> \in ps /\ \A c \in Cases : <<"CASE", c>> \notin ps
    BY DEF ps
  <2> QED BY <1>3, <1>4, <2>1, <2>2, Kinds DEF IInv, InFlightKeepsItsRecord
<1> QED BY <1>2, <1>5, <1>8, <1>9, <1>10, <1>11 DEF IInv

LEMMA SendOK ==
    ASSUME IInv, NEW a \in Actions, BeginSend(a) \/ RecordSend(a)
    PROVE  IInv'
<1>1. PICK s \in {"SENDING", "SENT", "FAILED"} : execution' = [execution EXCEPT ![a] = s]
  BY DEF BeginSend, RecordSend
<1>2. /\ Unlocked /\ InUse /\ Stands(<<"EXECUTION", a>>) /\ execution[a] \in {"OPEN", "SENDING"}
      /\ Write({<<"EXECUTION", a>>, <<"AUDIT", caseOf[a]>>})
      /\ UNCHANGED <<chain, marked, caseOf, proposed, began, request>>
  BY DEF BeginSend, RecordSend
<1> QED BY <1>1, <1>2, SendMoves

LEMMA ProjectActionOutcomeOK ==
    ASSUME IInv, NEW a \in Actions, ProjectActionOutcome(a)
    PROVE  IInv'
<1> DEFINE ps == {<<"OUTBOUND", a>>, <<"CASE", caseOf[a]>>, <<"AUDIT", caseOf[a]>>,
                  <<"EXECUTION", a>>}
<1>1. /\ Write(ps) /\ Unlocked /\ InUse /\ execution[a] = "SENT" /\ Stands(<<"EXECUTION", a>>)
      /\ Stands(<<"CASE", caseOf[a]>>) /\ proposed' = proposed \ {caseOf[a]}
      /\ UNCHANGED <<chain, marked, execution, caseOf, began, request, world, faults, lock, pc>>
  BY DEF ProjectActionOutcome, InUse
<1> HIDE DEF ps
<1>2. LockInv' /\ ResetInv'
  BY <1>1, Idle
<1>3. /\ written' \in [Partitions -> 0 .. world']
      /\ \A p \in Partitions : p \in ps => Stands(p)' /\ written'[p] = world'
      /\ \A p \in Partitions : p \notin ps => written'[p] = written[p] /\ Stands(p)' = Stands(p)
  BY <1>1, Writing DEF IInv
<1>4. TypeOK'
  BY <1>1, <1>3 DEF IInv, TypeOK, InUse
<1>5. ~Purging
  BY <1>1 DEF Purging, Unlocked
<1>6. RootInv'
  <2>1. BegunInv' /\ began' \in [Operations -> 0 .. world]
    BY <1>1, Begun DEF IInv, TypeOK
  <2>2. \A c \in Cases : Rooted(c)' = Rooted(c)
    BY <1>1 DEF Rooted
  <2>3. Rooted(caseOf[a])
    BY <1>1 DEF IInv, TypeOK, RootInv
  <2>4. \A c \in Cases, kind \in {"CASE", "AUDIT", "ACTION_CURRENT"} : <<kind, c>> \in ps => Rooted(c)'
    BY <2>2, <2>3 DEF ps, IInv, TypeOK
  <2>5. \A c \in Cases : <<"CASE", c>> \in marked' => Rooted(c)'
    BY <1>1, <2>2 DEF IInv, RootInv
  <2> QED BY <1>1, <2>1, <2>4, <2>5, RootsKept DEF IInv
<1>7. ChainInv'
  <2>1. \A c \in Cases : <<"ACTION_CURRENT", c>> \notin ps
    BY DEF ps
  <2>2. \A b \in Actions : <<"ACTION", b>> \notin ps /\ (b # a => <<"OUTBOUND", b>> \notin ps)
    BY DEF ps
  <2> QED BY <1>1, <1>3, <2>1, <2>2, Kinds DEF IInv, ChainInv
<1>8. SendInv'
  <2>1. \A b \in Actions : b # a => <<"OUTBOUND", b>> \notin ps /\ <<"EXECUTION", b>> \notin ps
    BY DEF ps
  <2>2. <<"EXECUTION", a>> \in ps /\ <<"OUTBOUND", a>> \in ps
    BY DEF ps
  <2> QED BY <1>1, <1>3, <1>5, <2>1, <2>2, Kinds DEF IInv, SendInv
<1>9. InFlightKeepsItsRecord'
  BY <1>1, <1>3, Kinds DEF IInv, InFlightKeepsItsRecord
<1> QED BY <1>2, <1>4, <1>6, <1>7, <1>8, <1>9 DEF IInv

LEMMA SideEffectOK ==
    ASSUME IInv, NEW c \in Cases,
           BeginSideEffect(c) \/ SideEffectHappens(c) \/ CompleteSideEffect(c)
    PROVE  IInv'
<1>1. PICK q \in {"NONE", "ASKED", "MADE"} :
        /\ request' = [request EXCEPT ![c] = q]
        /\ q = "ASKED" => Stands(<<"CASE", c>>)
  BY DEF BeginSideEffect, SideEffectHappens, CompleteSideEffect
<1>2. /\ UNCHANGED <<written, chain, marked, execution, caseOf, proposed, began>>
      /\ UNCHANGED <<world, lock, receipt, pc, targets, faults>>
      /\ lock = None \/ request[c] # "NONE"
  BY DEF BeginSideEffect, SideEffectHappens, CompleteSideEffect, InUse, Unlocked
<1>3. TypeOK'
  BY <1>1, <1>2 DEF IInv, TypeOK
<1>4. LockInv' /\ RootInv' /\ ChainInv' /\ SendInv'
  BY <1>2 DEF IInv, LockInv, Replays, RootInv, BegunInv, Rooted, Stands, ChainInv, SendInv, Purging
<1>5. ASSUME NEW r \in Resets PROVE Sound(r)'
  <2>1. Captured(r) = Captured(r)' /\ Emptied(r) = Emptied(r)'
    BY <1>2 DEF Captured, Emptied, Roots, Stands
  <2>2. ASSUME pc[r] = "purge", ~InFlight(targets[r])
        PROVE  ~InFlight(targets[r])'
    <3>1. lock = r
      BY <2>2 DEF IInv, LockInv, Running, Destructive
    <3>2. <<"CASE", c>> \notin targets[r]
      BY <1>2, <2>2, <3>1, ResetAssumption DEF InFlight
    <3> QED BY <1>1, <1>2, <2>2, <3>2 DEF IInv, TypeOK, InFlight, Stands
  <2> QED BY <1>2, <2>1, <2>2 DEF IInv, ResetInv, Sound
<1>6. ResetInv'
  BY <1>5 DEF ResetInv
<1>7. InFlightKeepsItsRecord'
  BY <1>1, <1>2 DEF IInv, TypeOK, InFlightKeepsItsRecord, Stands
<1> QED BY <1>3, <1>4, <1>6, <1>7 DEF IInv

-----------------------------------------------------------------------------
(* The resets.                                                              *)

(* There is one under way at a time.                                        *)
LEMMA Alone ==
    ASSUME IInv, NEW r \in Resets, pc[r] \in Running \union {"release"}
    PROVE  /\ lock = r
           /\ \A q \in Resets : q # r => pc[q] \notin Running \union {"release"}
BY DEF IInv, LockInv

LEMMA Underway ==
    ASSUME IInv, NEW r \in Resets, pc[r] \in Running \union {"release"}, NEW s,
           pc' = [pc EXCEPT ![r] = s], Sound(r)',
           s \in Running \union {"release"} => lock' = r,
           s \in Running \ {"recheck"} => ~Replays(r)'
    PROVE  LockInv' /\ ResetInv'
<1>1. pc'[r] = s
  BY DEF IInv, TypeOK
<1>2. ASSUME NEW q \in Resets, q # r
      PROVE  pc'[q] \notin Running \union {"release"}
  BY <1>2, Alone DEF IInv, TypeOK
<1>3. LockInv'
  BY <1>1, <1>2 DEF LockInv
<1>4. \A q \in Resets : q # r => Sound(q)'
  BY <1>2 DEF Sound, Running, Destructive
<1> QED BY <1>3, <1>4 DEF ResetInv

LEMMA DemoKept ==
    ASSUME IInv, UNCHANGED <<demo, world>>, faults > 0 => faults' > 0
    PROVE  RootInv' /\ ChainInv' /\ InFlightKeepsItsRecord'
<1>1. UNCHANGED <<written, chain, marked, execution, caseOf, proposed, began, request>>
  BY DEF demo
<1>2. RootInv'
  BY <1>1 DEF IInv, RootInv, BegunInv, Rooted, Stands
<1> QED BY <1>1, <1>2 DEF IInv, ChainInv, Stands, InFlightKeepsItsRecord

LEMMA SendsKept ==
    ASSUME IInv, UNCHANGED <<demo, world>>,
           faults' > 0 \/ (faults' = faults /\ (Purging => Purging'))
    PROVE  SendInv'
<1>1. UNCHANGED <<written, chain, marked, execution, caseOf, proposed, began, request>>
  BY DEF demo
<1>2. CASE faults' > 0
  <2>1. faults' # 0
    BY <1>2
  <2> QED BY <2>1 DEF SendInv
<1>3. CASE faults' = faults /\ (Purging => Purging')
  <2>1. \A p : Stands(p)' = Stands(p)
    BY <1>1 DEF Stands
  <2> QED BY <1>1, <1>3, <2>1 DEF IInv, SendInv
<1> QED BY <1>2, <1>3

(* Before the lock.                                                         *)
LEMMA ArriveOK ==
    ASSUME IInv, NEW r \in Resets, ReadReceipt(r) \/ Contended(r)
    PROVE  IInv'
<1>1. PICK s \in {"done", "acquire", "failed"} : pc' = [pc EXCEPT ![r] = s]
  BY DEF ReadReceipt, Contended, Go
<1>2. pc[r] \in {"idle", "acquire"} /\ UNCHANGED <<demo, world, lock, receipt, targets, faults>>
  BY DEF ReadReceipt, Contended
<1>3. UNCHANGED <<written, chain, marked, execution, caseOf, proposed, began, request>>
  BY <1>2 DEF demo
<1>4. TypeOK'
  BY <1>1, <1>2, <1>3 DEF IInv, TypeOK
<1>5. pc'[r] = s /\ \A q \in Resets : q # r => pc'[q] = pc[q]
  BY <1>1 DEF IInv, TypeOK
<1>6. LockInv'
  BY <1>2, <1>5 DEF IInv, LockInv, Running, Destructive, Replays
<1>7. ASSUME NEW q \in Resets PROVE Sound(q)'
  <2>1. CASE q = r
    BY <1>5, <2>1 DEF Sound
  <2>2. CASE q # r
    <3>1. Captured(q)' = Captured(q) /\ InFlight(targets[q])' = InFlight(targets[q])
      BY <1>2, <1>3 DEF Captured, Roots, Stands, InFlight
    <3>2. Emptied(q) => Emptied(q)'
      BY <1>2, <1>3, <1>5, <2>2 DEF Emptied, Roots, Stands
    <3> QED BY <1>5, <2>2, <3>1, <3>2 DEF IInv, ResetInv, Sound
  <2> QED BY <2>1, <2>2
<1>8. Purging => Purging'
  BY <1>2, <1>5 DEF IInv, TypeOK, Purging
<1>9. RootInv' /\ ChainInv' /\ InFlightKeepsItsRecord' /\ SendInv'
  BY <1>2, <1>8, DemoKept, SendsKept
<1> QED BY <1>4, <1>6, <1>7, <1>9 DEF IInv, ResetInv

LEMMA AcquireOK ==
    ASSUME IInv, NEW r \in Resets, Acquire(r)
    PROVE  IInv'
<1>1. /\ pc[r] = "acquire" /\ pc' = [pc EXCEPT ![r] = "recheck"] /\ lock' = r
      /\ lock = None \/ pc[lock] = "lost"
      /\ UNCHANGED <<demo, world, receipt, targets, faults>>
  BY DEF Acquire, Acquirable, Expired, Go
<1>2. TypeOK'
  BY <1>1 DEF demo, IInv, TypeOK
<1>3. pc'[r] = "recheck" /\ \A q \in Resets : q # r => pc'[q] = pc[q]
  BY <1>1 DEF IInv, TypeOK
<1>4. \A q \in Resets : pc[q] \notin Running \union {"release"}
  BY <1>1, ResetAssumption DEF IInv, LockInv, Running, Destructive
<1>5. LockInv' /\ ResetInv'
  BY <1>1, <1>3, <1>4 DEF LockInv, ResetInv, Sound, Running, Destructive
<1>6. ~Purging
  BY <1>1 DEF Purging
<1>7. RootInv' /\ ChainInv' /\ InFlightKeepsItsRecord' /\ SendInv'
  BY <1>1, <1>6, DemoKept, SendsKept
<1> QED BY <1>2, <1>5, <1>7 DEF IInv

(* Leaving, with the lock given back or left standing.                      *)
LEMMA Leaves ==
    ASSUME IInv, NEW r \in Resets, pc[r] \in Running \union {"release"},
           NEW s \in {"done", "failed", "lost"}, pc' = [pc EXCEPT ![r] = s],
           lock' \in {None, lock}, faults' \in 0 .. MaxFaults,
           faults' > 0 \/ (faults' = faults /\ pc[r] # "purge"),
           UNCHANGED <<demo, world, receipt, targets>>
    PROVE  IInv'
<1>1. TypeOK'
  BY DEF demo, IInv, TypeOK
<1>2. Sound(r)'
  BY DEF IInv, TypeOK, Sound
<1>3. LockInv' /\ ResetInv'
  BY <1>2, Underway DEF Running, Destructive
<1>4. pc[r] # "purge" => ~Purging
  BY Alone DEF Purging
<1>5. RootInv' /\ ChainInv' /\ InFlightKeepsItsRecord' /\ SendInv'
  BY <1>4, DemoKept, SendsKept
<1> QED BY <1>1, <1>3, <1>5 DEF IInv

LEMMA ReleaseOK ==
    ASSUME IInv, NEW r \in Resets, Release(r) \/ StageFails(r) \/ LoseInvocation(r)
    PROVE  IInv'
<1>1. CASE Release(r)
  <2>1. /\ pc[r] = "release" /\ pc' = [pc EXCEPT ![r] = "done"] /\ lock' = None
        /\ UNCHANGED <<demo, world, receipt, targets, faults>>
    BY <1>1 DEF Release, Go
  <2>2. faults' \in 0 .. MaxFaults
    BY <2>1 DEF IInv, TypeOK
  <2> QED BY <2>1, <2>2, Leaves
<1>2. CASE StageFails(r) \/ LoseInvocation(r)
  <2>1. /\ pc[r] \in Running \union {"release"} /\ faults < MaxFaults /\ faults' = faults + 1
        /\ lock' \in {None, lock}
        /\ UNCHANGED <<demo, world, receipt, targets>>
    BY <1>2 DEF StageFails, LoseInvocation
  <2>2. PICK s \in {"done", "failed", "lost"} : pc' = [pc EXCEPT ![r] = s]
    BY <1>2 DEF StageFails, LoseInvocation, Go
  <2>3. faults' \in 0 .. MaxFaults /\ faults' > 0
    BY <2>1, ResetAssumption DEF IInv, TypeOK
  <2> QED BY <2>1, <2>2, <2>3, Leaves
<1> QED BY <1>1, <1>2

LEMMA RecheckOK ==
    ASSUME IInv, NEW r \in Resets, Recheck(r)
    PROVE  IInv'
<1>1. /\ pc[r] = "recheck" /\ pc[r] \in Running \union {"release"}
      /\ UNCHANGED <<demo, world, receipt, targets, faults>>
  BY DEF Recheck, Running
<1>2. CASE Replays(r)
  <2>1. pc' = [pc EXCEPT ![r] = "done"] /\ lock' = None
    BY <1>2 DEF Recheck, Go
  <2>2. faults' \in 0 .. MaxFaults
    BY <1>1 DEF IInv, TypeOK
  <2> QED BY <1>1, <2>1, <2>2, Leaves
<1>3. CASE ~Replays(r)
  <2>1. pc' = [pc EXCEPT ![r] = "resolve"] /\ lock' = lock
    BY <1>3 DEF Recheck, Go
  <2>2. TypeOK'
    BY <1>1, <2>1 DEF demo, IInv, TypeOK
  <2>3. Sound(r)' /\ ~Replays(r)'
    BY <1>1, <1>3, <2>1 DEF IInv, TypeOK, Sound, Replays
  <2>4. LockInv' /\ ResetInv'
    BY <1>1, <2>1, <2>3, Alone, Underway
  <2>5. ~Purging
    BY <1>1, Alone DEF Purging
  <2>6. RootInv' /\ ChainInv' /\ InFlightKeepsItsRecord' /\ SendInv'
    BY <1>1, <2>5, DemoKept, SendsKept
  <2> QED BY <2>2, <2>4, <2>6 DEF IInv
<1> QED BY <1>2, <1>3

(* The inventory captures: what has no root and no chain is not there.      *)
LEMMA InventoryCaptures ==
    ASSUME IInv, ~Purging
    PROVE  /\ Inventory \subseteq Partitions
           /\ \A a \in Actions : a \in chain[caseOf[a]]
                  => <<"ACTION", a>> \in Inventory /\ <<"EXECUTION", a>> \in Inventory
           /\ faults = 0 => \A a \in Actions, kind \in {"EXECUTION", "OUTBOUND"} :
                               Stands(<<kind, a>>) => <<kind, a>> \in Inventory
<1>1. Roots \subseteq Partitions /\ \A c \in Cases : Reconciled(c) \subseteq Partitions
  <2>1. Registration(DemoCase) \subseteq Partitions /\ Seed \in Partitions
    BY ResetAssumption DEF Registration, Partitions, CaseWorld
  <2>2. \A c \in Cases : chain[c] \subseteq Actions
    BY DEF IInv, TypeOK
  <2>3. ASSUME NEW c \in Cases PROVE Reconciled(c) \subseteq Partitions
    <3>1. {"ACTION", "EXECUTION"} \X chain[c] \subseteq ActionWorld
      BY <2>2 DEF ActionWorld
    <3>2. ASSUME NEW a \in chain[c] PROVE <<"OUTBOUND", a>> \in ActionWorld
      BY <2>2 DEF ActionWorld
    <3> QED BY <3>1, <3>2 DEF Reconciled, Partitions
  <2> QED BY <2>1, <2>3 DEF IInv, TypeOK, Roots
<1>2. ASSUME NEW c \in Cases, Rooted(c)
      PROVE  Reconciled(c) \subseteq Inventory
  <2>1. <<"CASE", c>> \in Roots
    BY <1>2 DEF Rooted, Roots, Registration
  <2> QED BY <2>1 DEF Inventory
<1>3. ASSUME NEW a \in Actions, a \in chain[caseOf[a]]
      PROVE  /\ <<"ACTION", a>> \in Inventory /\ <<"EXECUTION", a>> \in Inventory
             /\ Stands(<<"OUTBOUND", a>>) /\ Stands(<<"EXECUTION", a>>)
                    => <<"OUTBOUND", a>> \in Inventory
  <2>1. caseOf[a] \in Cases
    BY DEF IInv, TypeOK
  <2>2. Reconciled(caseOf[a]) \subseteq Inventory
    BY <1>2, <1>3, <2>1 DEF IInv, ChainInv, RootInv
  <2>3. <<"ACTION", a>> \in Reconciled(caseOf[a]) /\ <<"EXECUTION", a>> \in Reconciled(caseOf[a])
    BY <1>3 DEF Reconciled
  <2>4. Stands(<<"OUTBOUND", a>>) => execution[a] = "SENT"
    BY DEF IInv, ChainInv
  <2>5. Stands(<<"OUTBOUND", a>>) /\ Stands(<<"EXECUTION", a>>)
            => <<"OUTBOUND", a>> \in Reconciled(caseOf[a])
    BY <1>3, <2>4 DEF Reconciled
  <2> QED BY <2>2, <2>3, <2>5
<1>4. ASSUME faults = 0, NEW a \in Actions
      PROVE  /\ Stands(<<"EXECUTION", a>>) => <<"EXECUTION", a>> \in Inventory
             /\ Stands(<<"OUTBOUND", a>>) => <<"OUTBOUND", a>> \in Inventory
  BY <1>3, <1>4 DEF IInv, SendInv
<1>5. Inventory \subseteq Partitions
  BY <1>1 DEF Inventory
<1> QED BY <1>3, <1>4, <1>5

LEMMA ResolveTargetsOK ==
    ASSUME IInv, NEW r \in Resets, ResolveTargets(r)
    PROVE  IInv'
<1>1. /\ pc[r] = "resolve" /\ pc[r] \in Running \union {"release"} /\ lock' = lock
      /\ targets' = [targets EXCEPT ![r] = Inventory] /\ pc' = [pc EXCEPT ![r] = "guard"]
      /\ UNCHANGED <<demo, world, receipt, faults>>
  BY DEF ResolveTargets, Go, Running
<1>2. UNCHANGED <<written, chain, marked, execution, caseOf, proposed, began, request>>
  BY <1>1 DEF demo
<1>3. ~Purging
  BY <1>1, Alone DEF Purging
<1>4. Inventory \subseteq Partitions
  BY <1>3, InventoryCaptures
<1>5. targets' \in [Resets -> SUBSET Partitions] /\ targets'[r] = Inventory /\ pc'[r] = "guard"
  BY <1>1, <1>4 DEF IInv, TypeOK
<1>6. TypeOK'
  BY <1>1, <1>2, <1>5 DEF IInv, TypeOK
<1>7. Captured(r)'
  <2>1. Roots' \subseteq targets'[r]
    BY <1>2, <1>5 DEF Roots, Inventory
  <2>2. \A p : Stands(p)' = Stands(p)
    BY <1>2 DEF Stands
  <2> QED BY <1>1, <1>2, <1>3, <1>5, <2>1, <2>2, InventoryCaptures DEF Captured
<1>8. Sound(r)' /\ ~Replays(r)'
  BY <1>1, <1>5, <1>7 DEF Sound, IInv, LockInv, Running, Replays
<1>9. LockInv' /\ ResetInv'
  BY <1>1, <1>8, Alone, Underway
<1>10. RootInv' /\ ChainInv' /\ InFlightKeepsItsRecord' /\ SendInv'
  BY <1>1, <1>3, DemoKept, SendsKept
<1> QED BY <1>6, <1>9, <1>10 DEF IInv

LEMMA GuardOK ==
    ASSUME IInv, NEW r \in Resets, Guard(r)
    PROVE  IInv'
<1>1. /\ pc[r] = "guard" /\ pc[r] \in Running \union {"release"}
      /\ UNCHANGED <<demo, world, receipt, targets, faults>>
  BY DEF Guard, Running
<1>2. CASE InFlight(targets[r])
  <2>1. pc' = [pc EXCEPT ![r] = "failed"] /\ lock' = None
    BY <1>2 DEF Guard, Go
  <2>2. faults' \in 0 .. MaxFaults
    BY <1>1 DEF IInv, TypeOK
  <2> QED BY <1>1, <2>1, <2>2, Leaves
<1>3. CASE ~InFlight(targets[r])
  <2>1. pc' = [pc EXCEPT ![r] = "purge"] /\ lock' = lock
    BY <1>3 DEF Guard, Go
  <2>2. UNCHANGED <<written, chain, marked, execution, caseOf, proposed, began, request>>
    BY <1>1 DEF demo
  <2>3. TypeOK' /\ pc'[r] = "purge"
    BY <1>1, <2>1, <2>2 DEF IInv, TypeOK
  <2>4. Captured(r) /\ ~Replays(r)
    BY <1>1 DEF IInv, LockInv, ResetInv, Sound, Running
  <2>5. Captured(r)' /\ ~Replays(r)' /\ ~InFlight(targets[r])'
    BY <1>1, <1>3, <2>2, <2>4 DEF Captured, Roots, Stands, InFlight, Replays
  <2>6. LockInv' /\ ResetInv'
    BY <1>1, <2>1, <2>3, <2>5, Alone, Underway DEF Sound
  <2>7. ~Purging
    BY <1>1, Alone DEF Purging
  <2>8. RootInv' /\ ChainInv' /\ InFlightKeepsItsRecord' /\ SendInv'
    BY <1>1, <2>7, DemoKept, SendsKept
  <2> QED BY <2>3, <2>6, <2>8 DEF IInv
<1> QED BY <1>2, <1>3

LEMMA VerifyPurgedOK ==
    ASSUME IInv, NEW r \in Resets, VerifyPurged(r)
    PROVE  IInv'
<1>1. /\ pc[r] = "purge" /\ pc[r] \in Running \union {"release"}
      /\ \A p \in targets[r] : ~Stands(p)
      /\ pc' = [pc EXCEPT ![r] = "reseed"] /\ UNCHANGED <<demo, world, lock, receipt, targets, faults>>
  BY DEF VerifyPurged, Go, Running, Destructive
<1>2. UNCHANGED <<written, chain, marked, execution, caseOf, proposed, began, request>>
  BY <1>1 DEF demo
<1>3. TypeOK' /\ pc'[r] = "reseed"
  BY <1>1, <1>2 DEF IInv, TypeOK
<1>4. Captured(r) /\ ~Replays(r)
  BY <1>1 DEF IInv, LockInv, ResetInv, Sound, Running, Destructive
<1>5. Emptied(r)' /\ ~Replays(r)'
  BY <1>1, <1>2, <1>3, <1>4 DEF Captured, Emptied, Roots, Stands, Replays
<1>6. LockInv' /\ ResetInv'
  BY <1>1, <1>3, <1>5, Alone, Underway DEF Sound
<1>7. SendInv'
  <2>1. faults = 0 => \A a \in Actions, kind \in {"EXECUTION", "OUTBOUND"} : ~Stands(<<kind, a>>)
    BY <1>1, <1>4 DEF Captured
  <2> QED BY <1>1, <1>2, <2>1 DEF SendInv, Stands
<1>8. RootInv' /\ ChainInv' /\ InFlightKeepsItsRecord'
  BY <1>1, DemoKept
<1> QED BY <1>3, <1>6, <1>7, <1>8 DEF IInv

(* A partition is purged: whatever names it goes after it.                  *)
LEMMA PurgePartitionOK ==
    ASSUME IInv, NEW r \in Resets, NEW p \in Partitions, PurgePartition(r, p)
    PROVE  IInv'
<1>1. /\ pc[r] = "purge" /\ pc[r] \in Running \union {"release"}
      /\ p \in targets[r] /\ Stands(p)
      /\ \A q \in targets[r] : Stands(q) => Order(p) <= Order(q)
      /\ written' = [written EXCEPT ![p] = 0] /\ marked' = marked
      /\ chain' = IF p[1] = "ACTION_CURRENT" THEN [chain EXCEPT ![p[2]] = {}] ELSE chain
      /\ proposed' = IF p[1] = "CASE" THEN proposed \ {p[2]} ELSE proposed
      /\ UNCHANGED <<execution, caseOf, began, request, world, lock, receipt, pc, targets, faults>>
  BY DEF PurgePartition, Registered, Running, Destructive
<1>2. \A q \in Partitions : /\ Stands(q)' => q # p /\ Stands(q) /\ written'[q] = written[q]
                            /\ q # p => Stands(q)' = Stands(q)
  BY <1>1 DEF IInv, TypeOK, Stands
<1>3. /\ chain' \in [Cases -> SUBSET Actions]
      /\ \A c \in Cases : /\ chain'[c] \subseteq chain[c]
                          /\ p = <<"ACTION_CURRENT", c>> => chain'[c] = {}
                          /\ p # <<"ACTION_CURRENT", c>> => chain'[c] = chain[c]
  <2>1. chain \in [Cases -> SUBSET Actions]
    BY DEF IInv, TypeOK
  <2>2. CASE p[1] = "ACTION_CURRENT"
    <3>1. PICK c \in Cases : p = <<"ACTION_CURRENT", c>>
      BY <2>2, Kinds DEF Seed
    <3> QED BY <1>1, <2>1, <2>2, <3>1
  <2>3. CASE p[1] # "ACTION_CURRENT"
    BY <1>1, <2>1, <2>3
  <2> QED BY <2>2, <2>3
<1>4. TypeOK'
  <2>1. written' \in [Partitions -> 0 .. world]
    BY <1>1 DEF IInv, TypeOK
  <2> QED BY <1>1, <1>3, <2>1 DEF IInv, TypeOK
<1>5. Captured(r) /\ ~InFlight(targets[r]) /\ ~Replays(r)
  BY <1>1 DEF IInv, LockInv, ResetInv, Sound, Running, Destructive
<1>6. Sound(r)'
  <2>1. Captured(r)'
    <3>1. Roots' \subseteq targets'[r]
      BY <1>1, <1>5 DEF Captured, Roots
    <3>2. \A a \in Actions : a \in chain'[caseOf'[a]] => a \in chain[caseOf[a]]
      BY <1>1, <1>3 DEF IInv, TypeOK
    <3>3. \A a \in Actions, kind \in {"EXECUTION", "OUTBOUND"} :
              Stands(<<kind, a>>)' => Stands(<<kind, a>>)
      BY <1>2, Kinds
    <3> QED BY <1>1, <1>5, <3>1, <3>2, <3>3 DEF Captured
  <2>2. ~InFlight(targets[r])'
    <3>1. \A a \in Actions : Stands(<<"EXECUTION", a>>)' => Stands(<<"EXECUTION", a>>)
      BY <1>2, Kinds
    <3> QED BY <1>1, <1>5, <3>1 DEF InFlight
  <2> QED BY <1>1, <2>1, <2>2 DEF Sound
<1>7. LockInv' /\ ResetInv'
  <2>1. pc' = [pc EXCEPT ![r] = "purge"]
    BY <1>1 DEF IInv, TypeOK
  <2>2. ~Replays(r)'
    BY <1>1, <1>5 DEF Replays
  <2> QED BY <1>1, <1>6, <2>1, <2>2, Alone, Underway
<1>8. RootInv'
  <2>1. \A c \in Cases : Rooted(c)' = Rooted(c)
    BY <1>1 DEF Rooted
  <2>2. BegunInv'
    BY <1>1 DEF IInv, RootInv, BegunInv
  <2> QED BY <1>1, <1>2, <2>1, <2>2, Kinds DEF IInv, RootInv
<1>9. ChainInv'
  <2>1. ASSUME NEW c \in Cases, NEW a \in chain'[c]
        PROVE  caseOf'[a] = c /\ execution'[a] # "NONE" /\ Stands(<<"ACTION_CURRENT", c>>)'
    <3>1. a \in chain[c] /\ p # <<"ACTION_CURRENT", c>>
      BY <1>3, <2>1
    <3> QED BY <1>1, <1>2, <3>1, Kinds DEF IInv, ChainInv
  <2>2. ASSUME NEW a \in Actions, Stands(<<"ACTION", a>>)'
        PROVE  written'[<<"ACTION", a>>] = world' /\ a \in chain'[caseOf'[a]]
    <3>1. /\ Stands(<<"ACTION", a>>) /\ written'[<<"ACTION", a>>] = written[<<"ACTION", a>>]
          /\ written[<<"ACTION", a>>] = world /\ a \in chain[caseOf[a]]
      BY <1>2, <2>2, Kinds DEF IInv, ChainInv
    <3>2. <<"ACTION", a>> \in targets[r]
      BY <1>5, <3>1 DEF Captured
    <3>3. Order(p) <= 2
      BY <1>1, <3>1, <3>2 DEF Order
    <3>4. caseOf[a] \in Cases /\ p # <<"ACTION_CURRENT", caseOf[a]>>
      BY <3>3 DEF IInv, TypeOK, Order
    <3> QED BY <1>1, <1>3, <3>1, <3>4
  <2>3. ASSUME NEW a \in Actions, Stands(<<"OUTBOUND", a>>)'
        PROVE  execution'[a] = "SENT"
    BY <1>1, <1>2, <2>3, Kinds DEF IInv, ChainInv
  <2> QED BY <2>1, <2>2, <2>3 DEF ChainInv
<1>10. SendInv'
  <2>1. Purging'
    BY <1>1, Alone, ResetAssumption DEF Purging
  <2> QED BY <1>1, <1>2, <2>1, Kinds DEF IInv, SendInv
<1>11. InFlightKeepsItsRecord'
  <2>1. ASSUME NEW a \in Actions, execution'[a] = Unsettled
        PROVE  Stands(<<"EXECUTION", a>>)'
    <3>1. Stands(<<"EXECUTION", a>>) /\ p # <<"EXECUTION", a>>
      BY <1>1, <1>5, <2>1 DEF IInv, InFlightKeepsItsRecord, InFlight
    <3> QED BY <1>2, <3>1, Kinds
  <2>2. ASSUME NEW c \in Cases, request'[c] = "ASKED"
        PROVE  Stands(<<"CASE", c>>)'
    <3>1. Stands(<<"CASE", c>>) /\ p # <<"CASE", c>>
      BY <1>1, <1>5, <2>2 DEF IInv, InFlightKeepsItsRecord, InFlight
    <3> QED BY <1>2, <3>1, Kinds
  <2> QED BY <2>1, <2>2 DEF InFlightKeepsItsRecord
<1> QED BY <1>4, <1>7, <1>8, <1>9, <1>10, <1>11 DEF IInv

(* Once the targets are purged, what is left has neither root nor chain.    *)
LEMMA NothingRooted ==
    ASSUME IInv, NEW r \in Resets, pc[r] \in {"reseed", "seed", "clear"}
    PROVE  /\ \A c \in Cases, kind \in {"CASE", "ACTION_CURRENT"} : ~Stands(<<kind, c>>)
           /\ \A c \in Cases : Stands(<<"AUDIT", c>>) => faults > 0 /\ ~Rooted(c)
           /\ \A c \in Cases : chain[c] = {}
           /\ \A a \in Actions : ~Stands(<<"ACTION", a>>)
           /\ \A o \in Operations : Stands(<<"OPERATION", o>>) => began[o] < written[<<"OPERATION", o>>]
           /\ faults = 0 => \A a \in Actions, kind \in {"EXECUTION", "OUTBOUND"} : ~Stands(<<kind, a>>)
           /\ pc[r] # "clear" => ~Stands(Seed)
<1>1. Emptied(r)
  BY DEF IInv, ResetInv, Sound
<1>2. \A p \in Roots : Stands(p) => p = Seed /\ pc[r] = "clear"
  BY <1>1 DEF Emptied
<1>3. \A c \in Cases, kind \in {"CASE", "AUDIT", "ACTION_CURRENT"} :
          Rooted(c) => <<kind, c>> \in Roots /\ <<kind, c>> # Seed
  BY DEF Rooted, Roots, Registration, Seed
<1>4. \A c \in Cases, kind \in {"CASE", "AUDIT", "ACTION_CURRENT"} :
          Rooted(c) => ~Stands(<<kind, c>>)
  BY <1>2, <1>3
<1>5. \A c \in Cases, kind \in {"CASE", "ACTION_CURRENT"} : ~Stands(<<kind, c>>)
  BY <1>4 DEF IInv, RootInv
<1>6. \A c \in Cases : Stands(<<"AUDIT", c>>) => faults > 0 /\ ~Rooted(c)
  BY <1>4 DEF IInv, RootInv
<1>7. \A c \in Cases : chain[c] = {}
  BY <1>5 DEF IInv, ChainInv
<1>8. \A a \in Actions : caseOf[a] \in Cases /\ a \notin chain[caseOf[a]]
  BY <1>7 DEF IInv, TypeOK
<1>9. \A o \in Operations : Stands(<<"OPERATION", o>>) => began[o] < written[<<"OPERATION", o>>]
  <2>1. \A o \in Operations : <<"OPERATION", o>> \in marked => ~Stands(<<"OPERATION", o>>)
    BY <1>2 DEF Roots, Seed
  <2> QED BY <2>1 DEF IInv, RootInv
<1>10. ~Purging
  BY Alone DEF Purging, Running, Destructive
<1>11. faults = 0 => \A a \in Actions, kind \in {"EXECUTION", "OUTBOUND"} : ~Stands(<<kind, a>>)
  BY <1>8, <1>10 DEF IInv, SendInv
<1>12. pc[r] # "clear" => ~Stands(Seed)
  BY <1>2 DEF Roots
<1> QED BY <1>5, <1>6, <1>7, <1>8, <1>9, <1>11, <1>12 DEF IInv, ChainInv

LEMMA ReseedOK ==
    ASSUME IInv, NEW r \in Resets, Reseed(r)
    PROVE  IInv'
<1>1. /\ pc[r] = "reseed" /\ pc[r] \in Running \union {"release"}
      /\ world' = world + 1 /\ pc' = [pc EXCEPT ![r] = "seed"]
      /\ UNCHANGED <<demo, lock, receipt, targets, faults>>
  BY DEF Reseed, Go, Running, Destructive
<1>2. UNCHANGED <<written, chain, marked, execution, caseOf, proposed, began, request>>
  BY <1>1 DEF demo
<1>3. \A p : Stands(p)' = Stands(p)
  BY <1>2 DEF Stands
<1>4. TypeOK' /\ pc'[r] = "seed"
  <2>1. world' \in Nat \ {0} /\ 0 .. world \subseteq 0 .. world'
    BY <1>1 DEF IInv, TypeOK
  <2> QED BY <1>1, <1>2, <2>1 DEF IInv, TypeOK
<1>5. Emptied(r) /\ ~Replays(r)
  BY <1>1 DEF IInv, LockInv, ResetInv, Sound, Running, Destructive
<1>6. Sound(r)' /\ ~Replays(r)'
  <2>1. \A o \in Operations : began'[o] # world'
    BY <1>1, <1>2 DEF IInv, TypeOK
  <2> QED BY <1>1, <1>2, <1>3, <1>4, <1>5, <2>1 DEF Sound, Emptied, Roots, Replays
<1>7. LockInv' /\ ResetInv'
  BY <1>1, <1>6, Alone, Underway
<1>8. RootInv'
  <2>1. \A c \in Cases : Rooted(c)' = Rooted(c)
    BY <1>2 DEF Rooted
  <2>2. BegunInv'
    <3>1. ASSUME NEW o \in Operations PROVE began'[o] # world'
      BY <1>1, <1>2 DEF IInv, TypeOK
    <3> QED BY <3>1 DEF BegunInv
  <2>3. \A c \in Cases : <<"CASE", c>> \in marked' => Rooted(c)'
    BY <1>2, <2>1 DEF IInv, RootInv
  <2> QED BY <1>1, <1>2, <1>3, <2>2, <2>3, NothingRooted DEF RootInv
<1>9. ChainInv' /\ SendInv'
  BY <1>1, <1>2, <1>3, NothingRooted DEF IInv, ChainInv, SendInv
<1>10. InFlightKeepsItsRecord'
  BY <1>2, <1>3 DEF IInv, InFlightKeepsItsRecord
<1> QED BY <1>4, <1>7, <1>8, <1>9, <1>10 DEF IInv

LEMMA SeedDemoOK ==
    ASSUME IInv, NEW r \in Resets, SeedDemo(r)
    PROVE  IInv'
<1>1. /\ pc[r] = "seed" /\ pc[r] \in Running \union {"release"}
      /\ Write({Seed}) /\ pc' = [pc EXCEPT ![r] = "clear"]
      /\ UNCHANGED <<chain, marked, execution, caseOf, proposed, began, request, world, lock, receipt,
                     targets, faults>>
  BY DEF SeedDemo, Go, Running, Destructive
<1>2. /\ written' \in [Partitions -> 0 .. world']
      /\ \A p \in Partitions : p \in {Seed} => Stands(p)' /\ written'[p] = world'
      /\ \A p \in Partitions : p \notin {Seed} => written'[p] = written[p] /\ Stands(p)' = Stands(p)
  BY <1>1, Writing DEF IInv
<1>3. TypeOK' /\ pc'[r] = "clear"
  BY <1>1, <1>2 DEF IInv, TypeOK
<1>4. Emptied(r) /\ ~Replays(r) /\ targets[r] \subseteq Partitions
  BY <1>1 DEF IInv, LockInv, ResetInv, Sound, Running, Destructive, TypeOK
<1>5. Sound(r)' /\ ~Replays(r)'
  BY <1>1, <1>2, <1>3, <1>4 DEF Sound, Emptied, Roots, Replays
<1>6. LockInv' /\ ResetInv'
  BY <1>1, <1>5, Alone, Underway
<1>7. \A c \in Cases : Rooted(c)' = Rooted(c)
  BY <1>1 DEF Rooted
<1>8. /\ \A c \in Cases, kind \in {"CASE", "AUDIT", "ACTION_CURRENT"} : <<kind, c>> # Seed
      /\ \A a \in Actions, kind \in {"ACTION", "EXECUTION", "OUTBOUND"} : <<kind, a>> # Seed
      /\ \A o \in Operations : <<"OPERATION", o>> # Seed
  BY DEF Seed
<1>9. RootInv'
  <2>1. BegunInv'
    BY <1>1 DEF IInv, RootInv, BegunInv
  <2>2. Stands(Seed)' => written'[Seed] = world'
    BY <1>2, Kinds
  <2> QED BY <1>1, <1>2, <1>7, <1>8, <2>1, <2>2, Kinds DEF IInv, RootInv
<1>10. ChainInv'
  BY <1>1, <1>2, <1>8, Kinds DEF IInv, ChainInv
<1>11. SendInv'
  <2>1. ~Purging
    BY <1>1, Alone DEF Purging
  <2> QED BY <1>1, <1>2, <1>8, <2>1, Kinds DEF IInv, SendInv
<1>12. InFlightKeepsItsRecord'
  BY <1>1, <1>2, <1>8, Kinds DEF IInv, InFlightKeepsItsRecord
<1> QED BY <1>3, <1>6, <1>9, <1>10, <1>11, <1>12 DEF IInv

LEMMA ClearRegistrationsOK ==
    ASSUME IInv, NEW r \in Resets, ClearRegistrations(r)
    PROVE  IInv'
<1>1. /\ pc[r] = "clear" /\ pc[r] \in Running \union {"release"}
      /\ marked' = {} /\ pc' = [pc EXCEPT ![r] = "receipt"]
      /\ UNCHANGED <<written, chain, execution, caseOf, proposed, began, request, world, lock, receipt,
                     targets, faults>>
  BY DEF ClearRegistrations, Go, Running, Destructive
<1>2. \A p : Stands(p)' = Stands(p)
  BY <1>1 DEF Stands
<1>3. TypeOK' /\ pc'[r] = "receipt"
  BY <1>1 DEF IInv, TypeOK
<1>4. Sound(r)' /\ ~Replays(r)'
  BY <1>1, <1>3 DEF Sound, IInv, LockInv, Running, Destructive, Replays
<1>5. LockInv' /\ ResetInv'
  BY <1>1, <1>4, Alone, Underway
<1>6. RootInv'
  <2>1. BegunInv'
    BY <1>1 DEF IInv, ResetInv, Sound, Emptied, BegunInv
  <2> QED BY <1>1, <1>2, <2>1, NothingRooted DEF IInv, RootInv
<1>7. ChainInv' /\ SendInv'
  BY <1>1, <1>2, NothingRooted DEF IInv, ChainInv, SendInv
<1>8. InFlightKeepsItsRecord'
  BY <1>1, <1>2 DEF IInv, InFlightKeepsItsRecord
<1> QED BY <1>3, <1>5, <1>6, <1>7, <1>8 DEF IInv

LEMMA RecordReceiptOK ==
    ASSUME IInv, NEW r \in Resets, RecordReceipt(r)
    PROVE  IInv'
<1>1. /\ pc[r] = "receipt" /\ pc[r] \in Running \union {"release"}
      /\ pc' = [pc EXCEPT ![r] = "release"]
      /\ UNCHANGED <<demo, world, lock, targets, faults>>
  BY DEF RecordReceipt, Go, Running, Destructive
<1>2. receipt' \in [Keys -> 0 .. world]
  BY ResetAssumption DEF RecordReceipt, PutReceipt, IInv, TypeOK
<1>3. TypeOK' /\ pc'[r] = "release"
  BY <1>1, <1>2 DEF demo, IInv, TypeOK
<1>4. Sound(r)'
  BY <1>3 DEF Sound
<1>5. LockInv' /\ ResetInv'
  BY <1>1, <1>4, Alone, Underway DEF Running, Destructive
<1>6. ~Purging
  BY <1>1, Alone DEF Purging
<1>7. RootInv' /\ ChainInv' /\ InFlightKeepsItsRecord' /\ SendInv'
  BY <1>1, <1>6, DemoKept, SendsKept
<1> QED BY <1>3, <1>5, <1>7 DEF IInv

LEMMA ReceiptUnansweredOK ==
    ASSUME IInv, NEW r \in Resets, ReceiptUnanswered(r)
    PROVE  IInv'
<1>1. /\ pc[r] = "receipt" /\ pc[r] \in Running \union {"release"}
      /\ pc' = [pc EXCEPT ![r] = "failed"] /\ lock' = None
      /\ faults < MaxFaults /\ faults' = faults + 1 /\ UNCHANGED <<demo, world, targets>>
  BY DEF ReceiptUnanswered, Go, Running, Destructive
<1>2. receipt' \in [Keys -> 0 .. world]
  BY ResetAssumption DEF ReceiptUnanswered, PutReceipt, IInv, TypeOK
<1>3. faults' \in 0 .. MaxFaults /\ faults' > 0
  BY <1>1, ResetAssumption DEF IInv, TypeOK
<1>4. TypeOK' /\ pc'[r] = "failed"
  BY <1>1, <1>2, <1>3 DEF demo, IInv, TypeOK
<1>5. Sound(r)'
  BY <1>4 DEF Sound
<1>6. LockInv' /\ ResetInv'
  BY <1>1, <1>5, Alone, Underway DEF Running, Destructive
<1>7. RootInv' /\ ChainInv' /\ InFlightKeepsItsRecord' /\ SendInv'
  BY <1>1, <1>3, DemoKept, SendsKept
<1> QED BY <1>4, <1>6, <1>7 DEF IInv

LEMMA StutterOK ==
    ASSUME IInv, UNCHANGED vars
    PROVE  IInv'
<1>1. UNCHANGED <<demo, world, lock, receipt, pc, targets, faults>>
  BY DEF vars
<1>2. UNCHANGED <<written, chain, marked, execution, caseOf, proposed, began, request>>
  BY <1>1 DEF demo
<1>3. TypeOK' /\ LockInv'
  BY <1>1, <1>2 DEF IInv, TypeOK, LockInv, Replays
<1>4. \A r \in Resets : Sound(r)' = Sound(r)
  BY <1>1, <1>2 DEF Sound, Captured, Emptied, Roots, Stands, InFlight
<1>5. RootInv' /\ ChainInv' /\ InFlightKeepsItsRecord' /\ SendInv'
  BY <1>1, DemoKept, SendsKept DEF Purging
<1> QED BY <1>3, <1>4, <1>5 DEF IInv, ResetInv

LEMMA NextOK ==
    ASSUME IInv, [Next]_vars
    PROVE  IInv'
<1>1. CASE Use
  BY <1>1, StartOperationOK, ApplyMonitorStepOK, ProposeActionOK, SendOK, ProjectActionOutcomeOK,
     SideEffectOK DEF Use
<1>2. ASSUME NEW r \in Resets, Reset(r)
      PROVE  IInv'
  BY <1>2, ArriveOK, AcquireOK, RecheckOK, ResolveTargetsOK, GuardOK, PurgePartitionOK,
     VerifyPurgedOK, ReseedOK, SeedDemoOK, ClearRegistrationsOK, RecordReceiptOK,
     ReceiptUnansweredOK, ReleaseOK
  DEF Reset
<1>3. CASE UNCHANGED vars
  BY <1>3, StutterOK
<1> QED BY <1>1, <1>2, <1>3 DEF Next

-----------------------------------------------------------------------------
(* The theorems.                                                            *)

(* Whatever stands is found by a root or by the chain of a rooted case, but *)
(* for what a fault or a late worker left, and what a reset captured is     *)
(* what it has yet to purge: for any demo, resets and interruptions.        *)
THEOREM Inductive == Spec => []IInv
<1>1. Init => IInv
  BY InitOK
<1>2. IInv /\ [Next]_vars => IInv'
  BY NextOK
<1> QED BY <1>1, <1>2, PTL DEF Spec

(* Rows, chains, receipts and resets keep their types; no row is of a world *)
(* that is still to come.                                                   *)
THEOREM TypeCorrect == Spec => []TypeOK
<1>1. IInv => TypeOK
  BY DEF IInv
<1> QED BY <1>1, Inductive, PTL

(* What is left of a world is told apart: a send row is of the world that   *)
(* stands or of an action nothing names, an audit row has its roots or is by *)
(* a sender that was left, and an inventory that holds an execution holds   *)
(* the audit rows of its case, which go before it.                          *)
LeftInv ==
    /\ marked \subseteq CaseWorld \union OperationRows
    /\ \A a \in Actions : Stands(<<"EXECUTION", a>>) => execution[a] # "NONE"
    /\ \A a \in Actions, kind \in {"EXECUTION", "OUTBOUND"} :
           Stands(<<kind, a>>) => written[<<kind, a>>] = world \/ Unnamed(a)
    /\ \A c \in Cases :
           Stands(<<"AUDIT", c>>)
               => \/ written[<<"AUDIT", c>>] = world /\ Rooted(c)
                  \/ SenderLeft(c)
    /\ \A r \in Resets : pc[r] \in {"guard", "purge"} =>
           \A a \in Actions : <<"EXECUTION", a>> \in targets[r]
                                 => <<"AUDIT", caseOf[a]>> \in targets[r]

LEMMA LeftStill ==
    ASSUME LeftInv, UNCHANGED <<demo, world>>,
           \A r \in Resets : pc'[r] \in {"guard", "purge"}
                                => pc[r] \in {"guard", "purge"} /\ targets'[r] = targets[r]
    PROVE  LeftInv'
<1>1. UNCHANGED <<written, chain, marked, execution, caseOf>>
  BY DEF demo
<1>2. \A p : Stands(p)' = Stands(p)
  BY <1>1 DEF Stands
<1>3. /\ \A c \in Cases : Rooted(c)' = Rooted(c) /\ SenderLeft(c)' = SenderLeft(c)
      /\ \A a \in Actions : Unnamed(a)' = Unnamed(a)
  BY <1>1, <1>2 DEF Rooted, SenderLeft, Unnamed
<1> QED BY <1>1, <1>2, <1>3 DEF LeftInv

(* A normal write leaves what it does not know of as it was.                *)
LEMMA LeftByUse ==
    ASSUME IInv, LeftInv, Unlocked, InUse, NEW ps, Write(ps),
           marked \subseteq marked', marked' \subseteq CaseWorld \union OperationRows,
           \A a \in Actions : execution[a] # "NONE"
               => execution'[a] # "NONE" /\ caseOf'[a] = caseOf[a] /\ (Unnamed(a) => Unnamed(a)'),
           \A a \in Actions : <<"EXECUTION", a>> \in ps => execution'[a] # "NONE",
           \A c \in Cases : <<"AUDIT", c>> \in ps => Rooted(c)' \/ SenderLeft(c)'
    PROVE  LeftInv'
<1>1. UNCHANGED <<world, lock, pc, targets>>
  BY DEF InUse
<1>2. /\ \A p \in Partitions : p \in ps => Stands(p)' /\ written'[p] = world'
      /\ \A p \in Partitions : p \notin ps => written'[p] = written[p] /\ Stands(p)' = Stands(p)
  BY <1>1, Writing DEF IInv
<1>3. \A c \in Cases : Rooted(c) => Rooted(c)'
  BY DEF Rooted
<1>4. \A r \in Resets : pc'[r] \notin {"guard", "purge"}
  BY <1>1, ResetAssumption DEF IInv, LockInv, Unlocked, Running, Destructive
<1>5. \A a \in Actions : Stands(<<"EXECUTION", a>>)' => execution'[a] # "NONE"
  BY <1>2, Kinds DEF LeftInv
<1>6. ASSUME NEW a \in Actions, NEW kind \in {"EXECUTION", "OUTBOUND"}, Stands(<<kind, a>>)'
      PROVE  written'[<<kind, a>>] = world' \/ Unnamed(a)'
  <2>1. <<kind, a>> \in Partitions
    BY Kinds
  <2>2. CASE <<kind, a>> \in ps
    BY <1>2, <2>1, <2>2
  <2>3. CASE <<kind, a>> \notin ps
    <3>1. Stands(<<kind, a>>) /\ written'[<<kind, a>>] = written[<<kind, a>>]
      BY <1>2, <1>6, <2>1, <2>3
    <3>2. execution[a] # "NONE"
      BY <3>1 DEF IInv, ChainInv, LeftInv
    <3> QED BY <1>1, <3>1, <3>2 DEF LeftInv
  <2> QED BY <2>2, <2>3
<1>7. \A c \in Cases : SenderLeft(c) => SenderLeft(c)'
  <2>1. ASSUME NEW c \in Cases, NEW a \in Actions, caseOf[a] = c, Unnamed(a),
               Stands(<<"EXECUTION", a>>)
        PROVE  caseOf'[a] = c /\ Unnamed(a)' /\ Stands(<<"EXECUTION", a>>)'
    BY <1>2, <2>1, Kinds DEF LeftInv
  <2> QED BY <2>1 DEF SenderLeft
<1>8. ASSUME NEW c \in Cases, Stands(<<"AUDIT", c>>)'
      PROVE  (written'[<<"AUDIT", c>>] = world' /\ Rooted(c)') \/ SenderLeft(c)'
  <2>1. <<"AUDIT", c>> \in Partitions
    BY Kinds
  <2>2. CASE <<"AUDIT", c>> \in ps
    BY <1>2, <2>1, <2>2
  <2>3. CASE <<"AUDIT", c>> \notin ps
    BY <1>1, <1>2, <1>3, <1>7, <1>8, <2>1, <2>3 DEF LeftInv
  <2> QED BY <2>2, <2>3
<1> QED BY <1>4, <1>5, <1>6, <1>8 DEF LeftInv

(* An action nothing names gets no row of its own by a write of others.     *)
LEMMA Unwritten ==
    ASSUME IInv, InUse, NEW ps, Write(ps), NEW a \in Actions, <<"ACTION", a>> \notin ps
    PROVE  Stands(<<"ACTION", a>>)' = Stands(<<"ACTION", a>>)
<1>1. TypeOK /\ world' = world /\ <<"ACTION", a>> \in Partitions
  BY Kinds DEF IInv, InUse
<1> QED BY <1>1, Writing

(* Who writes by a case has it rooted, or was left without a name.          *)
LEMMA SenderKnown ==
    ASSUME IInv, NEW a \in Actions
    PROVE  caseOf[a] \in Cases /\ (Rooted(caseOf[a]) \/ Unnamed(a))
<1>1. caseOf[a] \in Cases
  BY DEF IInv, TypeOK
<1>2. a \in chain[caseOf[a]] => Rooted(caseOf[a])
  BY <1>1 DEF IInv, ChainInv, RootInv
<1>3. a \notin chain[caseOf[a]] => Unnamed(a)
  BY DEF IInv, ChainInv, Unnamed
<1> QED BY <1>1, <1>2, <1>3

LEMMA LeftStart ==
    ASSUME IInv, LeftInv, NEW o \in Operations,
           StartOperation(o) \/ \E c \in Cases : ApplyMonitorStep(o, c)
    PROVE  LeftInv'
<1>1. UNCHANGED <<chain, execution, caseOf>> /\ Unlocked /\ InUse
  BY DEF StartOperation, ApplyMonitorStep
<1>2. CASE StartOperation(o)
  <2> DEFINE ps == {<<"OPERATION", o>>}
  <2>1. Write(ps) /\ marked' = marked \union ps
    BY <1>2 DEF StartOperation
  <2>2. \A a \in Actions : Unnamed(a) => Unnamed(a)'
    <3>1. \A a \in Actions : <<"ACTION", a>> \notin ps
      OBVIOUS
    <3> QED BY <1>1, <2>1, <3>1, Unwritten DEF Unnamed
  <2>3. marked' \subseteq CaseWorld \union OperationRows
    BY <2>1 DEF LeftInv, OperationRows
  <2> QED BY <1>1, <2>1, <2>2, <2>3, LeftByUse
<1>3. ASSUME NEW c \in Cases, ApplyMonitorStep(o, c)
      PROVE  LeftInv'
  <2> DEFINE ps == {<<"OPERATION", o>>, <<"CASE", c>>, <<"AUDIT", c>>}
  <2>1. Write(ps) /\ marked' = marked \union Registration(c)
    BY <1>3 DEF ApplyMonitorStep
  <2>2. \A a \in Actions : Unnamed(a) => Unnamed(a)'
    <3>1. \A a \in Actions : <<"ACTION", a>> \notin ps
      OBVIOUS
    <3> QED BY <1>1, <2>1, <3>1, Unwritten DEF Unnamed
  <2>3. marked' \subseteq CaseWorld \union OperationRows
    BY <2>1 DEF LeftInv, Registration, CaseWorld
  <2>4. Rooted(c)'
    BY <2>1 DEF Rooted
  <2>5. \A d \in Cases : <<"AUDIT", d>> \in ps => Rooted(d)'
    BY <2>4
  <2> QED BY <1>1, <2>1, <2>2, <2>3, <2>5, LeftByUse
<1> QED BY <1>2, <1>3

LEMMA LeftPropose ==
    ASSUME IInv, LeftInv, NEW a \in Actions, NEW c \in Cases, ProposeAction(a, c)
    PROVE  LeftInv'
<1> DEFINE ps == {<<"ACTION", a>>, <<"EXECUTION", a>>, <<"ACTION_CURRENT", c>>, <<"AUDIT", c>>}
<1>1. /\ Write(ps) /\ Unlocked /\ InUse /\ execution[a] = "NONE" /\ Stands(<<"CASE", c>>)
      /\ chain' = [chain EXCEPT ![c] = @ \union {a}] /\ caseOf' = [caseOf EXCEPT ![a] = c]
      /\ execution' = [execution EXCEPT ![a] = "OPEN"] /\ marked' = marked
  BY DEF ProposeAction
<1>2. /\ execution'[a] = "OPEN"
      /\ \A b \in Actions : b # a => caseOf'[b] = caseOf[b] /\ execution'[b] = execution[b]
      /\ \A d \in Cases : chain'[d] \subseteq chain[d] \union {a}
  BY <1>1 DEF IInv, TypeOK
<1>3. ASSUME NEW b \in Actions, b # a, Unnamed(b)
      PROVE  Unnamed(b)'
  <2>1. ~Stands(<<"ACTION", b>>)'
    <3>1. <<"ACTION", b>> \notin ps
      BY <1>3
    <3> QED BY <1>1, <1>3, <3>1, Unwritten DEF Unnamed
  <2>2. caseOf[b] \in Cases /\ b \notin chain'[caseOf[b]]
    BY <1>2, <1>3 DEF IInv, TypeOK, Unnamed
  <2> QED BY <1>2, <1>3, <2>1, <2>2 DEF Unnamed
<1>4. Rooted(c)'
  BY <1>1 DEF IInv, RootInv, Rooted
<1>5. \A d \in Cases : <<"AUDIT", d>> \in ps => Rooted(d)'
  BY <1>4
<1>6. \A b \in Actions : <<"EXECUTION", b>> \in ps => execution'[b] # "NONE"
  BY <1>2
<1>7. marked' \subseteq CaseWorld \union OperationRows
  BY <1>1 DEF LeftInv
<1> HIDE DEF ps
<1> QED BY <1>1, <1>2, <1>3, <1>5, <1>6, <1>7, LeftByUse

(* A step of a send, and of its projection.                                 *)
LEMMA LeftSend ==
    ASSUME IInv, LeftInv, NEW a \in Actions,
           BeginSend(a) \/ RecordSend(a) \/ ProjectActionOutcome(a)
    PROVE  LeftInv'
<1>1. PICK ps : /\ Write(ps)
                /\ <<"EXECUTION", a>> \in ps
                /\ \A b \in Actions : <<"ACTION", b>> \notin ps
                                        /\ (<<"EXECUTION", b>> \in ps => b = a)
                /\ \A c \in Cases : <<"AUDIT", c>> \in ps => c = caseOf[a]
  <2>1. CASE Write({<<"EXECUTION", a>>, <<"AUDIT", caseOf[a]>>})
    BY <2>1
  <2>2. CASE Write({<<"OUTBOUND", a>>, <<"CASE", caseOf[a]>>, <<"AUDIT", caseOf[a]>>,
                    <<"EXECUTION", a>>})
    BY <2>2
  <2> QED BY <2>1, <2>2 DEF BeginSend, RecordSend, ProjectActionOutcome
<1>2. /\ Unlocked /\ InUse /\ Stands(<<"EXECUTION", a>>) /\ UNCHANGED <<chain, marked, caseOf>>
      /\ \A b \in Actions : execution[b] # "NONE" => execution'[b] # "NONE"
  BY DEF BeginSend, RecordSend, ProjectActionOutcome, IInv, TypeOK
<1>3. \A b \in Actions : Unnamed(b) => Unnamed(b)'
  BY <1>1, <1>2, Writing, Kinds DEF Unnamed, IInv, InUse
<1>4. execution[a] # "NONE"
  BY <1>2 DEF LeftInv
<1>5. Stands(<<"EXECUTION", a>>)'
  BY <1>1, <1>2, Writing, Kinds DEF IInv, InUse
<1>6. Rooted(caseOf[a])' \/ SenderLeft(caseOf[a])'
  <2>1. Rooted(caseOf[a]) => Rooted(caseOf[a])'
    BY <1>2 DEF Rooted
  <2>2. Unnamed(a) => SenderLeft(caseOf[a])'
    BY <1>2, <1>3, <1>5 DEF SenderLeft
  <2> QED BY <2>1, <2>2, SenderKnown
<1>7. \A c \in Cases : <<"AUDIT", c>> \in ps => Rooted(c)' \/ SenderLeft(c)'
  BY <1>1, <1>2, <1>6
<1>8. /\ marked' \subseteq CaseWorld \union OperationRows
      /\ \A b \in Actions : <<"EXECUTION", b>> \in ps => execution'[b] # "NONE"
  BY <1>1, <1>2, <1>4 DEF LeftInv
<1> QED BY <1>1, <1>2, <1>3, <1>7, <1>8, LeftByUse

(* Resolved: an execution is found by the chain of a rooted case.           *)
LEMMA LeftResolve ==
    ASSUME IInv, LeftInv, NEW r \in Resets, ResolveTargets(r)
    PROVE  LeftInv'
<1>1. /\ targets' = [targets EXCEPT ![r] = Inventory] /\ pc' = [pc EXCEPT ![r] = "guard"]
      /\ UNCHANGED <<demo, world>> /\ pc[r] \in Running \union {"release"}
  BY DEF ResolveTargets, Go, Running
<1>2. UNCHANGED <<written, chain, marked, execution, caseOf>>
  BY <1>1 DEF demo
<1>3. \A p : Stands(p)' = Stands(p)
  BY <1>2 DEF Stands
<1>4. /\ \A c \in Cases : Rooted(c)' = Rooted(c) /\ SenderLeft(c)' = SenderLeft(c)
      /\ \A a \in Actions : Unnamed(a)' = Unnamed(a)
  BY <1>2, <1>3 DEF Rooted, SenderLeft, Unnamed
<1>5. ASSUME NEW a \in Actions, <<"EXECUTION", a>> \in Inventory
      PROVE  <<"AUDIT", caseOf[a]>> \in Inventory
  <2>1. <<"EXECUTION", a>> \notin Roots
    BY DEF Roots, Seed, Registration, LeftInv, CaseWorld, OperationRows
  <2>2. PICK c \in Cases : a \in chain[c]
    BY <1>5, <2>1 DEF Inventory, Reconciled
  <2>3. caseOf[a] = c /\ Rooted(c)
    BY <2>2 DEF IInv, ChainInv, RootInv
  <2>4. <<"AUDIT", c>> \in Roots
    BY <2>3 DEF Rooted, Roots, Registration
  <2> QED BY <2>3, <2>4 DEF Inventory
<1>6. ASSUME NEW q \in Resets, pc'[q] \in {"guard", "purge"}, NEW a \in Actions,
             <<"EXECUTION", a>> \in targets'[q]
      PROVE  <<"AUDIT", caseOf'[a]>> \in targets'[q]
  <2>1. q = r
    BY <1>1, <1>6, Alone DEF IInv, TypeOK, Running, Destructive
  <2>2. targets'[q] = Inventory
    BY <1>1, <2>1 DEF IInv, TypeOK
  <2> QED BY <1>2, <1>5, <1>6, <2>2
<1> QED BY <1>1, <1>2, <1>3, <1>4, <1>6 DEF LeftInv

(* Purged: an execution goes after the audit rows of its case.              *)
LEMMA LeftPurge ==
    ASSUME IInv, LeftInv, NEW r \in Resets, NEW p \in Partitions, PurgePartition(r, p)
    PROVE  LeftInv'
<1>1. /\ pc[r] = "purge" /\ p \in targets[r]
      /\ \A q \in targets[r] : Stands(q) => Order(p) <= Order(q)
      /\ written' = [written EXCEPT ![p] = 0] /\ marked' = marked
      /\ chain' = IF p[1] = "ACTION_CURRENT" THEN [chain EXCEPT ![p[2]] = {}] ELSE chain
      /\ UNCHANGED <<execution, caseOf, world, pc, targets>>
  BY DEF PurgePartition, Registered
<1>2. \A q \in Partitions : /\ Stands(q)' => Stands(q) /\ written'[q] = written[q]
                            /\ q # p /\ Stands(q) => Stands(q)'
  BY <1>1 DEF IInv, TypeOK, Stands
<1>3. \A c \in Cases : chain'[c] \subseteq chain[c]
  <2>1. chain \in [Cases -> SUBSET Actions]
    BY DEF IInv, TypeOK
  <2> QED BY <1>1, <2>1
<1>4. \A a \in Actions : Unnamed(a) => Unnamed(a)'
  <2>1. \A a \in Actions : caseOf[a] \in Cases
    BY DEF IInv, TypeOK
  <2> QED BY <1>1, <1>2, <1>3, <2>1, Kinds DEF Unnamed
<1>5. \A c \in Cases : Rooted(c)' = Rooted(c)
  BY <1>1 DEF Rooted
<1>6. ASSUME NEW c \in Cases, Stands(<<"AUDIT", c>>), SenderLeft(c), Stands(<<"AUDIT", c>>)'
      PROVE  SenderLeft(c)'
  <2>1. PICK a \in Actions : caseOf[a] = c /\ Unnamed(a) /\ Stands(<<"EXECUTION", a>>)
    BY <1>6 DEF SenderLeft
  <2>2. p # <<"EXECUTION", a>>
    <3>1. SUFFICES ASSUME p = <<"EXECUTION", a>> PROVE FALSE
      OBVIOUS
    <3>2. <<"AUDIT", c>> \in targets[r]
      BY <1>1, <2>1, <3>1 DEF LeftInv
    <3>3. Order(p) <= Order(<<"AUDIT", c>>)
      BY <1>1, <1>6, <3>2
    <3>4. Order(p) = 6 /\ Order(<<"AUDIT", c>>) = 5
      BY <3>1 DEF Order
    <3> QED BY <3>3, <3>4
  <2>3. Stands(<<"EXECUTION", a>>)' /\ Unnamed(a)' /\ caseOf'[a] = c
    BY <1>1, <1>2, <1>4, <2>1, <2>2, Kinds
  <2> QED BY <2>3 DEF SenderLeft
<1>7. \A a \in Actions, kind \in {"EXECUTION", "OUTBOUND"} :
          Stands(<<kind, a>>)' => written'[<<kind, a>>] = world' \/ Unnamed(a)'
  BY <1>1, <1>2, <1>4, Kinds DEF LeftInv
<1>8. \A c \in Cases :
          Stands(<<"AUDIT", c>>)'
              => (written'[<<"AUDIT", c>>] = world' /\ Rooted(c)') \/ SenderLeft(c)'
  BY <1>1, <1>2, <1>5, <1>6, Kinds DEF LeftInv
<1> QED BY <1>1, <1>2, <1>7, <1>8, Kinds DEF LeftInv

(* A world turned: what stands is of the old one, and nothing names it.     *)
LEMMA LeftRenew ==
    ASSUME IInv, LeftInv, NEW r \in Resets,
           Reseed(r) \/ SeedDemo(r) \/ ClearRegistrations(r)
    PROVE  LeftInv'
<1>1. /\ pc[r] \in {"reseed", "seed", "clear"} /\ UNCHANGED <<chain, execution, caseOf, targets>>
      /\ marked' \subseteq marked
      /\ \A q \in Resets : pc'[q] \in {"guard", "purge"} => pc[q] \in {"guard", "purge"}
  BY DEF Reseed, SeedDemo, ClearRegistrations, Go, demo, IInv, TypeOK
<1>2. \A p \in Partitions : p # Seed => Stands(p)' = Stands(p)
  <2>1. CASE SeedDemo(r)
    BY <2>1, Writing DEF SeedDemo, IInv
  <2>2. CASE Reseed(r) \/ ClearRegistrations(r)
    BY <2>2 DEF Reseed, ClearRegistrations, demo, Stands
  <2> QED BY <2>1, <2>2, <1>1 DEF Reseed, SeedDemo, ClearRegistrations
<1>3. /\ \A c \in Cases, kind \in {"CASE", "AUDIT", "ACTION_CURRENT"} : <<kind, c>> # Seed
      /\ \A a \in Actions, kind \in {"ACTION", "EXECUTION", "OUTBOUND"} : <<kind, a>> # Seed
  BY DEF Seed
<1>4. \A a \in Actions : Unnamed(a)'
  <2>1. \A a \in Actions : ~Stands(<<"ACTION", a>>)' /\ a \notin chain[caseOf[a]]
    BY <1>1, <1>2, <1>3, NothingRooted, Kinds DEF IInv, TypeOK
  <2> QED BY <1>1, <2>1 DEF Unnamed
<1>5. \A c \in Cases : SenderLeft(c) => SenderLeft(c)'
  BY <1>1, <1>2, <1>3, <1>4, Kinds DEF SenderLeft
<1>6. \A c \in Cases : Stands(<<"AUDIT", c>>) => SenderLeft(c)
  BY <1>1, NothingRooted DEF LeftInv
<1>7. \A c \in Cases : Stands(<<"AUDIT", c>>)' => SenderLeft(c)'
  BY <1>2, <1>3, <1>5, <1>6, Kinds
<1>8. \A a \in Actions : Stands(<<"EXECUTION", a>>)' => execution'[a] # "NONE"
  BY <1>1, <1>2, <1>3, Kinds DEF LeftInv
<1> QED BY <1>1, <1>4, <1>7, <1>8 DEF LeftInv

LEMMA LeftOK ==
    ASSUME IInv, LeftInv, [Next]_vars
    PROVE  LeftInv'
<1>1. CASE Use
  <2>1. ASSUME NEW c \in Cases,
               BeginSideEffect(c) \/ SideEffectHappens(c) \/ CompleteSideEffect(c)
        PROVE  LeftInv'
    <3>1. UNCHANGED <<written, chain, marked, execution, caseOf, world, pc, targets>>
      BY <2>1 DEF BeginSideEffect, SideEffectHappens, CompleteSideEffect, InUse
    <3>2. \A p : Stands(p)' = Stands(p)
      BY <3>1 DEF Stands
    <3>3. /\ \A d \in Cases : Rooted(d)' = Rooted(d) /\ SenderLeft(d)' = SenderLeft(d)
          /\ \A a \in Actions : Unnamed(a)' = Unnamed(a)
      BY <3>1, <3>2 DEF Rooted, SenderLeft, Unnamed
    <3> QED BY <3>1, <3>2, <3>3 DEF LeftInv
  <2> QED BY <1>1, <2>1, LeftStart, LeftPropose, LeftSend DEF Use
<1>2. ASSUME NEW r \in Resets, Reset(r)
      PROVE  LeftInv'
  <2>1. CASE \/ ReadReceipt(r) \/ Acquire(r) \/ Contended(r) \/ Recheck(r) \/ Guard(r)
             \/ VerifyPurged(r) \/ RecordReceipt(r) \/ ReceiptUnanswered(r) \/ Release(r)
             \/ StageFails(r) \/ LoseInvocation(r)
    <3>1. UNCHANGED <<demo, world, targets>>
      BY <2>1 DEF ReadReceipt, Acquire, Contended, Recheck, Guard, VerifyPurged, RecordReceipt,
                  ReceiptUnanswered, Release, StageFails, LoseInvocation
    <3>2. \A q \in Resets : pc'[q] \in {"guard", "purge"} => pc[q] \in {"guard", "purge"}
      BY <2>1 DEF ReadReceipt, Acquire, Contended, Recheck, Guard, VerifyPurged, RecordReceipt,
                  ReceiptUnanswered, Release, StageFails, LoseInvocation, Go, IInv, TypeOK
    <3> QED BY <3>1, <3>2, LeftStill
  <2> QED BY <1>2, <2>1, LeftResolve, LeftPurge, LeftRenew DEF Reset
<1>3. CASE UNCHANGED vars
  BY <1>3, LeftStill DEF vars
<1> QED BY <1>1, <1>2, <1>3 DEF Next

LEMMA LeftInit == ASSUME Init PROVE LeftInv
<1>1. \A p \in Partitions : Stands(p) => p = Seed
  BY DEF Init, Stands
<1> QED BY <1>1, Kinds DEF Init, LeftInv, Seed

(* It holds always: what is left behind stays told apart through every use  *)
(* and every step, failure and loss of a reset (_all_target_partitions).    *)
THEOREM LeftInductive == Spec => []LeftInv
<1>1. Init => LeftInv
  BY LeftInit
<1>2. IInv /\ LeftInv /\ [Next]_vars => LeftInv'
  BY LeftOK
<1> QED BY <1>1, <1>2, Inductive, PTL DEF Spec

(* A row of a retired world is a send row of an action that an interrupted  *)
(* purge left without a name, what its sender wrote by its case since, or a *)
(* late worker's progress, and nothing else (the interlock, the markers,    *)
(* _all_target_partitions).                                                 *)
THEOREM Retired == Spec => []OldWorldIsGone
<1>1. ASSUME IInv, LeftInv PROVE OldWorldIsGone
  <2>1. ASSUME NEW p \in Partitions, Stands(p), written[p] < world
        PROVE  \/ /\ faults > 0
                  /\ \/ p[1] \in {"EXECUTION", "OUTBOUND"} /\ Unnamed(p[2])
                     \/ p[1] = "AUDIT" /\ SenderLeft(p[2])
               \/ p[1] = "OPERATION" /\ began[p[2]] < written[p]
    <3>1. written[p] # world /\ (faults = 0 \/ faults > 0)
      BY <1>1, <2>1 DEF IInv, TypeOK
    <3>2. p # Seed
      BY <1>1, <2>1, <3>1 DEF IInv, RootInv
    <3>3. ASSUME NEW c \in Cases, NEW kind \in {"CASE", "AUDIT", "ACTION_CURRENT"}, p = <<kind, c>>
          PROVE  p[1] = "AUDIT" /\ faults > 0 /\ SenderLeft(p[2])
      <4>1. kind = "AUDIT"
        BY <1>1, <2>1, <3>1, <3>3 DEF IInv, RootInv
      <4> QED BY <1>1, <2>1, <3>1, <3>3, <4>1 DEF IInv, RootInv, LeftInv
    <3>4. ASSUME NEW a \in Actions, NEW kind \in {"ACTION", "EXECUTION", "OUTBOUND"}, p = <<kind, a>>
          PROVE  p[1] \in {"EXECUTION", "OUTBOUND"} /\ faults > 0 /\ Unnamed(p[2])
      <4>1. kind \in {"EXECUTION", "OUTBOUND"}
        BY <1>1, <2>1, <3>1, <3>4 DEF IInv, ChainInv
      <4>2. faults > 0
        BY <1>1, <2>1, <3>1, <3>4, <4>1 DEF IInv, SendInv
      <4> QED BY <1>1, <2>1, <3>1, <3>4, <4>1, <4>2 DEF LeftInv
    <3>5. ASSUME NEW o \in Operations, p = <<"OPERATION", o>>
          PROVE  p[1] = "OPERATION" /\ began[p[2]] < written[p]
      BY <1>1, <2>1, <3>1, <3>5 DEF IInv, RootInv
    <3> QED BY <3>2, <3>3, <3>4, <3>5, Kinds
  <2> QED BY <2>1 DEF OldWorldIsGone
<1> QED BY <1>1, Inductive, LeftInductive, PTL

(* A send whose outcome is open keeps its record, and a request that may    *)
(* still take effect its case (_guard_no_side_effects,                      *)
(* _guard_no_in_flight_send, the interlock).                                *)
THEOREM Spared == Spec => []InFlightKeepsItsRecord
<1>1. IInv => InFlightKeepsItsRecord
  BY DEF IInv
<1> QED BY <1>1, Inductive, PTL

(* Nothing is destroyed for a key whose receipt is recorded, nor by anybody *)
(* who does not hold the lock (deployed_demo_reset.py, reset).              *)
THEOREM Once == Spec => []DestroyedOnce
<1>1. IInv => DestroyedOnce
  BY DEF IInv, LockInv, DestroyedOnce, Running, Destructive
<1> QED BY <1>1, Inductive, PTL
=============================================================================
