----------------------- MODULE StartOperation_proofs -----------------------
(***************************************************************************)
(* Proofs about StartOperation, for any requests, keys, batches and lost   *)
(* answers.                                                                *)
(***************************************************************************)
EXTENDS StartOperation, TLAPS

Records == [status : {"ABSENT", "IN_PROGRESS", "COMPLETED"}, body : SUBSET Messages,
            names : Requests \union {None}]

StoreTypes ==
    /\ start \in [Keys -> Records]
    /\ operation \in [Requests -> (SUBSET Ids) \union {None}]
    /\ stored \subseteq Ids
    /\ channel \in [Channels -> Ids \union {None}]
    /\ record \in [Keys \X Channels -> Ids \union {None}]
    /\ origin \in [Photos -> Media \union {None}]

FlowTypes ==
    /\ pc \in [Requests -> Steps]
    /\ retried \in [Requests -> BOOLEAN]
    /\ root \in [Requests -> BOOLEAN]
    /\ result \in [Requests -> Seq(Ids)]
    /\ answer \in [Requests -> Requests \union {None}]
    /\ pending \in [Requests -> BOOLEAN]

(* What is durable: a record and the operation it names, the messages and   *)
(* their locks, the jobs.                                                   *)
StartInv ==
    /\ \A k \in Keys : /\ start[k].status = "COMPLETED" <=> start[k].names # None
                       /\ start[k].names # None => /\ operation[start[k].names] # None
                                                   /\ KeyOf[start[k].names] = k
    /\ \A r \in Requests : operation[r] # None => StartRecord(r).names = r
    /\ \A id \in stored : StartRecord(id[1]).status # "ABSENT" /\ StartRecord(id[1]).body = Body(id[1])

JobInv ==
    /\ claimed \subseteq {r \in Requests : operation[r] # None}
    /\ jobs \subseteq Requests \X SUBSET Ids
    /\ \A j \in jobs : operation[j[1]] # None

(* What an attempt holds: the request its record was taken for, an answer   *)
(* that is the record's, and a root it found for the message under way.     *)
Bound(r) ==
    pc[r] \notin {"reserve", "done", "failed"} =>
        StartRecord(r).status # "ABSENT" /\ StartRecord(r).body = Body(r)

Answered(r) ==
    /\ answer[r] # None => answer[r] = StartRecord(r).names /\ operation[answer[r]] # None
    /\ pending[r] => answer[r] # None

Counted(r) ==
    /\ Len(result[r]) <= Len(BodyOf[r])
    /\ pc[r] = "reserve" => result[r] = <<>>
    /\ pc[r] \in {"classify", "origin", "write", "prove", "settle"}
           => Len(result[r]) < Len(BodyOf[r])

Founded(r) ==
    pc[r] \in {"write", "prove"} /\ PhotoOf[Message(r)] # None /\ ~root[r]
        => origin[PhotoOf[Message(r)]] = MediaOf[Message(r)]

FlowInv(r) == Bound(r) /\ Answered(r) /\ Counted(r) /\ Founded(r)

IInv ==
    /\ StoreTypes /\ FlowTypes /\ lost \in 0 .. MaxLost
    /\ StartInv /\ FirstWordStands /\ JobInv
    /\ \A r \in Requests : FlowInv(r)

------------------------------------------------------------------------------
(* What stands stays: a record keeps its request and its operation, an      *)
(* operation exists for good, and a root keeps its type.                    *)
Grows ==
    /\ \A k \in Keys : /\ start[k].status # "ABSENT" => /\ start'[k].status # "ABSENT"
                                                        /\ start'[k].body = start[k].body
                       /\ start[k].names # None => start'[k].names = start[k].names
    /\ \A r \in Requests : operation[r] # None => operation'[r] # None
    /\ \A p \in Photos : origin[p] # None => origin'[p] = origin[p]

Kept == StoreTypes' /\ StartInv' /\ FirstWordStands' /\ Grows

Untouched(q) ==
    /\ pc'[q] = pc[q] /\ retried'[q] = retried[q] /\ root'[q] = root[q]
    /\ result'[q] = result[q] /\ answer'[q] = answer[q] /\ pending'[q] = pending[q]

(* The absent value is none of the others.                                  *)
LEMMA NoneIsNothing ==
    /\ None \notin Requests /\ None \notin Media /\ None \notin Photos /\ None \notin Ids
    /\ None \notin SUBSET Ids
BY StartAssumption DEF Ids

(* A batch is of messages.                                                  *)
LEMMA BodyIs ==
    ASSUME NEW r \in Requests
    PROVE  /\ KeyOf[r] \in Keys /\ BodyOf[r] \in Seq(Messages)
           /\ Len(BodyOf[r]) \in Nat /\ Len(BodyOf[r]) > 0
           /\ Body(r) \in SUBSET Messages
<1>1. KeyOf[r] \in Keys /\ BodyOf[r] \in Seq(Messages) /\ BodyOf[r] # <<>>
  BY StartAssumption, BatchAssumption
<1>2. Len(BodyOf[r]) \in Nat /\ Len(BodyOf[r]) > 0
  BY <1>1
<1>3. Body(r) \in SUBSET Messages
  BY <1>1 DEF Body
<1>. QED
  BY <1>1, <1>2, <1>3

(* The message under way is one of the batch.                               *)
LEMMA MessageIs ==
    ASSUME FlowTypes, NEW r \in Requests, Len(result[r]) < Len(BodyOf[r])
    PROVE  /\ Message(r) \in Messages /\ ChannelOf[Message(r)] \in Channels
           /\ PhotoOf[Message(r)] \in Photos \union {None} /\ MediaOf[Message(r)] \in Media
           /\ Drawn(r) \in Ids /\ Drawn(r)[1] = r /\ Drawn(r)[2] = Message(r)
<1>1. Len(result[r]) \in Nat
  BY DEF FlowTypes
<1>2. Len(result[r]) + 1 \in 1 .. Len(BodyOf[r])
  BY <1>1, BodyIs
<1>3. Message(r) \in Messages
  BY <1>2, BodyIs DEF Message
<1>4. /\ ChannelOf[Message(r)] \in Channels /\ MediaOf[Message(r)] \in Media
      /\ PhotoOf[Message(r)] \in Photos \union {None}
  BY <1>3, StartAssumption
<1>5. Drawn(r) \in Ids /\ Drawn(r)[1] = r /\ Drawn(r)[2] = Message(r)
  BY <1>3 DEF Drawn, Ids
<1>. QED
  BY <1>3, <1>4, <1>5

(* The identifiers of a batch are identifiers.                              *)
LEMMA LocatorsAre ==
    ASSUME FlowTypes, NEW r \in Requests
    PROVE  Locators(r) \in SUBSET Ids
<1>1. result[r] \in Seq(Ids)
  BY DEF FlowTypes
<1>. QED
  BY <1>1 DEF Locators

------------------------------------------------------------------------------
(* The initial states satisfy the invariant.                                *)
LEMMA InitOK == Init => IInv
<1>. SUFFICES ASSUME Init PROVE IInv
  OBVIOUS
<1>1. StoreTypes
  <2>1. start \in [Keys -> Records]
    <3>1. Absent \in Records
      BY DEF Absent, Records
    <3>. QED
      BY <3>1 DEF Init
  <2>. QED
    BY <2>1 DEF Init, StoreTypes
<1>2. FlowTypes
  <2>1. "reserve" \in Steps
    BY DEF Steps
  <2>2. <<>> \in Seq(Ids)
    OBVIOUS
  <2>. QED
    BY <2>1, <2>2 DEF Init, FlowTypes
<1>3. lost \in 0 .. MaxLost
  BY StartAssumption DEF Init
<1>4. StartInv
  BY NoneIsNothing DEF Init, StartInv, Absent
<1>5. FirstWordStands /\ JobInv
  BY DEF Init, FirstWordStands, JobInv
<1>6. ASSUME NEW r \in Requests PROVE FlowInv(r)
  <2>1. Len(result[r]) = 0 /\ pc[r] = "reserve" /\ answer[r] = None /\ pending[r] = FALSE
    BY DEF Init
  <2>2. Counted(r)
    BY <2>1, BodyIs DEF Counted, Init
  <2>. QED
    BY <2>1, <2>2 DEF FlowInv, Bound, Answered, Founded
<1>. QED
  BY <1>1, <1>2, <1>3, <1>4, <1>5, <1>6 DEF IInv

------------------------------------------------------------------------------
(* A step that writes nothing durable leaves everything as it stands.       *)
LEMMA SameStore ==
    ASSUME IInv, UNCHANGED store
    PROVE  Kept
<1>1. start' = start /\ operation' = operation /\ stored' = stored
  BY DEF store
<1>2. channel' = channel /\ record' = record /\ origin' = origin
  BY DEF store
<1>3. StoreTypes' /\ StartInv' /\ FirstWordStands'
  BY <1>1, <1>2 DEF IInv, StoreTypes, StartInv, StartRecord, FirstWordStands
<1>4. Grows
  BY <1>1, <1>2 DEF Grows
<1>. QED
  BY <1>3, <1>4 DEF Kept

(* A record that is taken was nobody's.                                     *)
LEMMA CreatedKept ==
    ASSUME IInv, NEW r \in Requests, StartRecord(r).status = "ABSENT", start' = Created(r),
           UNCHANGED <<operation, stored, channel, record, origin>>
    PROVE  Kept
<1>. DEFINE k0 == KeyOf[r]
            new == [status |-> "IN_PROGRESS", body |-> Body(r), names |-> None]
<1>1. k0 \in Keys /\ start \in [Keys -> Records] /\ start[k0].status = "ABSENT"
  BY BodyIs DEF IInv, StoreTypes, StartRecord
<1>2. new \in Records
  BY BodyIs DEF Records
<1>3. start' = [start EXCEPT ![k0] = new]
  BY DEF Created
<1>4. start'[k0] = new /\ \A k \in Keys : k # k0 => start'[k] = start[k]
  BY <1>1, <1>3
<1>5. start[k0].names = None
  BY <1>1 DEF IInv, StartInv
<1>. HIDE DEF k0, new
<1>6. new.status = "IN_PROGRESS" /\ new.names = None
  BY DEF new
<1>7. StoreTypes'
  BY <1>1, <1>2, <1>3 DEF IInv, StoreTypes
<1>8. StartInv'
  <2>1. ASSUME NEW k \in Keys
        PROVE  (/\ start[k].status = "COMPLETED" <=> start[k].names # None
                /\ start[k].names # None => /\ operation[start[k].names] # None
                                            /\ KeyOf[start[k].names] = k)'
    BY <1>4, <1>6 DEF IInv, StartInv
  <2>2. ASSUME NEW q \in Requests, operation'[q] # None PROVE StartRecord(q)'.names = q
    <3>1. start[KeyOf[q]].names = q /\ q # None
      BY <2>2, NoneIsNothing DEF IInv, StartInv, StartRecord
    <3>2. KeyOf[q] # k0
      BY <3>1, <1>5
    <3>. QED
      BY <3>1, <3>2, <1>4, BodyIs DEF StartRecord
  <2>3. ASSUME NEW id \in stored'
        PROVE  StartRecord(id[1])'.status # "ABSENT" /\ StartRecord(id[1])'.body = Body(id[1])
    <3>1. id \in stored /\ id[1] \in Requests
      BY <2>3 DEF IInv, StoreTypes, Ids
    <3>2. start[KeyOf[id[1]]].status # "ABSENT" /\ start[KeyOf[id[1]]].body = Body(id[1])
      BY <3>1 DEF IInv, StartInv, StartRecord
    <3>3. KeyOf[id[1]] # k0
      BY <3>2, <1>1
    <3>. QED
      BY <3>1, <3>2, <3>3, <1>4, BodyIs DEF StartRecord
  <2>. QED
    BY <2>1, <2>2, <2>3 DEF StartInv, StartRecord, Body
<1>9. FirstWordStands'
  BY DEF IInv, FirstWordStands
<1>10. Grows
  <2>1. \A k \in Keys : /\ start[k].status # "ABSENT" => start'[k].status # "ABSENT" /\ start'[k].body = start[k].body
                        /\ start[k].names # None => start'[k].names = start[k].names
    BY <1>1, <1>4, <1>5
  <2>. QED
    BY <2>1 DEF Grows
<1>. QED
  BY <1>7, <1>8, <1>9, <1>10 DEF Kept

(* A message that is stored was not said before, and its root is of its type. *)
LEMMA StoreKept ==
    ASSUME IInv, NEW r \in Requests, pc[r] = "write", Applicable(r), Store(r)
    PROVE  Kept
<1>. DEFINE m == Message(r)
            c0 == ChannelOf[m]
            p0 == PhotoOf[m]
            d == Drawn(r)
<1>1. Len(result[r]) < Len(BodyOf[r])
  BY DEF IInv, FlowInv, Counted
<1>2. /\ m \in Messages /\ c0 \in Channels /\ p0 \in Photos \union {None} /\ MediaOf[m] \in Media
      /\ d \in Ids /\ d[1] = r /\ d[2] = m
  BY <1>1, MessageIs DEF IInv
<1>3. channel[c0] = None /\ (root[r] => origin[p0] = None)
  BY DEF Applicable, Channel
<1>4. /\ stored' = stored \union {d} /\ channel' = [channel EXCEPT ![c0] = d]
      /\ record' = [record EXCEPT ![<<KeyOf[r], c0>>] = d]
      /\ origin' = IF root[r] THEN [origin EXCEPT ![p0] = MediaOf[m]] ELSE origin
      /\ start' = start /\ operation' = operation
  BY DEF Store
<1>5. p0 # None /\ ~root[r] => origin[p0] = MediaOf[m]
  BY DEF IInv, FlowInv, Founded
<1>6. StartRecord(r).status # "ABSENT" /\ StartRecord(r).body = Body(r)
  BY DEF IInv, FlowInv, Bound
<1>7. /\ stored \subseteq Ids /\ channel \in [Channels -> Ids \union {None}]
      /\ record \in [Keys \X Channels -> Ids \union {None}] /\ origin \in [Photos -> Media \union {None}]
  BY DEF IInv, StoreTypes
<1>. HIDE DEF m, c0, p0, d
<1>8. channel'[c0] = d /\ \A c \in Channels : c # c0 => channel'[c] = channel[c]
  BY <1>2, <1>4, <1>7
<1>9. \A p \in Photos : origin[p] # None => origin'[p] = origin[p]
  <2>1. CASE root[r]
    BY <2>1, <1>3, <1>4, <1>7
  <2>2. CASE ~root[r]
    BY <2>2, <1>4
  <2>. QED
    BY <2>1, <2>2
<1>10. p0 # None => origin'[p0] = MediaOf[m]
  BY <1>2, <1>4, <1>5, <1>7
<1>11. StoreTypes'
  <2>1. origin' \in [Photos -> Media \union {None}]
    BY <1>2, <1>4, <1>7
  <2>2. stored' \subseteq Ids /\ channel' \in [Channels -> Ids \union {None}]
    BY <1>2, <1>4, <1>7
  <2>3. record' \in [Keys \X Channels -> Ids \union {None}]
    BY <1>2, <1>4, <1>7
  <2>. QED
    BY <2>1, <2>2, <2>3, <1>4 DEF IInv, StoreTypes
<1>12. StartInv'
  <2>1. ASSUME NEW id \in stored'
        PROVE  StartRecord(id[1]).status # "ABSENT" /\ StartRecord(id[1]).body = Body(id[1])
    <3>1. CASE id = d
      BY <3>1, <1>2, <1>6
    <3>2. CASE id # d
      BY <3>2, <2>1, <1>4 DEF IInv, StartInv
    <3>. QED
      BY <3>1, <3>2
  <2>. QED
    BY <2>1, <1>4 DEF IInv, StartInv, StartRecord, Body
<1>13. FirstWordStands'
  <2>1. ASSUME NEW id \in stored'
        PROVE  /\ channel'[ChannelOf[id[2]]] = id
               /\ PhotoOf[id[2]] # None => origin'[PhotoOf[id[2]]] = MediaOf[id[2]]
    <3>1. CASE id = d
      BY <3>1, <1>2, <1>8, <1>10 DEF m, c0, p0
    <3>2. CASE id # d
      <4>1. id \in stored /\ id[2] \in Messages
        BY <3>2, <2>1, <1>4, <1>7 DEF Ids
      <4>2. /\ channel[ChannelOf[id[2]]] = id
            /\ PhotoOf[id[2]] # None => origin[PhotoOf[id[2]]] = MediaOf[id[2]]
        BY <4>1 DEF IInv, FirstWordStands
      <4>3. id # None
        BY <4>1, <1>7, NoneIsNothing
      <4>4. ChannelOf[id[2]] # c0 /\ ChannelOf[id[2]] \in Channels
        BY <4>1, <4>2, <4>3, <1>3, StartAssumption
      <4>5. PhotoOf[id[2]] # None => PhotoOf[id[2]] \in Photos /\ MediaOf[id[2]] # None
        BY <4>1, StartAssumption
      <4>. QED
        BY <4>2, <4>4, <4>5, <1>8, <1>9
    <3>. QED
      BY <3>1, <3>2
  <2>. QED
    BY <2>1 DEF FirstWordStands
<1>14. Grows
  BY <1>4, <1>9 DEF Grows
<1>. QED
  BY <1>11, <1>12, <1>13, <1>14 DEF Kept

(* A record that is completed names the operation created with it.          *)
LEMMA CreateKept ==
    ASSUME IInv, NEW r \in Requests, Completable(r), Create(r)
    PROVE  Kept
<1>. DEFINE k0 == KeyOf[r]
            new == [start[k0] EXCEPT !.status = "COMPLETED", !.names = r]
<1>1. k0 \in Keys /\ start \in [Keys -> Records] /\ start[k0].status = "IN_PROGRESS"
  BY BodyIs DEF IInv, StoreTypes, StartRecord, Completable
<1>2. start' = [start EXCEPT ![k0] = new]
  <2>1. start' = [start EXCEPT ![k0].status = "COMPLETED", ![k0].names = r]
    BY DEF Create
  <2>. QED
    BY <2>1, <1>1
<1>3. new.status = "COMPLETED" /\ new.names = r /\ new.body = start[k0].body /\ new \in Records
  BY <1>1 DEF Records
<1>4. operation' = [operation EXCEPT ![r] = Locators(r)]
  BY DEF Create
<1>5. stored' = stored /\ channel' = channel /\ record' = record /\ origin' = origin
  BY DEF Create
<1>6. start[k0].names = None
  BY <1>1 DEF IInv, StartInv
<1>7. Locators(r) \in SUBSET Ids /\ Locators(r) # None
  BY LocatorsAre, NoneIsNothing DEF IInv
<1>8. operation \in [Requests -> (SUBSET Ids) \union {None}]
  BY DEF IInv, StoreTypes
<1>. HIDE DEF k0, new
<1>9. start'[k0] = new /\ \A k \in Keys : k # k0 => start'[k] = start[k]
  BY <1>1, <1>2
<1>10. operation'[r] # None /\ \A q \in Requests : q # r => operation'[q] = operation[q]
  BY <1>4, <1>7, <1>8
<1>11. StoreTypes'
  <2>1. start' \in [Keys -> Records]
    BY <1>1, <1>2, <1>3
  <2>2. operation' \in [Requests -> (SUBSET Ids) \union {None}]
    BY <1>4, <1>7, <1>8
  <2>. QED
    BY <2>1, <2>2, <1>5 DEF IInv, StoreTypes
<1>12. StartInv'
  <2>1. ASSUME NEW k \in Keys
        PROVE  (/\ start[k].status = "COMPLETED" <=> start[k].names # None
                /\ start[k].names # None => /\ operation[start[k].names] # None
                                            /\ KeyOf[start[k].names] = k)'
    <3>1. CASE k = k0
      BY <3>1, <1>3, <1>9, <1>10, NoneIsNothing DEF k0
    <3>2. CASE k # k0
      <4>1. start'[k] = start[k] /\ start[k].names \in Requests \union {None}
        BY <3>2, <1>1, <1>9 DEF Records
      <4>2. /\ start[k].status = "COMPLETED" <=> start[k].names # None
            /\ start[k].names # None => operation[start[k].names] # None /\ KeyOf[start[k].names] = k
        BY DEF IInv, StartInv
      <4>. QED
        BY <4>1, <4>2, <1>10
    <3>. QED
      BY <3>1, <3>2
  <2>2. ASSUME NEW q \in Requests, operation'[q] # None PROVE StartRecord(q)'.names = q
    <3>1. CASE q = r
      BY <3>1, <1>3, <1>9 DEF StartRecord, k0
    <3>2. CASE q # r
      <4>1. start[KeyOf[q]].names = q
        BY <3>2, <2>2, <1>10 DEF IInv, StartInv, StartRecord
      <4>2. KeyOf[q] # k0
        BY <4>1, <1>6, NoneIsNothing
      <4>. QED
        BY <4>1, <4>2, <1>9, BodyIs DEF StartRecord
    <3>. QED
      BY <3>1, <3>2
  <2>3. ASSUME NEW id \in stored'
        PROVE  StartRecord(id[1])'.status # "ABSENT" /\ StartRecord(id[1])'.body = Body(id[1])
    <3>1. id \in stored /\ id[1] \in Requests
      BY <2>3, <1>5 DEF IInv, StoreTypes, Ids
    <3>2. start[KeyOf[id[1]]].status # "ABSENT" /\ start[KeyOf[id[1]]].body = Body(id[1])
      BY <3>1 DEF IInv, StartInv, StartRecord
    <3>. QED
      BY <3>1, <3>2, <1>3, <1>9, BodyIs DEF StartRecord
  <2>. QED
    BY <2>1, <2>2, <2>3 DEF StartInv, StartRecord, Body
<1>13. FirstWordStands'
  BY <1>5 DEF IInv, FirstWordStands
<1>14. Grows
  <2>1. \A k \in Keys : /\ start[k].status # "ABSENT" => start'[k].status # "ABSENT" /\ start'[k].body = start[k].body
                        /\ start[k].names # None => start'[k].names = start[k].names
    BY <1>3, <1>6, <1>9
  <2>. QED
    BY <2>1, <1>5, <1>10 DEF Grows
<1>. QED
  BY <1>11, <1>12, <1>13, <1>14 DEF Kept

(* Jobs and claims stand with the operations they are about.                *)
LEMMA JobsKept ==
    ASSUME IInv, Grows, UNCHANGED <<claimed, jobs>>
    PROVE  JobInv'
<1>1. /\ claimed \subseteq {r \in Requests : operation[r] # None}
      /\ jobs \subseteq Requests \X SUBSET Ids /\ \A j \in jobs : operation[j[1]] # None
  BY DEF IInv, JobInv
<1>2. claimed' \subseteq {r \in Requests : operation'[r] # None}
  BY <1>1 DEF Grows
<1>3. \A j \in jobs' : operation'[j[1]] # None
  <2>1. \A j \in jobs : j[1] \in Requests
    BY <1>1
  <2>. QED
    BY <1>1, <2>1 DEF Grows
<1>. QED
  BY <1>1, <1>2, <1>3 DEF JobInv

------------------------------------------------------------------------------
(* What an attempt holds stands, whatever another one does.                 *)
LEMMA UntouchedOK ==
    ASSUME IInv, Kept, NEW q \in Requests, Untouched(q)
    PROVE  FlowInv(q)'
<1>1. KeyOf[q] \in Keys /\ FlowInv(q) /\ Grows
  BY BodyIs DEF IInv, Kept
<1>2. Message(q)' = Message(q)
  BY DEF Message, Untouched
<1>3. Bound(q)'
  BY <1>1 DEF FlowInv, Bound, Untouched, Grows, StartRecord, Body
<1>4. Answered(q)'
  <2>1. answer[q] # None => answer[q] \in Requests
    BY DEF IInv, FlowTypes
  <2>. QED
    BY <1>1, <2>1 DEF FlowInv, Answered, Untouched, Grows, StartRecord
<1>5. Counted(q)'
  BY <1>1 DEF FlowInv, Counted, Untouched
<1>6. Founded(q)'
  <2>1. ASSUME pc[q] \in {"write", "prove"}, PhotoOf[Message(q)] # None, ~root[q]
        PROVE  origin'[PhotoOf[Message(q)]] = MediaOf[Message(q)]
    <3>1. origin[PhotoOf[Message(q)]] = MediaOf[Message(q)]
      BY <2>1, <1>1 DEF FlowInv, Founded
    <3>2. PhotoOf[Message(q)] \in Photos /\ MediaOf[Message(q)] # None
      BY <2>1, <1>1, MessageIs, NoneIsNothing DEF FlowInv, Counted, IInv
    <3>. QED
      BY <3>1, <3>2, <1>1 DEF Grows
  <2>. QED
    BY <2>1, <1>2 DEF Founded, Untouched
<1>. QED
  BY <1>3, <1>4, <1>5, <1>6 DEF FlowInv

(* A step of r leaves the flows in order if it leaves r's own in order.     *)
Only(r) == \A q \in Requests : q # r => Untouched(q)

FlowOK == FlowTypes' /\ \A q \in Requests : FlowInv(q)'

LEMMA OwnFlow ==
    ASSUME IInv, Kept, NEW r \in Requests, Only(r), FlowTypes', FlowInv(r)'
    PROVE  FlowOK
BY UntouchedOK DEF FlowOK, Only

(* What an attempt's record was taken for stands while it is under way.     *)
LEMMA BoundKept ==
    ASSUME IInv, Kept, NEW r \in Requests, pc[r] \notin {"reserve", "done", "failed"}
    PROVE  StartRecord(r)'.status # "ABSENT" /\ StartRecord(r)'.body = Body(r)
BY BodyIs DEF IInv, FlowInv, Bound, Kept, Grows, StartRecord, Body

LEMMA AnsweredKept ==
    ASSUME IInv, Kept, NEW r \in Requests, UNCHANGED <<answer, pending>>
    PROVE  Answered(r)'
<1>1. KeyOf[r] \in Keys /\ Answered(r) /\ Grows
  BY BodyIs DEF IInv, FlowInv, Kept
<1>2. answer[r] # None => answer[r] \in Requests
  BY DEF IInv, FlowTypes
<1>. QED
  BY <1>1, <1>2 DEF Answered, Grows, StartRecord

(* A step from one place to another, with the message it was at.            *)
LEMMA Walks ==
    ASSUME IInv, Kept, NEW r \in Requests, NEW s \in Steps \ {"reserve"}, Goto(r, s),
           retried' \in [Requests -> BOOLEAN], root' \in [Requests -> BOOLEAN],
           \A q \in Requests : q # r => retried'[q] = retried[q] /\ root'[q] = root[q],
           UNCHANGED <<result, answer, pending>>,
           Bound(r)', Founded(r)',
           s \in {"classify", "origin", "write", "prove", "settle"} => Len(result[r]) < Len(BodyOf[r])
    PROVE  FlowOK
<1>1. pc \in [Requests -> Steps] /\ pc' = [pc EXCEPT ![r] = s]
  BY DEF IInv, FlowTypes, Goto
<1>2. pc'[r] = s /\ \A q \in Requests : q # r => pc'[q] = pc[q]
  BY <1>1
<1>3. FlowTypes'
  BY <1>1 DEF IInv, FlowTypes
<1>4. Only(r)
  BY <1>2 DEF Only, Untouched
<1>5. Counted(r)'
  <2>1. Len(result[r]) <= Len(BodyOf[r])
    BY DEF IInv, FlowInv, Counted
  <2>. QED
    BY <2>1, <1>2 DEF Counted
<1>6. FlowInv(r)'
  BY <1>5, AnsweredKept DEF FlowInv
<1>. QED
  BY <1>3, <1>4, <1>6, OwnFlow

(* One that ends the request, or only waits for the store.                  *)
LEMMA WalksAway ==
    ASSUME IInv, Kept, NEW r \in Requests, NEW s \in {"failed", "done", "unsure", "readback", "complete", "settle", "dispatch"},
           Goto(r, s), retried' \in [Requests -> BOOLEAN],
           \A q \in Requests : q # r => retried'[q] = retried[q],
           UNCHANGED <<root, result, answer, pending>>,
           s \notin {"failed", "done"} => pc[r] \notin {"reserve", "done", "failed"},
           s = "settle" => Len(result[r]) < Len(BodyOf[r])
    PROVE  FlowOK
<1>1. s \in Steps \ {"reserve"} /\ s \notin {"classify", "origin", "write", "prove"}
  BY DEF Steps
<1>2. pc'[r] = s
  BY DEF IInv, FlowTypes, Goto
<1>3. Bound(r)'
  BY <1>2, BoundKept DEF Bound
<1>4. Founded(r)'
  BY <1>1, <1>2 DEF Founded
<1>5. root' \in [Requests -> BOOLEAN]
  BY DEF IInv, FlowTypes
<1>. QED
  BY <1>1, <1>3, <1>4, <1>5, Walks

(* A message is dealt with.                                                 *)
LEMMA AcceptOK ==
    ASSUME IInv, Kept, NEW r \in Requests, NEW id \in Ids, Accept(r, id),
           pc[r] \in {"classify", "write", "prove", "settle"}
    PROVE  FlowOK
<1>. DEFINE n == Len(result[r])
            s == IF n + 1 < Len(BodyOf[r]) THEN "classify"
                 ELSE IF answer[r] = None THEN "complete" ELSE "dispatch"
<1>1. n < Len(BodyOf[r]) /\ n \in Nat /\ Len(BodyOf[r]) \in Nat
  BY BodyIs DEF IInv, FlowInv, Counted, FlowTypes
<1>2. /\ pc \in [Requests -> Steps] /\ result \in [Requests -> Seq(Ids)]
      /\ retried \in [Requests -> BOOLEAN]
  BY DEF IInv, FlowTypes
<1>3. /\ pc' = [pc EXCEPT ![r] = s] /\ result' = [result EXCEPT ![r] = Append(result[r], id)]
      /\ retried' = [retried EXCEPT ![r] = FALSE] /\ root' = root /\ answer' = answer /\ pending' = pending
  BY DEF Accept, Goto
<1>4. s \in Steps
  BY DEF Steps
<1>5. Append(result[r], id) \in Seq(Ids) /\ Len(Append(result[r], id)) = n + 1
  BY <1>2
<1>6. s \notin {"reserve", "origin", "write", "prove", "settle", "done", "failed"}
  OBVIOUS
<1>7. s = "classify" => n + 1 < Len(BodyOf[r])
  OBVIOUS
<1>. HIDE DEF s
<1>8. pc'[r] = s /\ Len(result'[r]) = n + 1
  BY <1>2, <1>3, <1>5
<1>9. FlowTypes'
  BY <1>2, <1>3, <1>4, <1>5 DEF IInv, FlowTypes
<1>10. Only(r)
  BY <1>2, <1>3 DEF Only, Untouched
<1>11. Bound(r)'
  BY BoundKept DEF Bound
<1>12. Counted(r)'
  <2>1. n + 1 <= Len(BodyOf[r])
    BY <1>1
  <2>. QED
    BY <2>1, <1>6, <1>7, <1>8 DEF Counted
<1>13. Founded(r)'
  BY <1>6, <1>8 DEF Founded
<1>14. FlowInv(r)'
  BY <1>3, <1>11, <1>12, <1>13, AnsweredKept DEF FlowInv
<1>. QED
  BY <1>9, <1>10, <1>14, OwnFlow

(* A request takes over the answer of its record.                           *)
LEMMA RecoverOK ==
    ASSUME IInv, Kept, NEW r \in Requests, NEW s \in {"classify", "dispatch"}, Goto(r, s),
           Recover(r, StartRecord(r).names), StartRecord(r).status = "COMPLETED",
           SameRequest(r) \/ pc[r] = "readback", s = "classify" => pc[r] = "reserve",
           UNCHANGED <<retried, root, result>>
    PROVE  FlowOK
<1>. DEFINE o == StartRecord(r).names
<1>1. KeyOf[r] \in Keys /\ o \in Requests \union {None}
  BY BodyIs DEF IInv, StoreTypes, Records, StartRecord
<1>2. o # None /\ operation[o] # None
  BY <1>1 DEF IInv, StartInv, StartRecord
<1>3. StartRecord(r)'.names = o /\ operation'[o] # None
  BY <1>1, <1>2 DEF Kept, Grows, StartRecord
<1>4. /\ pc \in [Requests -> Steps] /\ answer \in [Requests -> Requests \union {None}]
      /\ pending \in [Requests -> BOOLEAN]
  BY DEF IInv, FlowTypes
<1>5. /\ pc' = [pc EXCEPT ![r] = s] /\ answer' = [answer EXCEPT ![r] = o]
      /\ pending' = [pending EXCEPT ![r] = o = r \/ o \notin claimed]
  BY DEF Goto, Recover
<1>. HIDE DEF o
<1>6. pc'[r] = s /\ answer'[r] = o
  BY <1>4, <1>5
<1>7. FlowTypes'
  <2>1. s \in Steps
    BY DEF Steps
  <2>. QED
    BY <2>1, <1>1, <1>4, <1>5 DEF IInv, FlowTypes
<1>8. Only(r)
  BY <1>4, <1>5 DEF Only, Untouched
<1>9. Bound(r)'
  <2>1. StartRecord(r).status # "ABSENT" /\ StartRecord(r).body = Body(r)
    BY DEF IInv, FlowInv, Bound, SameRequest
  <2>. QED
    BY <2>1, <1>1 DEF Bound, Kept, Grows, StartRecord, Body
<1>10. Answered(r)'
  BY <1>2, <1>3, <1>6 DEF Answered
<1>11. Counted(r)'
  <2>1. Len(result[r]) <= Len(BodyOf[r])
    BY DEF IInv, FlowInv, Counted
  <2>2. s = "classify" => Len(result[r]) < Len(BodyOf[r])
    <3>1. ASSUME s = "classify" PROVE Len(result[r]) = 0
      BY <3>1 DEF IInv, FlowInv, Counted
    <3>. QED
      BY <3>1, BodyIs
  <2>. QED
    BY <2>1, <2>2, <1>6 DEF Counted
<1>12. Founded(r)'
  BY <1>6 DEF Founded
<1>13. FlowInv(r)'
  BY <1>9, <1>10, <1>11, <1>12 DEF FlowInv
<1>. QED
  BY <1>7, <1>8, <1>13, OwnFlow

------------------------------------------------------------------------------
LEMMA LostOK ==
    ASSUME IInv, Lose \/ UNCHANGED lost
    PROVE  lost' \in 0 .. MaxLost
<1>1. lost \in 0 .. MaxLost /\ MaxLost \in Nat
  BY StartAssumption DEF IInv
<1>2. CASE Lose
  BY <1>1, <1>2 DEF Lose
<1>. QED
  BY <1>1, <1>2

LEMMA Assembled ==
    ASSUME IInv, Kept, FlowOK, Ambient, Lose \/ UNCHANGED lost
    PROVE  IInv'
<1>1. JobInv'
  BY JobsKept DEF Kept, Ambient
<1>2. lost' \in 0 .. MaxLost
  BY LostOK
<1>. QED
  BY <1>1, <1>2 DEF IInv, Kept, FlowOK

(* One lemma per action: what it writes, and what its request then holds.   *)
LEMMA ReserveOK == ASSUME IInv, NEW r \in Requests, Reserve(r) PROVE IInv'
<1>. UNCHANGED <<retried, root, result, lost>> /\ Ambient /\ pc[r] = "reserve"
  BY DEF Reserve
<1>1. UNCHANGED <<operation, stored, channel, record, origin>>
  BY DEF Reserve
<1>2. /\ retried' \in [Requests -> BOOLEAN] /\ root' \in [Requests -> BOOLEAN]
      /\ \A q \in Requests : q # r => retried'[q] = retried[q] /\ root'[q] = root[q]
  BY DEF IInv, FlowTypes
<1>3. Len(result[r]) < Len(BodyOf[r])
  <2>1. Len(result[r]) = 0
    BY DEF IInv, FlowInv, Counted
  <2>. QED
    BY <2>1, BodyIs
<1>4. Goto(r, "classify") => pc'[r] = "classify"
  BY DEF IInv, FlowTypes, Goto
<1>5. "classify" \in Steps \ {"reserve"}
  BY DEF Steps
<1>6. CASE /\ StartRecord(r).status = "ABSENT"
           /\ start' = Created(r) /\ Goto(r, "classify") /\ UNCHANGED <<answer, pending>>
  <2>1. Kept
    BY <1>1, <1>6, CreatedKept
  <2>2. StartRecord(r)'.status = "IN_PROGRESS" /\ StartRecord(r)'.body = Body(r)
    <3>1. KeyOf[r] \in Keys /\ start \in [Keys -> Records]
      BY BodyIs DEF IInv, StoreTypes
    <3>. QED
      BY <3>1, <1>6 DEF StartRecord, Created
  <2>3. Bound(r)' /\ Founded(r)'
    BY <2>2, <1>4, <1>6 DEF Bound, Founded, Body
  <2>4. FlowOK
    BY <2>1, <2>3, <1>2, <1>3, <1>5, <1>6, Walks
  <2>. QED
    BY <2>1, <2>4, Assembled
<1>7. CASE /\ StartRecord(r).status = "IN_PROGRESS" /\ SameRequest(r)
           /\ Goto(r, "classify") /\ UNCHANGED <<start, answer, pending>>
  <2>1. Kept
    BY <1>1, <1>7, SameStore DEF store
  <2>2. StartRecord(r)'.status = "IN_PROGRESS" /\ StartRecord(r)'.body = Body(r)
    BY <1>7 DEF StartRecord, SameRequest
  <2>3. Bound(r)' /\ Founded(r)'
    BY <2>2, <1>4, <1>7 DEF Bound, Founded, Body
  <2>4. FlowOK
    BY <2>1, <2>3, <1>2, <1>3, <1>5, <1>7, Walks
  <2>. QED
    BY <2>1, <2>4, Assembled
<1>8. CASE /\ StartRecord(r).status = "COMPLETED" /\ SameRequest(r)
           /\ Recover(r, StartRecord(r).names) /\ Goto(r, "classify") /\ UNCHANGED start
  <2>1. Kept
    BY <1>1, <1>8, SameStore DEF store
  <2>2. "classify" \in {"classify", "dispatch"}
    OBVIOUS
  <2>3. FlowOK
    BY <2>1, <2>2, <1>8, RecoverOK
  <2>. QED
    BY <2>1, <2>3, Assembled
<1>9. CASE Goto(r, "failed") /\ UNCHANGED <<start, answer, pending>>
  <2>1. Kept
    BY <1>1, <1>9, SameStore DEF store
  <2>2. FlowOK
    BY <2>1, <1>2, <1>9, WalksAway
  <2>. QED
    BY <2>1, <2>2, Assembled
<1>. QED
  BY <1>6, <1>7, <1>8, <1>9 DEF Reserve

LEMMA ReserveLostOK == ASSUME IInv, NEW r \in Requests, ReserveLost(r) PROVE IInv'
<1>1. /\ UNCHANGED <<operation, stored, channel, record, origin>> /\ UNCHANGED flow
      /\ Ambient /\ Lose /\ Goto(r, "failed")
      /\ start' = IF StartRecord(r).status = "ABSENT" THEN Created(r) ELSE start
  BY DEF ReserveLost
<1>2. Kept
  <2>1. CASE StartRecord(r).status = "ABSENT"
    BY <2>1, <1>1, CreatedKept
  <2>2. CASE StartRecord(r).status # "ABSENT"
    BY <2>2, <1>1, SameStore DEF store
  <2>. QED
    BY <2>1, <2>2
<1>3. retried' \in [Requests -> BOOLEAN] /\ retried' = retried /\ UNCHANGED <<root, result, answer, pending>>
  BY <1>1 DEF IInv, FlowTypes, flow
<1>4. FlowOK
  BY <1>1, <1>2, <1>3, WalksAway
<1>. QED
  BY <1>1, <1>2, <1>4, Assembled

(* A step that changes nothing but where the request is.                    *)
LEMMA Leaves ==
    ASSUME IInv, Kept, NEW r \in Requests,
           NEW s \in {"failed", "done", "unsure", "readback", "complete", "settle", "dispatch"},
           Goto(r, s), UNCHANGED flow,
           s \notin {"failed", "done"} => pc[r] \notin {"reserve", "done", "failed"},
           s = "settle" => pc[r] = "write"
    PROVE  FlowOK
<1>1. retried' \in [Requests -> BOOLEAN] /\ retried' = retried /\ UNCHANGED <<root, result, answer, pending>>
  BY DEF IInv, FlowTypes, flow
<1>2. pc[r] = "write" => Len(result[r]) < Len(BodyOf[r])
  BY DEF IInv, FlowInv, Counted
<1>. QED
  BY <1>1, <1>2, WalksAway

(* The identifier a lock names is one.                                      *)
LEMMA ChannelIs ==
    ASSUME IInv, NEW r \in Requests, Len(result[r]) < Len(BodyOf[r]), Channel(r) # None
    PROVE  Channel(r) \in Ids
<1>1. ChannelOf[Message(r)] \in Channels
  BY MessageIs DEF IInv
<1>. QED
  BY <1>1 DEF Channel, IInv, StoreTypes

LEMMA ReplayOK ==
    ASSUME IInv, Kept, NEW r \in Requests, Replay(r), Channel(r) # None,
           pc[r] \in {"classify", "settle"}
    PROVE  FlowOK
<1>1. Channel(r) \in Ids
  <2>1. Len(result[r]) < Len(BodyOf[r])
    BY DEF IInv, FlowInv, Counted
  <2>. QED
    BY <2>1, ChannelIs
<1>2. CASE Accept(r, Channel(r))
  BY <1>1, <1>2, AcceptOK
<1>3. CASE Goto(r, "failed") /\ UNCHANGED flow
  BY <1>3, Leaves
<1>. QED
  BY <1>2, <1>3 DEF Replay

LEMMA ClassifyOK == ASSUME IInv, NEW r \in Requests, Classify(r) PROVE IInv'
<1>1. UNCHANGED store /\ UNCHANGED lost /\ Ambient /\ pc[r] = "classify"
  BY DEF Classify
<1>2. Kept
  BY <1>1, SameStore
<1>3. CASE Channel(r) # None /\ Replay(r)
  <2>1. FlowOK
    BY <1>1, <1>2, <1>3, ReplayOK
  <2>. QED
    BY <2>1, <1>1, <1>2, Assembled
<1>4. CASE /\ Channel(r) = None
           /\ Goto(r, IF PhotoOf[Message(r)] = None THEN "write" ELSE "origin")
           /\ root' = [root EXCEPT ![r] = FALSE]
           /\ UNCHANGED <<retried, result, answer, pending>>
  <2>. DEFINE s == IF PhotoOf[Message(r)] = None THEN "write" ELSE "origin"
  <2>1. s \in Steps \ {"reserve"}
    BY DEF Steps
  <2>2. pc'[r] = s
    BY <1>4 DEF IInv, FlowTypes, Goto
  <2>3. /\ retried' \in [Requests -> BOOLEAN] /\ root' \in [Requests -> BOOLEAN]
        /\ \A q \in Requests : q # r => retried'[q] = retried[q] /\ root'[q] = root[q]
    BY <1>4 DEF IInv, FlowTypes
  <2>4. Bound(r)'
    BY <1>1, <1>2, BoundKept DEF Bound
  <2>5. Founded(r)'
    <3>1. Message(r)' = Message(r)
      BY <1>4 DEF Message
    <3>. QED
      BY <3>1, <2>2 DEF Founded
  <2>6. Len(result[r]) < Len(BodyOf[r])
    BY <1>1 DEF IInv, FlowInv, Counted
  <2>7. Goto(r, s)
    BY <1>4
  <2>. HIDE DEF s
  <2>8. FlowOK
    BY <2>1, <2>3, <2>4, <2>5, <2>6, <2>7, <1>2, <1>4, Walks
  <2>. QED
    BY <2>8, <1>1, <1>2, Assembled
<1>. QED
  BY <1>3, <1>4 DEF Classify

LEMMA FindOriginOK == ASSUME IInv, NEW r \in Requests, FindOrigin(r) PROVE IInv'
<1>. DEFINE found == origin[PhotoOf[Message(r)]]
            s == IF found \in {None, MediaOf[Message(r)]} THEN "write" ELSE "failed"
<1>1. /\ UNCHANGED store /\ UNCHANGED lost /\ Ambient /\ pc[r] = "origin"
      /\ UNCHANGED <<retried, result, answer, pending>>
      /\ root' = [root EXCEPT ![r] = found = None] /\ Goto(r, s)
  BY DEF FindOrigin, store
<1>2. Kept
  BY <1>1, SameStore
<1>3. s \in Steps \ {"reserve"}
  BY DEF Steps
<1>4. pc'[r] = s
  BY <1>1 DEF IInv, FlowTypes, Goto
<1>5. root'[r] = (found = None)
  BY <1>1 DEF IInv, FlowTypes
<1>6. /\ retried' \in [Requests -> BOOLEAN] /\ root' \in [Requests -> BOOLEAN]
      /\ \A q \in Requests : q # r => retried'[q] = retried[q] /\ root'[q] = root[q]
  BY <1>1 DEF IInv, FlowTypes
<1>7. Bound(r)'
  BY <1>1, <1>2, BoundKept DEF Bound
<1>8. Founded(r)'
  <2>1. Message(r)' = Message(r) /\ origin' = origin
    BY <1>1 DEF Message, store
  <2>. QED
    BY <2>1, <1>4, <1>5 DEF Founded
<1>9. Len(result[r]) < Len(BodyOf[r])
  BY <1>1 DEF IInv, FlowInv, Counted
<1>. HIDE DEF s
<1>10. FlowOK
  BY <1>1, <1>2, <1>3, <1>6, <1>7, <1>8, <1>9, Walks
<1>. QED
  BY <1>1, <1>2, <1>10, Assembled

LEMMA WriteOK == ASSUME IInv, NEW r \in Requests, Write(r) PROVE IInv'
<1>1. UNCHANGED lost /\ Ambient /\ pc[r] = "write"
  BY DEF Write
<1>2. CASE Applicable(r) /\ Store(r) /\ Accept(r, Drawn(r))
  <2>1. Kept
    BY <1>1, <1>2, StoreKept
  <2>2. Drawn(r) \in Ids
    <3>1. Len(result[r]) < Len(BodyOf[r])
      BY <1>1 DEF IInv, FlowInv, Counted
    <3>. QED
      BY <3>1, MessageIs DEF IInv
  <2>3. FlowOK
    BY <2>1, <2>2, <1>1, <1>2, AcceptOK
  <2>. QED
    BY <2>1, <2>3, <1>1, Assembled
<1>3. CASE ~Applicable(r) /\ Goto(r, "settle") /\ UNCHANGED <<store, flow>>
  <2>1. UNCHANGED store /\ UNCHANGED flow
    BY <1>3
  <2>2. Kept
    BY <2>1, SameStore
  <2>3. FlowOK
    BY <2>1, <2>2, <1>1, <1>3, Leaves
  <2>. QED
    BY <2>2, <2>3, <1>1, Assembled
<1>. QED
  BY <1>2, <1>3 DEF Write

LEMMA WriteLostOK == ASSUME IInv, NEW r \in Requests, WriteLost(r) PROVE IInv'
<1>1. Lose /\ Ambient /\ pc[r] = "write" /\ UNCHANGED flow /\ Goto(r, "prove")
  BY DEF WriteLost
<1>2. Kept
  BY <1>1, SameStore, StoreKept DEF WriteLost
<1>3. /\ retried' \in [Requests -> BOOLEAN] /\ root' \in [Requests -> BOOLEAN]
      /\ retried' = retried /\ root' = root /\ UNCHANGED <<result, answer, pending>>
  BY <1>1 DEF IInv, FlowTypes, flow
<1>4. pc'[r] = "prove" /\ "prove" \in Steps \ {"reserve"}
  BY <1>1 DEF IInv, FlowTypes, Goto, Steps
<1>5. Len(result[r]) < Len(BodyOf[r])
  BY <1>1 DEF IInv, FlowInv, Counted
<1>6. Bound(r)'
  BY <1>1, <1>2, BoundKept DEF Bound
<1>7. Founded(r)'
  <2>1. Message(r)' = Message(r)
    BY <1>3 DEF Message
  <2>2. ASSUME PhotoOf[Message(r)] # None, ~root[r]
        PROVE  origin'[PhotoOf[Message(r)]] = MediaOf[Message(r)]
    <3>1. origin[PhotoOf[Message(r)]] = MediaOf[Message(r)]
      BY <2>2, <1>1 DEF IInv, FlowInv, Founded
    <3>2. PhotoOf[Message(r)] \in Photos /\ MediaOf[Message(r)] # None
      BY <2>2, <1>5, MessageIs, NoneIsNothing DEF IInv
    <3>. QED
      BY <3>1, <3>2, <1>2 DEF Kept, Grows
  <2>. QED
    BY <2>1, <2>2, <1>3 DEF Founded
<1>8. FlowOK
  BY <1>1, <1>2, <1>3, <1>4, <1>5, <1>6, <1>7, Walks
<1>. QED
  BY <1>1, <1>2, <1>8, Assembled

LEMMA ProveOK == ASSUME IInv, NEW r \in Requests, Prove(r) PROVE IInv'
<1>1. UNCHANGED store /\ UNCHANGED lost /\ Ambient /\ pc[r] = "prove"
  BY DEF Prove
<1>2. Kept
  BY <1>1, SameStore
<1>3. Len(result[r]) < Len(BodyOf[r])
  BY <1>1 DEF IInv, FlowInv, Counted
<1>4. CASE Accept(r, Drawn(r))
  <2>1. Drawn(r) \in Ids
    BY <1>3, MessageIs DEF IInv
  <2>2. FlowOK
    BY <2>1, <1>1, <1>2, <1>4, AcceptOK
  <2>. QED
    BY <2>2, <1>1, <1>2, Assembled
<1>5. CASE /\ retried' = [retried EXCEPT ![r] = TRUE] /\ Goto(r, "write")
           /\ UNCHANGED <<root, result, answer, pending>>
  <2>1. /\ retried' \in [Requests -> BOOLEAN] /\ root' \in [Requests -> BOOLEAN]
        /\ \A q \in Requests : q # r => retried'[q] = retried[q] /\ root'[q] = root[q]
    BY <1>5 DEF IInv, FlowTypes
  <2>2. pc'[r] = "write" /\ "write" \in Steps \ {"reserve"}
    BY <1>5 DEF IInv, FlowTypes, Goto, Steps
  <2>3. Bound(r)'
    BY <1>1, <1>2, BoundKept DEF Bound
  <2>4. Founded(r)'
    <3>1. Message(r)' = Message(r) /\ origin' = origin /\ root' = root
      BY <1>1, <1>5 DEF Message, store
    <3>. QED
      BY <3>1, <1>1 DEF IInv, FlowInv, Founded
  <2>5. FlowOK
    BY <2>1, <2>2, <2>3, <2>4, <1>2, <1>3, <1>5, Walks
  <2>. QED
    BY <2>5, <1>1, <1>2, Assembled
<1>6. CASE Goto(r, "failed") /\ UNCHANGED flow
  <2>1. FlowOK
    BY <1>2, <1>6, Leaves
  <2>. QED
    BY <2>1, <1>1, <1>2, Assembled
<1>. QED
  BY <1>4, <1>5, <1>6 DEF Prove

LEMMA SettleOK == ASSUME IInv, NEW r \in Requests, Settle(r) PROVE IInv'
<1>1. UNCHANGED store /\ UNCHANGED lost /\ Ambient /\ pc[r] = "settle"
  BY DEF Settle
<1>2. Kept
  BY <1>1, SameStore
<1>3. FlowOK
  BY <1>1, <1>2, ReplayOK, Leaves DEF Settle
<1>. QED
  BY <1>1, <1>2, <1>3, Assembled

------------------------------------------------------------------------------
LEMMA CompleteStartOK == ASSUME IInv, NEW r \in Requests, CompleteStart(r) PROVE IInv'
<1>1. pc[r] = "complete" /\ Goto(r, "readback") /\ UNCHANGED flow /\ UNCHANGED lost /\ Ambient
  BY DEF CompleteStart
<1>2. Kept
  BY SameStore, CreateKept DEF CompleteStart
<1>3. FlowOK
  BY <1>1, <1>2, Leaves
<1>. QED
  BY <1>1, <1>2, <1>3, Assembled

LEMMA CompleteLostOK == ASSUME IInv, NEW r \in Requests, CompleteLost(r) PROVE IInv'
<1>1. pc[r] = "complete" /\ Goto(r, "unsure") /\ UNCHANGED flow /\ Lose /\ Ambient
  BY DEF CompleteLost
<1>2. Kept
  BY SameStore, CreateKept DEF CompleteLost
<1>3. FlowOK
  BY <1>1, <1>2, Leaves
<1>. QED
  BY <1>1, <1>2, <1>3, Assembled

LEMMA ProveStartOK == ASSUME IInv, NEW r \in Requests, ProveStart(r) PROVE IInv'
<1>1. /\ UNCHANGED store /\ UNCHANGED lost /\ Ambient /\ pc[r] = "unsure"
      /\ UNCHANGED <<root, result, answer, pending>>
  BY DEF ProveStart, store
<1>2. Kept
  BY <1>1, SameStore
<1>3. PICK s \in {"failed", "readback", "complete"} : Goto(r, s)
  BY DEF ProveStart
<1>4. /\ retried' \in [Requests -> BOOLEAN]
      /\ \A q \in Requests : q # r => retried'[q] = retried[q]
  BY DEF ProveStart, IInv, FlowTypes
<1>5. FlowOK
  BY <1>1, <1>2, <1>3, <1>4, WalksAway
<1>. QED
  BY <1>1, <1>2, <1>5, Assembled

LEMMA ReadBackOK == ASSUME IInv, NEW r \in Requests, ReadBack(r) PROVE IInv'
<1>1. /\ UNCHANGED store /\ UNCHANGED lost /\ Ambient /\ pc[r] = "readback"
      /\ UNCHANGED <<retried, root, result>> /\ Goto(r, "dispatch")
      /\ StartRecord(r).status = "COMPLETED" /\ Recover(r, StartRecord(r).names)
  BY DEF ReadBack, store
<1>2. Kept
  BY <1>1, SameStore
<1>3. FlowOK
  BY <1>1, <1>2, RecoverOK
<1>. QED
  BY <1>1, <1>2, <1>3, Assembled

LEMMA DispatchOK == ASSUME IInv, NEW r \in Requests, Dispatch(r) PROVE IInv'
<1>1. /\ UNCHANGED store /\ UNCHANGED lost /\ UNCHANGED flow /\ claimed' = claimed
      /\ pc[r] = "dispatch" /\ Goto(r, "done")
      /\ jobs' = IF pending[r] THEN jobs \union {<<answer[r], Locators(r)>>} ELSE jobs
  BY DEF Dispatch, store, flow
<1>2. Kept
  BY <1>1, SameStore
<1>3. FlowOK
  BY <1>1, <1>2, Leaves
<1>4. JobInv'
  <2>1. pending[r] => answer[r] # None /\ answer[r] \in Requests /\ operation[answer[r]] # None
    BY DEF IInv, FlowInv, Answered, FlowTypes
  <2>2. Locators(r) \in SUBSET Ids
    BY LocatorsAre DEF IInv
  <2>3. operation' = operation
    BY <1>1 DEF store
  <2>4. jobs' \subseteq Requests \X SUBSET Ids
    BY <2>1, <2>2, <1>1 DEF IInv, JobInv
  <2>5. \A j \in jobs' : operation[j[1]] # None
    BY <2>1, <1>1 DEF IInv, JobInv
  <2>. QED
    BY <2>3, <2>4, <2>5, <1>1 DEF IInv, JobInv
<1>5. lost' \in 0 .. MaxLost
  BY <1>1, LostOK
<1>. QED
  BY <1>2, <1>3, <1>4, <1>5 DEF IInv, Kept, FlowOK

LEMMA ClaimOK == ASSUME IInv, NEW j \in jobs, Claim(j[1], j[2]) PROVE IInv'
<1>1. /\ UNCHANGED store /\ UNCHANGED lost /\ jobs' = jobs /\ claimed' = claimed \union {j[1]}
      /\ UNCHANGED flow /\ pc' = pc
  BY DEF Claim, store, flow
<1>2. Kept
  BY <1>1, SameStore
<1>3. \A q \in Requests : Untouched(q)
  BY <1>1 DEF Untouched, flow
<1>4. FlowTypes'
  BY <1>1 DEF IInv, FlowTypes, flow
<1>5. j[1] \in Requests /\ operation[j[1]] # None /\ operation' = operation
  BY <1>1 DEF IInv, JobInv, store
<1>6. JobInv'
  BY <1>1, <1>5 DEF IInv, JobInv
<1>7. lost' \in 0 .. MaxLost
  BY <1>1, LostOK
<1>. QED
  BY <1>2, <1>3, <1>4, <1>6, <1>7, UntouchedOK DEF IInv, Kept

LEMMA LoseRequestOK == ASSUME IInv, NEW r \in Requests, LoseRequest(r) PROVE IInv'
<1>1. UNCHANGED store /\ UNCHANGED flow /\ Lose /\ Ambient /\ Goto(r, "failed")
  BY DEF LoseRequest, store, flow
<1>2. Kept
  BY <1>1, SameStore
<1>3. FlowOK
  BY <1>1, <1>2, Leaves
<1>. QED
  BY <1>1, <1>2, <1>3, Assembled

LEMMA StutterOK == ASSUME IInv, UNCHANGED vars PROVE IInv'
<1>1. UNCHANGED store /\ UNCHANGED flow /\ pc' = pc /\ lost' = lost /\ claimed' = claimed /\ jobs' = jobs
  BY DEF vars, store, flow
<1>2. Kept
  BY <1>1, SameStore
<1>3. \A q \in Requests : Untouched(q)
  BY <1>1 DEF Untouched, flow
<1>4. FlowTypes'
  BY <1>1 DEF IInv, FlowTypes, flow
<1>5. JobInv'
  BY <1>1, <1>2, JobsKept DEF Kept
<1>. QED
  BY <1>1, <1>2, <1>3, <1>4, <1>5, UntouchedOK DEF IInv, Kept

(* Every step preserves the invariant.                                      *)
LEMMA NextOK == IInv /\ [Next]_vars => IInv'
<1>. SUFFICES ASSUME IInv, [Next]_vars PROVE IInv'
  OBVIOUS
<1>1. CASE \E r \in Requests : Attempt(r)
  <2>1. PICK r \in Requests : Attempt(r)
    BY <1>1
  <2>. QED
    BY <2>1, ReserveOK, ReserveLostOK, ClassifyOK, FindOriginOK, WriteOK, WriteLostOK, ProveOK,
       SettleOK, CompleteStartOK, CompleteLostOK, ProveStartOK, ReadBackOK, DispatchOK,
       LoseRequestOK DEF Attempt
<1>2. CASE \E j \in jobs : Claim(j[1], j[2])
  BY <1>2, ClaimOK
<1>3. CASE UNCHANGED vars
  BY <1>3, StutterOK
<1>. QED
  BY <1>1, <1>2, <1>3 DEF Next

(* The invariant holds, for any requests, keys and batches and any number   *)
(* of lost answers.                                                         *)
THEOREM Inductive == Spec => []IInv
<1>. QED
  BY InitOK, NextOK, PTL DEF Spec

(* Every variable stays in its type; a completed record names an operation, *)
(* and an attempt deals with no more messages than its batch has.           *)
THEOREM TypeCorrect == Spec => []TypeOK
<1>1. IInv => TypeOK
  <2>. SUFFICES ASSUME IInv PROVE TypeOK
    OBVIOUS
  <2>1. \A k \in Keys : /\ start[k].status \in {"ABSENT", "IN_PROGRESS", "COMPLETED"}
                        /\ start[k].names \in Requests \union {None}
                        /\ start[k].status = "COMPLETED" <=> start[k].names # None
    BY DEF IInv, StoreTypes, Records, StartInv
  <2>2. \A r \in Requests : operation[r] = None \/ operation[r] \subseteq Ids
    BY DEF IInv, StoreTypes
  <2>3. \A r \in Requests : result[r] \in Seq(Ids) /\ Len(result[r]) <= Len(BodyOf[r])
    BY DEF IInv, FlowTypes, FlowInv, Counted
  <2>. QED
    BY <2>1, <2>2, <2>3 DEF TypeOK, IInv, StoreTypes, FlowTypes, JobInv
<1>. QED
  BY <1>1, Inductive, PTL

(* A key stands for one request and one operation: whatever is stored or    *)
(* answered under it is of the request it was reserved for (reserve_start,  *)
(* complete_start).                                                         *)
THEOREM OneRequest == Spec => []KeyMeansOneRequest
<1>1. IInv => KeyMeansOneRequest
  BY DEF IInv, KeyMeansOneRequest, StartInv, FlowInv, Answered
<1>. QED
  BY <1>1, Inductive, PTL

(* What a channel said is stored once, and one attachment content has one   *)
(* root of the type every message with it declared (ingest_messages.py).    *)
THEOREM FirstWord == Spec => []FirstWordStands
<1>1. IInv => FirstWordStands
  BY DEF IInv
<1>. QED
  BY <1>1, Inductive, PTL
=============================================================================
