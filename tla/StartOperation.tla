--------------------------- MODULE StartOperation ---------------------------
(***************************************************************************)
(* Posting a batch of messages: reserve the key, store the messages, start *)
(* the Monitor operation over them, hand its job over.                     *)
(* Code: apps/api/chorus_api/routes/ingest.py, reserve_start and           *)
(* complete_start of application/operations.py, application/commands/      *)
(* ingest_messages.py, over infrastructure/dynamodb/idempotency.py and     *)
(* unit_of_work.py.                                                        *)
(*                                                                         *)
(* A request is one attempt: a client that retries sends another with the  *)
(* same key and body.  All come from one actor.  A message stands for its  *)
(* content digest, so two messages are equal exactly when they are a       *)
(* replay of each other.  Between two calls to the store anything may      *)
(* happen; the answer of a write may be lost, with or without its effect.  *)
(*                                                                         *)
(* Left out: the expiry of records, the checks of the community and its    *)
(* contributors, and a write that lands after its proof was read, which    *)
(* unit_of_work.py takes for impossible.                                   *)
(***************************************************************************)
EXTENDS Naturals, Sequences, FiniteSets

CONSTANTS
    Requests,   \* attempts
    Keys,       \* idempotency keys
    Messages,   \* contents
    Channels,   \* channel identifiers of messages
    Photos,     \* content hashes of attachments
    Media,      \* declared media types
    KeyOf,      \* per request: its key
    BodyOf,     \* per request: its batch, a sequence of messages
    ChannelOf,  \* per message: its channel identifier
    PhotoOf,    \* per message: the hash of its attachment, or None
    MediaOf,    \* per message: the media type it declares
    None,
    MaxLost     \* bound: writes whose answer is lost, and lost requests

ASSUME StartAssumption ==
    /\ KeyOf \in [Requests -> Keys]
    /\ BodyOf \in [Requests -> Seq(Messages)]
    /\ ChannelOf \in [Messages -> Channels]
    /\ PhotoOf \in [Messages -> Photos \union {None}]
    /\ MediaOf \in [Messages -> Media]
    /\ None \notin Requests \union Media \union Photos \union (Requests \X Messages)
    /\ \A ids \in SUBSET (Requests \X Messages) : ids # None
    /\ MaxLost \in Nat

(* _validate_request: a batch names no channel identifier twice.            *)
ASSUME BatchAssumption ==
    \A r \in Requests : /\ BodyOf[r] # <<>>
                        /\ \A i, j \in DOMAIN BodyOf[r] :
                               ChannelOf[BodyOf[r][i]] = ChannelOf[BodyOf[r][j]] => i = j

VARIABLES
    start,      \* per key: the start record
    operation,  \* per request: the locators its operation is bound to, None if it has none
    claimed,    \* operations a worker has claimed
    jobs,       \* jobs handed over: the operation and the locators they carry
    stored,     \* identifiers of the messages that are stored
    channel,    \* per channel identifier: the message its uniqueness lock names, or None
    record,     \* per key and channel identifier: the message the ingest record names, or None
    origin,     \* per attachment hash: the media type of its evidence root, or None
    pc,         \* per request: its next step
    retried,    \* per request: whether the write under way is the second
    root,       \* per request: whether it found a root missing
    result,     \* per request: the identifiers of the messages dealt with so far
    answer,     \* per request: the operation it answers with, or None
    pending,    \* per request: whether it holds that operation as PENDING
    lost        \* answers and requests lost so far

store == <<start, operation, stored, channel, record, origin>>
flow  == <<retried, root, result, answer, pending>>
vars  == <<store, claimed, jobs, pc, flow, lost>>

(* An attempt draws one identifier per message it has to store, and one for *)
(* the operation it has to create; both are named by who drew them.         *)
Ids == Requests \X Messages

Absent == [status |-> "ABSENT", body |-> {}, names |-> None]

(* The batch is sorted before it is hashed.                                 *)
Body(r) == {BodyOf[r][i] : i \in DOMAIN BodyOf[r]}

Locators(r) == {result[r][i] : i \in DOMAIN result[r]}

Steps == {"reserve", "classify", "origin", "write", "prove", "settle", "complete", "unsure",
          "readback", "dispatch", "done", "failed"}

TypeOK ==
    /\ \A k \in Keys : /\ start[k].status \in {"ABSENT", "IN_PROGRESS", "COMPLETED"}
                       /\ start[k].names \in Requests \union {None}
                       /\ start[k].status = "COMPLETED" <=> start[k].names # None
    /\ \A r \in Requests : operation[r] = None \/ operation[r] \subseteq Ids
    /\ claimed \subseteq {r \in Requests : operation[r] # None}
    /\ jobs \subseteq Requests \X SUBSET Ids
    /\ stored \subseteq Ids
    /\ channel \in [Channels -> Ids \union {None}]
    /\ record \in [Keys \X Channels -> Ids \union {None}]
    /\ origin \in [Photos -> Media \union {None}]
    /\ pc \in [Requests -> Steps]
    /\ retried \in [Requests -> BOOLEAN]
    /\ root \in [Requests -> BOOLEAN]
    /\ \A r \in Requests : result[r] \in Seq(Ids) /\ Len(result[r]) <= Len(BodyOf[r])
    /\ answer \in [Requests -> Requests \union {None}]
    /\ pending \in [Requests -> BOOLEAN]
    /\ lost \in 0 .. MaxLost

Init ==
    /\ start = [k \in Keys |-> Absent]
    /\ operation = [r \in Requests |-> None]
    /\ claimed = {} /\ jobs = {} /\ stored = {}
    /\ channel = [c \in Channels |-> None]
    /\ record = [i \in Keys \X Channels |-> None]
    /\ origin = [p \in Photos |-> None]
    /\ pc = [r \in Requests |-> "reserve"]
    /\ retried = [r \in Requests |-> FALSE]
    /\ root = [r \in Requests |-> FALSE]
    /\ result = [r \in Requests |-> <<>>]
    /\ answer = [r \in Requests |-> None]
    /\ pending = [r \in Requests |-> FALSE]
    /\ lost = 0

------------------------------------------------------------------------------
Goto(r, step) == pc' = [pc EXCEPT ![r] = step]

Lose == lost < MaxLost /\ lost' = lost + 1

StartRecord(r) == start[KeyOf[r]]

(* The message under way, the locks it needs, and the identifier drawn for it. *)
Message(r) == BodyOf[r][Len(result[r]) + 1]
Channel(r) == channel[ChannelOf[Message(r)]]
Record(r)  == record[KeyOf[r], ChannelOf[Message(r)]]
Drawn(r)   == <<r, Message(r)>>

Ambient == UNCHANGED <<claimed, jobs>>

(* The request answers with the operation its start record names.  The one  *)
(* it made itself is answered from the row it wrote, which says PENDING,    *)
(* though a worker may have claimed it since; any other is read.            *)
Recover(r, o) ==
    /\ answer' = [answer EXCEPT ![r] = o]
    /\ pending' = [pending EXCEPT ![r] = o = r \/ o \notin claimed]

Created(r) == [start EXCEPT ![KeyOf[r]] = [status |-> "IN_PROGRESS", body |-> Body(r), names |-> None]]

SameRequest(r) == StartRecord(r).body = Body(r)

(* The create-only reservation, or what it finds there: this request again, *)
(* under way or over, or another one, which is refused with nothing written. *)
Reserve(r) ==
    /\ pc[r] = "reserve"
    /\ \/ /\ StartRecord(r).status = "ABSENT"
          /\ start' = Created(r) /\ Goto(r, "classify")
          /\ UNCHANGED <<answer, pending>>
       \/ /\ StartRecord(r).status = "IN_PROGRESS" /\ SameRequest(r)
          /\ Goto(r, "classify")
          /\ UNCHANGED <<start, answer, pending>>
       \/ /\ StartRecord(r).status = "COMPLETED" /\ SameRequest(r)
          /\ Recover(r, StartRecord(r).names) /\ Goto(r, "classify")
          /\ UNCHANGED start
       \/ /\ StartRecord(r).status # "ABSENT" /\ ~SameRequest(r)
          /\ Goto(r, "failed")
          /\ UNCHANGED <<start, answer, pending>>
    /\ UNCHANGED <<operation, stored, channel, record, origin, retried, root, result, lost>>
    /\ Ambient

(* An ambiguous reservation has no proof to resolve it by.                  *)
ReserveLost(r) ==
    /\ pc[r] = "reserve" /\ Lose
    /\ start' = IF StartRecord(r).status = "ABSENT" THEN Created(r) ELSE start
    /\ Goto(r, "failed")
    /\ UNCHANGED <<operation, stored, channel, record, origin, flow>> /\ Ambient

------------------------------------------------------------------------------
(* One message is dealt with under an identifier, and the batch goes on; an *)
(* operation that is recovered already is not started again.                *)
Accept(r, id) ==
    /\ result' = [result EXCEPT ![r] = Append(@, id)]
    /\ retried' = [retried EXCEPT ![r] = FALSE]
    /\ Goto(r, IF Len(result[r]) + 1 < Len(BodyOf[r]) THEN "classify"
               ELSE IF answer[r] = None THEN "complete" ELSE "dispatch")
    /\ UNCHANGED <<root, answer, pending>>

(* An exact replay answers the identifier stored; other content is refused. *)
Replay(r) ==
    \/ Channel(r)[2] = Message(r) /\ Accept(r, Channel(r))
    \/ Channel(r)[2] # Message(r) /\ Goto(r, "failed") /\ UNCHANGED flow

Classify(r) ==
    /\ pc[r] = "classify"
    /\ \/ Channel(r) # None /\ Replay(r)
       \/ /\ Channel(r) = None
          /\ Goto(r, IF PhotoOf[Message(r)] = None THEN "write" ELSE "origin")
          /\ root' = [root EXCEPT ![r] = FALSE]
          /\ UNCHANGED <<retried, result, answer, pending>>
    /\ UNCHANGED <<store, lost>> /\ Ambient

(* One content hash has one root, and one media type.                       *)
FindOrigin(r) ==
    /\ pc[r] = "origin"
    /\ LET found == origin[PhotoOf[Message(r)]] IN
       /\ root' = [root EXCEPT ![r] = found = None]
       /\ Goto(r, IF found \in {None, MediaOf[Message(r)]} THEN "write" ELSE "failed")
    /\ UNCHANGED <<store, retried, result, answer, pending, lost>> /\ Ambient

(* Broken variant: the root is put, whether it is there by now or not.      *)
Applicable_RootPut(r) == Channel(r) = None /\ Record(r) = None

(* Every item of the transaction is create-only.                            *)
Applicable(r) ==
    /\ Channel(r) = None /\ Record(r) = None
    /\ root[r] => origin[PhotoOf[Message(r)]] = None

(* Message, uniqueness lock and record in one transaction, with the root if *)
(* none was found.                                                          *)
Store(r) ==
    /\ stored' = stored \union {Drawn(r)}
    /\ channel' = [channel EXCEPT ![ChannelOf[Message(r)]] = Drawn(r)]
    /\ record' = [record EXCEPT ![<<KeyOf[r], ChannelOf[Message(r)]>>] = Drawn(r)]
    /\ origin' = IF root[r] THEN [origin EXCEPT ![PhotoOf[Message(r)]] = MediaOf[Message(r)]]
                            ELSE origin
    /\ UNCHANGED <<start, operation>>

Write(r) ==
    /\ pc[r] = "write"
    /\ \/ Applicable(r) /\ Store(r) /\ Accept(r, Drawn(r))
       \/ ~Applicable(r) /\ Goto(r, "settle") /\ UNCHANGED <<store, flow>>
    /\ UNCHANGED lost /\ Ambient

WriteLost(r) ==
    /\ pc[r] = "write" /\ Lose
    /\ \/ Applicable(r) /\ Store(r)
       \/ UNCHANGED store
    /\ Goto(r, "prove")
    /\ UNCHANGED flow /\ Ambient

(* The proof of a message is the presence of its record with its content,   *)
(* whoever wrote it; without one the write is tried once more.              *)
Prove(r) ==
    /\ pc[r] = "prove"
    /\ \/ Record(r) # None /\ Accept(r, Drawn(r))
       \/ /\ Record(r) = None /\ ~retried[r]
          /\ retried' = [retried EXCEPT ![r] = TRUE] /\ Goto(r, "write")
          /\ UNCHANGED <<root, result, answer, pending>>
       \/ /\ Record(r) = None /\ retried[r] /\ Goto(r, "failed") /\ UNCHANGED flow
    /\ UNCHANGED <<store, lost>> /\ Ambient

(* After a conflict: whoever holds the lock decides; without one it was the *)
(* root that moved, and the request fails.                                  *)
Settle(r) ==
    /\ pc[r] = "settle"
    /\ \/ Channel(r) # None /\ Replay(r)
       \/ Channel(r) = None /\ Goto(r, "failed") /\ UNCHANGED flow
    /\ UNCHANGED <<store, lost>> /\ Ambient

------------------------------------------------------------------------------
(* Broken variant: the record is completed whatever it says by now.         *)
Completable_Any(r) == TRUE

Completable(r) == StartRecord(r).status = "IN_PROGRESS"

(* Broken variant: the completed record does not name the operation.        *)
Create_Unnamed(r) ==
    /\ operation' = [operation EXCEPT ![r] = Locators(r)]
    /\ start' = [start EXCEPT ![KeyOf[r]].status = "COMPLETED"]
    /\ UNCHANGED <<stored, channel, record, origin>>

(* The operation, bound to this attempt's locators, and the completed       *)
(* record in one transaction.                                               *)
Create(r) ==
    /\ operation' = [operation EXCEPT ![r] = Locators(r)]
    /\ start' = [start EXCEPT ![KeyOf[r]].status = "COMPLETED", ![KeyOf[r]].names = r]
    /\ UNCHANGED <<stored, channel, record, origin>>

(* A conflict says that somebody else completed it, and is no error.        *)
CompleteStart(r) ==
    /\ pc[r] = "complete"
    /\ IF Completable(r) THEN Create(r) ELSE UNCHANGED store
    /\ Goto(r, "readback")
    /\ UNCHANGED <<flow, lost>> /\ Ambient

CompleteLost(r) ==
    /\ pc[r] = "complete" /\ Lose
    /\ \/ Completable(r) /\ Create(r)
       \/ UNCHANGED store
    /\ Goto(r, "unsure")
    /\ UNCHANGED flow /\ Ambient

(* Here the proof is the version the completed record reaches.              *)
ProveStart(r) ==
    /\ pc[r] = "unsure"
    /\ \/ StartRecord(r).status = "COMPLETED" /\ Goto(r, "readback") /\ UNCHANGED retried
       \/ /\ StartRecord(r).status = "IN_PROGRESS" /\ ~retried[r]
          /\ retried' = [retried EXCEPT ![r] = TRUE] /\ Goto(r, "complete")
       \/ /\ StartRecord(r).status = "IN_PROGRESS" /\ retried[r]
          /\ Goto(r, "failed") /\ UNCHANGED retried
    /\ UNCHANGED <<store, root, result, answer, pending, lost>> /\ Ambient

(* The answer is the record's, not this attempt's.                          *)
ReadBack(r) ==
    /\ pc[r] = "readback" /\ StartRecord(r).status = "COMPLETED"
    /\ Recover(r, StartRecord(r).names)
    /\ Goto(r, "dispatch")
    /\ UNCHANGED <<store, retried, root, result, lost>> /\ Ambient

(* A start that finds its operation PENDING hands a job over, again if need *)
(* be, with the locators of its own batch.                                  *)
Dispatch(r) ==
    /\ pc[r] = "dispatch"
    /\ jobs' = IF pending[r] THEN jobs \union {<<answer[r], Locators(r)>>} ELSE jobs
    /\ Goto(r, "done")
    /\ UNCHANGED <<store, flow, claimed, lost>>

(* The worker refuses a job whose locators its operation is not bound to.   *)
Claim(o, locators) ==
    /\ <<o, locators>> \in jobs
    /\ o \notin claimed /\ locators = operation[o]
    /\ claimed' = claimed \union {o}
    /\ UNCHANGED <<store, flow, jobs, pc, lost>>

(* The request is gone: its process is lost, or a dependency fails it.      *)
LoseRequest(r) ==
    /\ pc[r] \notin {"done", "failed"} /\ Lose
    /\ Goto(r, "failed")
    /\ UNCHANGED <<store, flow>> /\ Ambient

------------------------------------------------------------------------------
Attempt(r) ==
    \/ Reserve(r) \/ ReserveLost(r) \/ Classify(r) \/ FindOrigin(r)
    \/ Write(r) \/ WriteLost(r) \/ Prove(r) \/ Settle(r)
    \/ CompleteStart(r) \/ CompleteLost(r) \/ ProveStart(r) \/ ReadBack(r)
    \/ Dispatch(r) \/ LoseRequest(r)

Next ==
    \/ \E r \in Requests : Attempt(r)
    \/ \E j \in jobs : Claim(j[1], j[2])

Spec == Init /\ [][Next]_vars

------------------------------------------------------------------------------
(* A key stands for one request and one operation, however many attempts    *)
(* race, whichever answers are lost: what is stored under it is of the      *)
(* request it was reserved for, no operation exists that its record does    *)
(* not name, and every attempt answers with that one (reserve_start,        *)
(* complete_start).                                                         *)
KeyMeansOneRequest ==
    /\ \A id \in stored : StartRecord(id[1]).body = Body(id[1])
    /\ \A r \in Requests :
           /\ operation[r] # None => StartRecord(r).names = r
           /\ answer[r] # None => answer[r] = StartRecord(r).names /\ operation[answer[r]] # None

(* What a channel said is stored once, under whatever keys it is sent, and  *)
(* one attachment content has one evidence root of the type every message   *)
(* with it declared (ingest_messages.py, what its rules leave in the store; *)
(* the identifier a replay answers with is AnsweredIdIsStored).             *)
FirstWordStands ==
    \A id \in stored :
        /\ channel[ChannelOf[id[2]]] = id
        /\ PhotoOf[id[2]] # None => origin[PhotoOf[id[2]]] = MediaOf[id[2]]

(* ingest_messages.py:10: an exact replay "returns the identifier already   *)
(* stored".                                                                 *)
AnsweredIdIsStored == \A r \in Requests : Locators(r) \subseteq stored
=============================================================================
