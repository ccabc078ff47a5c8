---------------------------- MODULE MCDisclosure ----------------------------
EXTENDS Disclosure, TLC

CONSTANTS c1, c2, c3

Grant(s) == [scope |-> s, transform |-> TRUE]

(* Three neighbours report impacts; the first has a photo and describes it, *)
(* the second gives a name, and an incident is reported later.              *)
Owners == <<c1, c2, c3, c1, c2, c1>>
Kinds == <<"SERVICE_IMPACT", "SERVICE_IMPACT", "SERVICE_IMPACT", "EVIDENCE_DESCRIPTION",
           "IDENTITY_ATTRIBUTE", "INCIDENT_OCCURRENCE">>
Codes == <<"STAIRS", "DELAY", "STAIRS">>
Shown == <<{1}, {}, {}, {1}, {}, {}>>
Roots == <<1>>

(* Two neighbours: a photo, a name, and a fact that comes too late.         *)
PairOwners == <<c1, c2, c2, c1>>
PairKinds == <<"EVIDENCE_DESCRIPTION", "SERVICE_IMPACT", "IDENTITY_ATTRIBUTE",
               "INCIDENT_OCCURRENCE">>
PairCodes == <<"NONE", "DELAY">>
PairShown == <<{1}, {}, {}, {}>>

PairTerms ==
    { [grants |-> (1 :> Grant("EXTERNAL_ACTION")), identity |-> "ANONYMOUS_CASE",
       expires |-> 1],
      [grants |-> (1 :> Grant("EXTERNAL_ACTION")) @@ (4 :> Grant("EXTERNAL_ACTION")),
       identity |-> "ANONYMOUS_CASE", expires |-> None],
      [grants |-> (2 :> Grant("INTERNAL_ONLY")) @@ (3 :> Grant("NAMED_CASE")),
       identity |-> "NAMED_CASE", expires |-> None],
      [grants |-> (2 :> Grant("ANONYMOUS_CASE")) @@ (3 :> Grant("NAMED_CASE")),
       identity |-> "ANONYMOUS_CASE", expires |-> None],
      [grants |-> (2 :> Grant("EXTERNAL_ACTION")) @@ (3 :> Grant("EXTERNAL_ACTION")),
       identity |-> "EXTERNAL_ACTION", expires |-> None] }

PairRequests ==
    { [usage |-> (1 :> "EVIDENCE") @@ (2 :> "CLAIM"), required |-> {2}, photos |-> {1}],
      [usage |-> (1 :> "EVIDENCE") @@ (3 :> "CLAIM") @@ (4 :> "CLAIM"), required |-> {},
       photos |-> {1}],
      [usage |-> (2 :> "CLAIM") @@ (3 :> "CLAIM"), required |-> {}, photos |-> {}] }

Neighbours == {1, 2, 3}
Aggregating ==
    { [grants |-> (f :> Grant("AGGREGATE_ONLY")), identity |-> "ANONYMOUS_CASE",
       expires |-> None] : f \in Neighbours }
Counting ==
    { [usage |-> [f \in Neighbours |-> "AGGREGATION_INPUT"], required |-> {},
       photos |-> photos] : photos \in {{}, {1}} }
=============================================================================
