---------------------------- MODULE MCMonitorRun ----------------------------
(* Instances of MonitorRun for TLC. *)
EXTENDS MonitorRun, TLC

Interchangeable == Permutations(Ops)

(* Reports 1 to 5 cite the message of their number and are about one issue; *)
(* reports 6, 7 and 8 are other readings of messages 5, 4 and 3, one about  *)
(* another issue and two about none.                                        *)
Readings == [r \in Reports |-> {CASE r = 6 -> 5 [] r = 7 -> 4 [] r = 8 -> 3 [] OTHER -> r}]
Subjects == [r \in Reports |-> CASE r = 6 -> "WATER" [] r \in {7, 8} -> "OTHER"
                                  [] OTHER -> "ELEVATOR"]

Extend(reports, facts) == [target |-> 1, reports |-> reports, facts |-> facts]
Detect(reports, facts) == [target |-> 0, reports |-> reports, facts |-> facts]

Derived == [reports \in SUBSET Reports |->
              CASE reports = SeedReports -> SeedCase
                [] 5 \in reports -> 3
                [] OTHER -> 2]

(* A new candidate; a link to the seed case that competes with it for a     *)
(* message, with a fact, and a candidate in one answer; a group below the   *)
(* threshold; a link that leaves the seed case no room for a further fact;  *)
(* a link to a case about another issue; a merge about none; and a link,    *)
(* with another value for its fact, beside a candidate that is the seed     *)
(* case itself.                                                             *)
Contended ==
    {{Detect({3, 4}, {<<41, 1>>})},
     {Extend({3}, {<<31, 2>>}), Detect({4, 5}, {})},
     {Detect({5}, {})},
     {Extend({4}, {<<41, 1>>, <<42, 1>>})},
     {Extend({6}, {})},
     {Detect({7, 8}, {})},
     {Extend({3}, {<<31, 1>>}), Detect({1, 2}, {<<11, 1>>})}}
=============================================================================
