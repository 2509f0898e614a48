------------------------------ MODULE MCWatcher ------------------------------
(* Instances of Watcher for TLC.                                           *)
EXTENDS Watcher, TLC

CONSTANTS good, other, bad, id1, id2, MaxInterrupts, MaxProbeFailures

MCBytes == {good, other, bad}
MCCorrupt == {bad}
MCCallIds == {id1, id2}
MCLimit == [m \in Mishap |-> IF m = "interrupt" THEN MaxInterrupts ELSE MaxProbeFailures]

Rec(bytes, id) == [bytes |-> bytes, id |-> id]

(* Two recordings; one twice, with one call id or two; one call twice;     *)
(* corrupt ones.                                                           *)
Pairs ==
  { <<Rec(good, NoId), Rec(other, id1)>>, <<Rec(good, NoId), Rec(good, NoId)>>,
    <<Rec(good, id1), Rec(good, id2)>>, <<Rec(good, id1), Rec(other, id1)>>,
    <<Rec(bad, NoId), Rec(good, NoId)>>, <<Rec(bad, NoId), Rec(bad, id1)>> }

(* A recording, its copy, and another one.                                 *)
CopyFirst == { <<Rec(good, NoId), Rec(good, NoId), Rec(other, NoId)>> }
=============================================================================
