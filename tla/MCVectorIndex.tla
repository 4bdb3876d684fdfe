---------------------------- MODULE MCVectorIndex ----------------------------
(* Constant values for the model checking of VectorIndex.                  *)
EXTENDS VectorIndex

CONSTANTS k1, k2

Upsert(k, v) == [op |-> "upsert", key |-> k, ver |-> v, hash |-> v]
Delete(k, v) == [op |-> "delete", key |-> k, ver |-> v, hash |-> 0]

SourceEvents == <<Upsert(k1, 1), Upsert(k2, 1), Delete(k1, 2), Upsert(k2, 3), Upsert(k1, 4)>>
RogueEvents == {[Upsert(k2, 1) EXCEPT !.hash = 9]}

(* What Converges supposes of them.                                       *)
ASSUME RogueOvertaken
=============================================================================
