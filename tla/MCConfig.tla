------------------------------ MODULE MCConfig ------------------------------
(* Documents with up to three tasks, any of them malformed.                *)
EXTENDS Config

CONSTANTS nameA, nameB

Entry == [name : {nameA, nameB}, ok : BOOLEAN]

SmallDocuments ==
  [json : BOOLEAN, header : BOOLEAN, maxTasks : {1, 1000},
   tasks : UNION {[1..n -> Entry] : n \in 0..3}]
=============================================================================
