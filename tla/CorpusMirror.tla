----------------------------- MODULE CorpusMirror -----------------------------
(***************************************************************************)
(* What seeding promises: the vector collection mirrors the corpus file.   *)
(* Point n is the file's n-th record; points are added, in any number, and *)
(* disappear only all together.                                            *)
(***************************************************************************)
EXTENDS Naturals, Sequences

VARIABLES records,  \* the corpus, in order
          points    \* the collection: point id -> record

NoPoints == [n \in {} |-> n]

Init == records = <<>> /\ points = NoPoints

\* The file is replaced, before anything was stored from it.
Replace == points = NoPoints /\ UNCHANGED points

Store ==
    /\ UNCHANGED records
    /\ DOMAIN points \subseteq DOMAIN points'
    /\ DOMAIN points' \subseteq DOMAIN records
    /\ points' = [n \in DOMAIN points' |-> records[n]]

Wipe == UNCHANGED records /\ points' = NoPoints

Next == Replace \/ Store \/ Wipe

Spec == Init /\ [][Next]_<<records, points>>
===============================================================================
