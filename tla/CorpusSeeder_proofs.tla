-------------------------- MODULE CorpusSeeder_proofs --------------------------
(***************************************************************************)
(* Proofs about seeding, for any corpus, batch size and number of crashes. *)
(*                                                                         *)
(* SeederInv: while a run is on, whatever lies before its position is      *)
(* stored, in the batch in hand or given up; and whatever lies before a    *)
(* stored point is stored or given up, also while no run is on.  The       *)
(* second is what a resume relies on, and is why NoHoleBehind holds when   *)
(* the next run starts.                                                    *)
(*                                                                         *)
(* CorpusInv: the files the build leaves are sequences, cut short or not;  *)
(* no two rows of the filtered one have one CVE; a run is on its way       *)
(* through the file it is given, with a batch of records it has passed;    *)
(* and every point is the record of its position.  It rests on what        *)
(* Selected does for any finite set of places: each is listed, once and in *)
(* order.                                                                  *)
(*                                                                         *)
(* PassageInv: what a fetch has come past lies on pages it will not write  *)
(* again, as long as NVD stands still, and every command after it brings   *)
(* along what the collection is to hold.  With SeederInv and CorpusInv it  *)
(* carries a CVE from NVD to its point.                                    *)
(***************************************************************************)
EXTENDS CorpusSeeder, WellFoundedInduction, FiniteSetTheorems, TLAPS

\* The markers are no collection and no process.
Markers ==
    /\ \A size, points : NoCollection # [size |-> size, points |-> points]
    /\ \A pc, startAt, recreate, limit, size, next, batch :
          NoSeed # [pc |-> pc, startAt |-> startAt, recreate |-> recreate, limit |-> limit,
                    size |-> size, next |-> next, batch |-> batch]

\* The operator resumes only at the last stored point.
ResumesAtStored == ResumePolicies \subseteq {"stored"}

Shapes ==
    /\ seed # NoSeed =>
          /\ seed = [pc |-> seed.pc, startAt |-> seed.startAt, recreate |-> seed.recreate,
                     limit |-> seed.limit, size |-> seed.size, next |-> seed.next,
                     batch |-> seed.batch]
          /\ seed.pc \in {"probing", "dropping", "checking", "creating", "embedding", "flushing"}
    /\ collection # NoCollection =>
          collection = [size |-> collection.size, points |-> collection.points]

CreatesNew == seed # NoSeed /\ seed.pc = "creating" => collection = NoCollection

FitInv == Markers /\ Shapes /\ EmbedsWhatFits

\* Before a stored point nothing is missing.
Gapless ==
    \E bound \in Nat :
        /\ StoredIds \subseteq 1 .. bound
        /\ \A m \in StoredIds : \A n \in 1 .. m : n \in StoredIds \cup givenUp

Preparing == {"probing", "dropping", "checking", "creating"}

Behind ==
    seed # NoSeed =>
        /\ seed.next \in Nat \ {0}
        /\ seed.batch \subseteq 1 .. seed.next - 1
        /\ \A n \in 1 .. seed.next - 1 : n \in StoredIds \cup seed.batch \cup givenUp
        /\ seed.recreate => seed.startAt = 0
        /\ seed.pc = "dropping" => seed.recreate
        /\ seed.pc \in Preparing => seed.next = seed.startAt + 1 /\ seed.batch = {}

SeederInv == ResumesAtStored /\ FitInv /\ CreatesNew /\ Gapless /\ Behind

-----------------------------------------------------------------------------
(* Embedding starts against a collection that fits *)

LEMMA FitStep == ASSUME FitInv, [Next]_vars PROVE FitInv'
<1> USE DEF FitInv, Shapes, EmbedsWhatFits, AtWork
<1>0. Markers'
    BY DEF Markers
<1>1. CASE UNCHANGED vars \/ Build
    BY <1>0, <1>1 DEF vars, seedVars, Build
<1>2. CASE StartSeed
    BY <1>0, <1>2 DEF StartSeed, NewSeed
<1>3. CASE Probe \/ LastFlush
    BY <1>0, <1>3 DEF Probe, LastFlush, Seeding, Go
<1>4. CASE Drop
    BY <1>0, <1>4 DEF Drop, Seeding, Go
<1>5. CASE Check
    BY <1>0, <1>5 DEF Check, Seeding, Go, Fits
<1>6. CASE Create
    <2>1. collection' = [size |-> seed.size, points |-> NoPoints] /\ collection' # NoCollection
        BY <1>6 DEF Create, Markers
    <2>2. QED  BY <1>0, <1>6, <2>1 DEF Create, Seeding, Go
<1>7. CASE EmbedRecord \/ SkipRecord
    BY <1>0, <1>7 DEF EmbedRecord, SkipRecord, Seeding
<1>8. CASE Flush
    <2>1. collection # NoCollection
        BY <1>8 DEF Flush, Seeding
    <2>2. /\ collection' = [size |-> collection.size, points |-> Stored(collection.points)]
          /\ collection' # NoCollection
        BY <1>8, <2>1 DEF Flush, Markers
    <2>3. QED  BY <1>0, <1>8, <2>1, <2>2 DEF Flush, Seeding
<1>9. CASE SeedDone \/ FlushRefused
    BY <1>0, <1>9 DEF SeedDone, FlushRefused
<1>10. CASE SeedBreaks
    <2>1. seed' = NoSeed
        BY <1>10 DEF SeedBreaks
    <2>2. collection' # NoCollection =>
              collection' = [size |-> collection'.size, points |-> collection'.points]
        <3>1. CASE Seeding("flushing")
            BY <1>10, <3>1 DEF SeedBreaks, Seeding
        <3>2. CASE ~Seeding("flushing")
            BY <1>10, <3>2 DEF SeedBreaks, Seeding
        <3>3. QED  BY <3>1, <3>2
    <2>3. QED  BY <1>0, <2>1, <2>2
<1>11. QED
    BY <1>1, <1>2, <1>3, <1>4, <1>5, <1>6, <1>7, <1>8, <1>9, <1>10 DEF Next, SeedStep

LEMMA FitInit == ASSUME Markers, Init PROVE FitInv
BY DEF Init, SomeoneElses, FitInv, Shapes, EmbedsWhatFits, AtWork

\* The embedding work never runs against a missing collection, or one that
\* reports another vector length.
THEOREM EmbedsWhatFitsAlways == ASSUME Markers PROVE Spec => []EmbedsWhatFits
<1>1. Init => FitInv
    BY FitInit
<1>2. FitInv /\ [Next]_vars => FitInv'
    BY FitStep
<1>3. FitInv => EmbedsWhatFits
    BY DEF FitInv
<1>4. QED  BY <1>1, <1>2, <1>3, PTL DEF Spec

-----------------------------------------------------------------------------
(* No hole behind the run *)

\* Storing the batch in hand.
LEMMA Batched ==
    ASSUME FitInv, Behind, Gapless, Seeding("flushing"),
           collection' = [collection EXCEPT !.points = Stored(@)]
    PROVE  /\ collection' # NoCollection
           /\ StoredIds' = StoredIds \cup seed.batch
<1>1. collection # NoCollection
    BY DEF FitInv, EmbedsWhatFits, AtWork, Seeding
<1>2. /\ collection' = [size |-> collection.size, points |-> Stored(collection.points)]
      /\ collection' # NoCollection
    BY <1>1 DEF FitInv, Shapes, Markers
<1>3. DOMAIN Stored(collection.points) = DOMAIN collection.points \cup seed.batch
    BY DEF Stored, PointId
<1>4. QED  BY <1>1, <1>2, <1>3 DEF StoredIds

LEMMA GaplessEmpty == ASSUME StoredIds' = {} PROVE Gapless'
<1>1. 0 \in Nat
    OBVIOUS
<1>2. QED  BY <1>1 DEF Gapless

\* Given up more, stored the same.
LEMMA GaplessKept ==
    ASSUME Gapless, StoredIds' = StoredIds, givenUp \subseteq givenUp'
    PROVE  Gapless'
BY DEF Gapless

LEMMA GaplessFlush ==
    ASSUME Gapless, Behind, seed # NoSeed,
           StoredIds' = StoredIds \cup seed.batch, givenUp' = givenUp
    PROVE  Gapless'
<1>1. PICK bound \in Nat :
          /\ StoredIds \subseteq 1 .. bound
          /\ \A m \in StoredIds : \A n \in 1 .. m : n \in StoredIds \cup givenUp
    BY DEF Gapless
<1>2. /\ seed.next \in Nat \ {0}
      /\ seed.batch \subseteq 1 .. seed.next - 1
      /\ \A n \in 1 .. seed.next - 1 : n \in StoredIds \cup seed.batch \cup givenUp
    BY DEF Behind
<1>3. StoredIds' \subseteq 1 .. bound + seed.next
    <2>1. ASSUME NEW n \in StoredIds' PROVE n \in 1 .. bound + seed.next
        <3>1. CASE n \in StoredIds
            <4>1. n \in 1 .. bound
                BY <1>1, <3>1
            <4>2. QED  BY <1>2, <4>1
        <3>2. CASE n \in seed.batch
            <4>1. n \in 1 .. seed.next - 1
                BY <1>2, <3>2
            <4>2. QED  BY <1>1, <1>2, <4>1
        <3>3. QED  BY <2>1, <3>1, <3>2
    <2>2. QED  BY <2>1
<1>4. ASSUME NEW m \in StoredIds', NEW n \in 1 .. m
      PROVE  n \in StoredIds' \cup givenUp'
    <2>1. CASE m \in StoredIds
        BY <1>1, <1>4, <2>1
    <2>2. CASE m \in seed.batch
        <3>1. n \in 1 .. seed.next - 1
            BY <1>2, <1>4, <2>2
        <3>2. QED  BY <1>2, <3>1
    <2>3. QED  BY <1>4, <2>1, <2>2
<1>5. bound + seed.next \in Nat
    BY <1>1, <1>2
<1>6. QED  BY <1>3, <1>4, <1>5 DEF Gapless

LEMMA LeastNatural ==
    ASSUME NEW S, S \subseteq Nat, S # {}
    PROVE  \E least \in S : \A k \in S : least <= k
<1> DEFINE R == OpToRel(<, Nat)
<1>1. IsWellFoundedOn(R, Nat)
    BY NatLessThanWellFounded
<1>2. PICK least \in S : \A k \in S : <<k, least>> \notin R
    <2> HIDE DEF R
    <2>1. QED  BY <1>1, WFMin
<1>3. ASSUME NEW k \in S PROVE least <= k
    <2>1. <<k, least>> \in Nat \X Nat /\ ~(k < least)
        BY <1>2, <1>3 DEF OpToRel
    <2>2. QED  BY <2>1
<1>4. QED  BY <1>2, <1>3

\* LastStored is 0 or the last stored point, and nothing before it is missing.
LEMMA ResumePoint ==
    ASSUME Gapless
    PROVE  LastStored \in Nat /\ \A n \in 1 .. LastStored : n \in StoredIds \cup givenUp
<1>1. PICK bound \in Nat :
          /\ StoredIds \subseteq 1 .. bound
          /\ \A m \in StoredIds : \A n \in 1 .. m : n \in StoredIds \cup givenUp
    BY DEF Gapless
<1>2. CASE StoredIds = {}
    BY <1>2 DEF LastStored
<1>3. CASE StoredIds # {}
    <2> DEFINE gaps == {gap \in Nat : bound - gap \in StoredIds}
    <2>1. gaps \subseteq Nat
        OBVIOUS
    <2>2. PICK m \in StoredIds : TRUE
        BY <1>3
    <2>3. bound - m \in gaps
        BY <1>1, <2>2
    <2>4. PICK least \in gaps : \A gap \in gaps : least <= gap
        BY <2>1, <2>3, LeastNatural
    <2>5. \A k \in StoredIds : k <= bound - least
        <3>1. ASSUME NEW k \in StoredIds PROVE k <= bound - least
            <4>1. k \in 1 .. bound /\ least \in Nat
                BY <1>1, <2>4
            <4>2. bound - k \in gaps
                BY <1>1, <4>1
            <4>3. least <= bound - k
                BY <2>4, <4>2
            <4>4. QED  BY <4>1, <4>3, <1>1
        <3>2. QED  BY <3>1
    <2>6. bound - least \in StoredIds
        BY <2>4
    <2>7. LastStored \in StoredIds
        BY <1>3, <2>5, <2>6 DEF LastStored
    <2>8. QED  BY <1>1, <2>7
<1>4. QED  BY <1>2, <1>3

LEMMA SeedStarts == ASSUME SeederInv, StartSeed PROVE Behind'
<1>1. PICK startAt \in StartPoints, recreate \in BOOLEAN, limit \in Limits, size \in VectorSizes :
          /\ startAt = 0 \/ ~recreate
          /\ seed' = NewSeed(startAt, recreate, limit, size)
    BY DEF StartSeed
<1>2. startAt \in Nat /\ \A n \in 1 .. startAt : n \in StoredIds \cup givenUp
    <2>1. startAt = 0 \/ startAt = LastStored
        BY <1>1 DEF StartPoints, SeederInv, ResumesAtStored
    <2>2. QED  BY <2>1, ResumePoint DEF SeederInv
<1>3. StoredIds' = StoredIds /\ givenUp' = givenUp
    BY DEF StartSeed, StoredIds
<1>4. /\ seed'.next = startAt + 1 /\ seed'.startAt = startAt /\ seed'.batch = {}
      /\ seed'.recreate = recreate /\ seed'.pc = "probing"
    BY <1>1 DEF NewSeed
<1>5. seed'.next - 1 = startAt
    BY <1>2, <1>4
<1>6. QED  BY <1>1, <1>2, <1>3, <1>4, <1>5 DEF Behind, Preparing

LEMMA SeederStep == ASSUME SeederInv, [Next]_vars PROVE SeederInv'
<1>1. FitInv'
    BY FitStep DEF SeederInv
<1>2. ResumesAtStored'
    BY DEF SeederInv, ResumesAtStored
<1> USE DEF SeederInv
<1>3. CreatesNew' /\ Gapless' /\ Behind'
    <2>1. CASE UNCHANGED vars \/ Build
        <3>1. UNCHANGED <<seed, collection, givenUp>>
            BY <2>1 DEF vars, seedVars, Build
        <3>2. StoredIds' = StoredIds
            BY <3>1 DEF StoredIds
        <3>3. QED  BY <3>1, <3>2, GaplessKept DEF CreatesNew, Behind
    <2>2. CASE StartSeed
        <3>1. StoredIds' = StoredIds /\ givenUp' = givenUp
            BY <2>2 DEF StartSeed, StoredIds
        <3>2. seed'.pc = "probing"
            BY <2>2 DEF StartSeed, NewSeed
        <3>3. QED  BY <2>2, <3>1, <3>2, SeedStarts, GaplessKept DEF CreatesNew
    <2>3. CASE Probe \/ Check \/ LastFlush
        <3>1. UNCHANGED <<collection, givenUp>> /\ StoredIds' = StoredIds
            BY <2>3 DEF Probe, Check, LastFlush, StoredIds
        <3>2. Gapless'
            BY <3>1, GaplessKept
        <3>3. seed' # NoSeed =>
                  /\ seed # NoSeed
                  /\ seed'.next = seed.next /\ seed'.batch = seed.batch
                  /\ seed'.startAt = seed.startAt /\ seed'.recreate = seed.recreate
                  /\ seed'.pc = "dropping" => seed.recreate
                  /\ seed'.pc \in Preparing => seed.pc \in Preparing
                  /\ seed'.pc = "creating" => collection = NoCollection
            BY <2>3 DEF Probe, Check, LastFlush, Seeding, Go, FitInv, Shapes, Preparing
        <3>4. Behind'
            BY <3>1, <3>3 DEF Behind
        <3>5. QED  BY <3>1, <3>2, <3>3, <3>4 DEF CreatesNew
    <2>4. CASE Drop
        <3>1. collection' = NoCollection /\ StoredIds' = {}
            BY <2>4 DEF Drop, StoredIds
        <3>2. /\ seed # NoSeed /\ seed.pc = "dropping"
              /\ seed' = [seed EXCEPT !.pc = "creating"]
            BY <2>4 DEF Drop, Seeding, Go
        <3>3. seed.next = 1 /\ seed.batch = {} /\ seed.startAt = 0
            BY <3>2 DEF Behind, Preparing
        <3>4. /\ seed'.next = 1 /\ seed'.batch = {} /\ seed'.startAt = 0
              /\ seed'.pc = "creating"
            BY <3>2, <3>3 DEF FitInv, Shapes
        <3>5. Behind'
            BY <3>4 DEF Behind
        <3>6. QED  BY <3>1, <3>5, GaplessEmpty DEF CreatesNew
    <2>5. CASE Create
        <3>1. collection' = [size |-> seed.size, points |-> NoPoints]
            BY <2>5 DEF Create
        <3>2. collection = NoCollection /\ StoredIds = {}
            BY <2>5 DEF Create, Seeding, CreatesNew, StoredIds
        <3>3. StoredIds' = {}
            BY <3>1 DEF StoredIds, NoPoints
        <3>4. /\ seed # NoSeed /\ seed.pc \in Preparing
              /\ seed'.next = seed.next /\ seed'.batch = seed.batch
              /\ seed'.startAt = seed.startAt /\ seed'.recreate = seed.recreate
              /\ seed'.pc = "embedding" /\ givenUp' = givenUp
            BY <2>5 DEF Create, Seeding, Go, FitInv, Shapes, Preparing
        <3>5. Behind'
            BY <3>2, <3>3, <3>4 DEF Behind, Preparing
        <3>6. QED  BY <3>3, <3>4, <3>5, GaplessEmpty DEF CreatesNew
    <2>6. CASE EmbedRecord
        <3>1. UNCHANGED <<collection, givenUp>> /\ StoredIds' = StoredIds
            BY <2>6 DEF EmbedRecord, StoredIds
        <3>2. /\ seed # NoSeed /\ seed.next \in Nat \ {0}
              /\ seed'.next = seed.next + 1 /\ seed'.batch = seed.batch \cup {seed.next}
              /\ seed'.recreate = seed.recreate /\ seed'.startAt = seed.startAt
              /\ seed'.pc \in {"embedding", "flushing"}
            BY <2>6 DEF EmbedRecord, Seeding, FitInv, Shapes, Behind
        <3>3. Behind'
            <4>1. seed'.next - 1 = seed.next /\ seed'.next \in Nat \ {0}
                BY <3>2
            <4>2. seed'.batch \subseteq 1 .. seed.next
                BY <3>2 DEF Behind
            <4>3. \A n \in 1 .. seed.next : n = seed.next \/ n \in 1 .. seed.next - 1
                BY <3>2
            <4>4. \A n \in 1 .. seed.next : n \in StoredIds' \cup seed'.batch \cup givenUp'
                BY <3>1, <3>2, <4>3 DEF Behind
            <4>5. QED  BY <3>2, <4>1, <4>2, <4>4 DEF Behind, Preparing
        <3>4. QED  BY <3>1, <3>2, <3>3, GaplessKept DEF CreatesNew
    <2>7. CASE SkipRecord
        <3>1. collection' = collection /\ StoredIds' = StoredIds
              /\ givenUp' = givenUp \cup {seed.next}
            BY <2>7 DEF SkipRecord, StoredIds
        <3>2. /\ seed # NoSeed /\ seed.next \in Nat \ {0}
              /\ seed'.next = seed.next + 1 /\ seed'.batch = seed.batch
              /\ seed'.recreate = seed.recreate /\ seed'.startAt = seed.startAt
              /\ seed'.pc = "embedding"
            BY <2>7 DEF SkipRecord, Seeding, FitInv, Shapes, Behind
        <3>3. Behind'
            <4>1. seed'.next - 1 = seed.next /\ seed'.next \in Nat \ {0}
                BY <3>2
            <4>2. seed'.batch \subseteq 1 .. seed.next
                BY <3>2 DEF Behind
            <4>3. \A n \in 1 .. seed.next : n = seed.next \/ n \in 1 .. seed.next - 1
                BY <3>2
            <4>4. \A n \in 1 .. seed.next : n \in StoredIds' \cup seed'.batch \cup givenUp'
                BY <3>1, <3>2, <4>3 DEF Behind
            <4>5. QED  BY <3>2, <4>1, <4>2, <4>4 DEF Behind, Preparing
        <3>4. QED  BY <3>1, <3>2, <3>3, GaplessKept DEF CreatesNew
    <2>8. CASE Flush
        <3>1. Seeding("flushing") /\ seed # NoSeed
            BY <2>8 DEF Flush, Seeding
        <3>2. collection' # NoCollection /\ StoredIds' = StoredIds \cup seed.batch
            BY <2>8, <3>1, Batched DEF Flush
        <3>3. /\ seed'.next = seed.next /\ seed'.batch = {}
              /\ seed'.recreate = seed.recreate /\ seed'.startAt = seed.startAt
              /\ seed'.pc = "embedding" /\ givenUp' = givenUp
            BY <2>8, <3>1 DEF Flush, FitInv, Shapes
        <3>4. Behind'
            BY <3>1, <3>2, <3>3 DEF Behind, Preparing
        <3>5. QED  BY <3>1, <3>2, <3>3, <3>4, GaplessFlush DEF CreatesNew
    <2>9. CASE SeedDone \/ FlushRefused
        <3>1. seed' = NoSeed /\ givenUp' = givenUp /\ StoredIds' = StoredIds
            BY <2>9 DEF SeedDone, FlushRefused, StoredIds
        <3>2. QED  BY <3>1, GaplessKept DEF CreatesNew, Behind
    <2>10. CASE SeedBreaks
        <3>1. seed' = NoSeed /\ CreatesNew' /\ Behind'
            BY <2>10 DEF SeedBreaks, CreatesNew, Behind
        <3>2. ASSUME UNCHANGED <<collection, givenUp>> PROVE Gapless'
            BY <3>2, GaplessKept DEF StoredIds
        <3>3. ASSUME collection' = NoCollection PROVE Gapless'
            BY <3>3, GaplessEmpty DEF StoredIds
        <3>4. ASSUME collection' = [size |-> seed.size, points |-> NoPoints] PROVE Gapless'
            <4>1. StoredIds' = {}
                BY <3>4 DEF StoredIds, NoPoints
            <4>2. QED  BY <3>1, <4>1, GaplessEmpty
        <3>5. ASSUME Seeding("flushing"), givenUp' = givenUp,
                     collection' = [collection EXCEPT !.points = Stored(@)]
              PROVE  Gapless'
            <4>1. seed # NoSeed /\ StoredIds' = StoredIds \cup seed.batch
                BY <3>5, Batched DEF Seeding
            <4>2. QED  BY <3>1, <3>5, <4>1, GaplessFlush
        <3>6. Gapless'
            BY <2>10, <3>2, <3>3, <3>4, <3>5 DEF SeedBreaks
        <3>7. QED  BY <3>1, <3>6
    <2>11. QED
        BY <2>1, <2>2, <2>3, <2>4, <2>5, <2>6, <2>7, <2>8, <2>9, <2>10 DEF Next, SeedStep
<1>4. QED  BY <1>1, <1>2, <1>3

LEMMA SeederInit == ASSUME Markers, ResumesAtStored, Init PROVE SeederInv
<1>1. seed = NoSeed /\ StoredIds = {}
    BY DEF Init, StoredIds, SomeoneElses, NoPoints
<1>2. Gapless
    BY <1>1 DEF Gapless
<1>3. QED  BY <1>1, <1>2, FitInit DEF SeederInv, CreatesNew, Behind

\* With resumes at the last stored point, no crash, lost reply or resume ever
\* leaves a record of the corpus behind that is neither stored nor given up.
THEOREM NoHoleEver == ASSUME Markers, ResumesAtStored PROVE Spec => []NoHoleBehind
<1>1. Init => SeederInv
    BY SeederInit
<1>2. SeederInv /\ [Next]_vars => SeederInv'
    BY SeederStep
<1>3. SeederInv => NoHoleBehind
    BY DEF SeederInv, Behind, NoHoleBehind, AtWork
<1>4. QED  BY <1>1, <1>2, <1>3, PTL DEF Spec

-----------------------------------------------------------------------------
(* Sequences selected by rank *)

\* How many members of S come before x.
Rank(S, R, x) == Cardinality({y \in S : <<y, x>> \in R})

\* R orders the members of S, one before the other.
Orders(R, S) ==
    /\ \A x \in S : <<x, x>> \notin R
    /\ \A x, y \in S : x = y \/ <<x, y>> \in R \/ <<y, x>> \in R
    /\ \A x, y, z \in S : <<x, y>> \in R /\ <<y, z>> \in R => <<x, z>> \in R

LEMMA RankGrows ==
    ASSUME NEW S, NEW R, IsFiniteSet(S), Orders(R, S), NEW x \in S, NEW z \in S, <<x, z>> \in R
    PROVE  Rank(S, R, x) < Rank(S, R, z)
<1> DEFINE X == {y \in S : <<y, x>> \in R}
           Z == {y \in S : <<y, z>> \in R}
<1>1. X \subseteq Z /\ x \in Z /\ x \notin X /\ Z \subseteq S
    BY DEF Orders
<1> HIDE DEF X, Z
<1>2. IsFiniteSet(Z)
    BY <1>1, FS_Subset
<1>3. Cardinality(Z) \in Nat
    BY <1>2, FS_CardinalityType
<1>4. IsFiniteSet(X) /\ Cardinality(X) <= Cardinality(Z) /\ Cardinality(X) # Cardinality(Z)
    BY <1>1, <1>2, FS_Subset
<1>5. Cardinality(X) \in Nat
    BY <1>4, FS_CardinalityType
<1>6. QED  BY <1>3, <1>4, <1>5 DEF Rank, X, Z

\* The ranks are 0, 1, 2 and so on, each taken once.
LEMMA Ranks ==
    ASSUME NEW S, NEW R, IsFiniteSet(S), Orders(R, S)
    PROVE  /\ \A x \in S : Rank(S, R, x) \in 0 .. Cardinality(S) - 1
           /\ \A x, z \in S : Rank(S, R, x) = Rank(S, R, z) => x = z
           /\ \A n \in 1 .. Cardinality(S) : \E x \in S : Rank(S, R, x) = n - 1
<1>1. Cardinality(S) \in Nat
    BY FS_CardinalityType
<1>2. ASSUME NEW x \in S PROVE Rank(S, R, x) \in 0 .. Cardinality(S) - 1
    <2> DEFINE X == {y \in S : <<y, x>> \in R}
    <2>1. X \subseteq S /\ X # S
        BY DEF Orders
    <2> HIDE DEF X
    <2>2. IsFiniteSet(X) /\ Cardinality(X) <= Cardinality(S) /\ Cardinality(X) # Cardinality(S)
        BY <2>1, FS_Subset
    <2>3. Cardinality(X) \in Nat
        BY <2>2, FS_CardinalityType
    <2>4. QED  BY <1>1, <2>2, <2>3 DEF Rank, X
<1>3. ASSUME NEW x \in S, NEW z \in S, Rank(S, R, x) = Rank(S, R, z) PROVE x = z
    <2>1. Rank(S, R, x) \in Nat
        BY <1>2
    <2>2. ~(<<x, z>> \in R) /\ ~(<<z, x>> \in R)
        BY <1>3, <2>1, RankGrows
    <2>3. QED  BY <2>2 DEF Orders
<1>4. \A n \in 1 .. Cardinality(S) : \E x \in S : Rank(S, R, x) = n - 1
    <2> DEFINE T == 0 .. Cardinality(S) - 1
               f == [x \in S |-> Rank(S, R, x)]
    <2>1. f \in Injection(S, T)
        BY <1>2, <1>3 DEF Injection, IsInjective
    <2>2. IsFiniteSet(T) /\ Cardinality(T) = Cardinality(S)
        <3>1. Cardinality(S) - 1 \in Int /\ 0 \in Int
            BY <1>1
        <3> DEFINE b == Cardinality(S) - 1
        <3>2. IsFiniteSet(0 .. b) /\ Cardinality(0 .. b) = IF 0 > b THEN 0 ELSE b - 0 + 1
            <4> HIDE DEF b
            <4>1. QED  BY <3>1, FS_Interval DEF b
        <3>3. QED  BY <1>1, <3>2
    <2>3. f \in Surjection(S, T)
        <3> HIDE DEF f, T
        <3>1. QED  BY <2>1, <2>2, FS_Injection
    <2>4. ASSUME NEW n \in 1 .. Cardinality(S) PROVE \E x \in S : Rank(S, R, x) = n - 1
        <3>1. n - 1 \in T
            BY <1>1
        <3>2. \E x \in S : f[x] = n - 1
            BY <2>3, <3>1 DEF Surjection
        <3>3. QED  BY <3>2
    <2>5. QED  BY <2>4
<1>5. QED  BY <1>2, <1>3, <1>4

\* The list puts every member at the place its rank gives it.
Lists(list, S, R) ==
    /\ list \in [1 .. Cardinality(S) -> S]
    /\ \A n \in 1 .. Cardinality(S) : Rank(S, R, list[n]) = n - 1

\* Members listed by their rank: each is listed, and once.
LEMMA Listing ==
    ASSUME NEW S, NEW R, IsFiniteSet(S), Orders(R, S),
           NEW list, Lists(list, S, R)
    PROVE  /\ Cardinality(S) \in Nat
           /\ \A m, n \in 1 .. Cardinality(S) : list[m] = list[n] => m = n
           /\ \A x \in S : \E n \in 1 .. Cardinality(S) : list[n] = x
<1>1. Cardinality(S) \in Nat
    BY FS_CardinalityType
<1>3. ASSUME NEW m \in 1 .. Cardinality(S), NEW n \in 1 .. Cardinality(S), list[m] = list[n]
      PROVE  m = n
    <2>1. m - 1 = n - 1
        BY <1>3 DEF Lists
    <2>2. QED  BY <1>1, <2>1
<1>4. ASSUME NEW x \in S PROVE \E n \in 1 .. Cardinality(S) : list[n] = x
    <2>1. Rank(S, R, x) \in 0 .. Cardinality(S) - 1
        BY Ranks
    <2> DEFINE n == Rank(S, R, x) + 1
    <2>2. n \in 1 .. Cardinality(S) /\ n - 1 = Rank(S, R, x)
        BY <1>1, <2>1
    <2>3. list[n] \in S /\ Rank(S, R, list[n]) = Rank(S, R, x)
        BY <2>2 DEF Lists
    <2>4. list[n] = x
        BY <2>3, Ranks
    <2>5. QED  BY <2>2, <2>4
<1>5. QED  BY <1>1, <1>3, <1>4

\* A file of lines.
IsLines(f) == \E len \in Nat : f = [i \in 1 .. len |-> f[i]]

\* These rows are the places, each once, and list is what stands there.
Selects(rows, f, places, list) ==
    /\ list = [n \in 1 .. Len(rows) |-> f[rows[n]]]
    /\ \A m, n \in 1 .. Len(rows) : rows[m] = rows[n] => m = n
    /\ \A i \in places : \E n \in 1 .. Len(rows) : rows[n] = i

LEMMA OrderOfNat ==
    ASSUME NEW S \in SUBSET Nat
    PROVE  \E R : Orders(R, S) /\ \A x \in S : Rank(S, R, x) = Cardinality({y \in S : y < x})
<1>1. PICK R : R = {pair \in Nat \X Nat : pair[1] < pair[2]}
    OBVIOUS
<1>2. Orders(R, S)
    BY <1>1 DEF Orders
<1>3. ASSUME NEW x \in S PROVE Rank(S, R, x) = Cardinality({y \in S : y < x})
    <2>1. {y \in S : <<y, x>> \in R} = {y \in S : y < x}
        BY <1>1
    <2>2. QED  BY <2>1 DEF Rank
<1>4. QED  BY <1>2, <1>3

LEMMA SelectedByRank ==
    ASSUME NEW f, NEW places, IsFiniteSet(places), NEW R, Orders(R, places),
           \A x \in places : Rank(places, R, x) = Cardinality({y \in places : y < x})
    PROVE  \E rows \in Seq(places) : Selects(rows, f, places, Selected(f, places))
<1> DEFINE size == Cardinality(places)
           list == InOrder(places, <)
<1> HIDE DEF size, list
<1>1. \A k \in 1 .. size : \E x \in places : Rank(places, R, x) = k - 1
    BY Ranks DEF size
<1>2. ASSUME NEW n \in 1 .. size PROVE list[n] \in places /\ Rank(places, R, list[n]) = n - 1
    <2>1. \E x \in places : Cardinality({y \in places : y < x}) = n - 1
        BY <1>1
    <2>2. list[n] = CHOOSE x \in places : Cardinality({y \in places : y < x}) = n - 1
        BY DEF list, size, InOrder
    <2>3. list[n] \in places /\ Cardinality({y \in places : y < list[n]}) = n - 1
        BY <2>1, <2>2
    <2>4. QED  BY <2>3
<1>3. list \in [1 .. size -> places]
    BY <1>2 DEF list, size, InOrder
<1>4. Selected(f, places) = [n \in 1 .. size |-> f[list[n]]]
    BY DEF Selected, list, size, InOrder
<1>5. /\ size \in Nat
      /\ \A m, n \in 1 .. size : list[m] = list[n] => m = n
      /\ \A x \in places : \E n \in 1 .. size : list[n] = x
    <2>1. Lists(list, places, R)
        BY <1>2, <1>3 DEF Lists, size
    <2>2. QED  BY <2>1, Listing DEF size
<1>6. list \in Seq(places) /\ Len(list) = size
    BY <1>3, <1>5
<1>7. QED  BY <1>4, <1>5, <1>6 DEF Selects

LEMMA SelectedRows ==
    ASSUME NEW f, NEW places, IsFiniteSet(places), places \subseteq Nat
    PROVE  \E rows \in Seq(places) : Selects(rows, f, places, Selected(f, places))
BY OrderOfNat, SelectedByRank

\* No two records of a file have one CVE.
Distinct(f) ==
    \A i, j \in DOMAIN f :
        f[i] # TornLine /\ f[j] # TornLine /\ f[i].cve = f[j].cve => i = j

LEMMA FilteredDistinct ==
    ASSUME NEW lines, IsLines(lines), NEW keep
    PROVE  IsLines(Filtered(lines, keep)) /\ Distinct(Filtered(lines, keep))
<1> DEFINE places == FirstRows(lines, keep)
<1>1. PICK size \in Nat : lines = [i \in 1 .. size |-> lines[i]]
    BY DEF IsLines
<1>2. DOMAIN lines = 1 .. size
    BY <1>1
<1>3. places \subseteq 1 .. size
    BY <1>2 DEF FirstRows
<1>4. \A i, j \in places : lines[i].cve = lines[j].cve => i = j
    <2>1. ASSUME NEW i \in places, NEW j \in places, i < j PROVE lines[i].cve # lines[j].cve
        <3>1. i \in 1 .. j - 1
            BY <1>3, <2>1
        <3>2. lines[i] # TornLine /\ (\A k \in 1 .. j - 1 : lines[k] # TornLine => lines[k].cve # lines[j].cve)
            BY DEF FirstRows
        <3>3. QED  BY <3>1, <3>2
    <2>2. ASSUME NEW i \in places, NEW j \in places, lines[i].cve = lines[j].cve PROVE i = j
        <3>1. i \in Nat /\ j \in Nat
            BY <1>3
        <3>2. ~(i < j) /\ ~(j < i)
            BY <2>1, <2>2
        <3>3. QED  BY <3>1, <3>2
    <2>3. QED  BY <2>2
<1>5. IsFiniteSet(places)
    <2>1. IsFiniteSet(1 .. size)
        BY FS_Interval
    <2>2. QED  BY <1>3, <2>1, FS_Subset
<1> HIDE DEF places
<1>6. PICK rows \in Seq(places) : Selects(rows, lines, places, Selected(lines, places))
    <2>1. places \subseteq Nat
        BY <1>3
    <2>2. QED  BY <1>5, <2>1, SelectedRows
<1>7. Filtered(lines, keep) = [n \in 1 .. Len(rows) |-> lines[rows[n]]]
    BY <1>6 DEF Filtered, places, Selects
<1> DEFINE f == Filtered(lines, keep)
<1> HIDE DEF f
<1>8. f = [n \in 1 .. Len(rows) |-> lines[rows[n]]] /\ Len(rows) \in Nat
    BY <1>7 DEF f
<1>9. IsLines(f)
    BY <1>8 DEF IsLines
<1>10. ASSUME NEW i \in DOMAIN f, NEW j \in DOMAIN f, f[i].cve = f[j].cve PROVE i = j
    <2>1. /\ i \in 1 .. Len(rows) /\ rows[i] \in places /\ f[i] = lines[rows[i]]
          /\ j \in 1 .. Len(rows) /\ rows[j] \in places /\ f[j] = lines[rows[j]]
        BY <1>8
    <2>2. rows[i] = rows[j]
        BY <1>4, <1>10, <2>1
    <2>3. QED  BY <1>6, <2>1, <2>2 DEF Selects
<1>11. QED  BY <1>9, <1>10 DEF Distinct, f

\* A file cut short, torn or not, is a file, and as distinct as it was.
LEMMA CutShortLines ==
    ASSUME NEW lines, IsLines(lines), NEW f \in CutShort(lines)
    PROVE  IsLines(f) /\ (Distinct(lines) => Distinct(f))
<1>1. PICK size \in Nat : lines = [i \in 1 .. size |-> lines[i]]
    BY DEF IsLines
<1> DEFINE S == {lines[i] : i \in 1 .. size} \cup {TornLine}
<1>2. lines \in Seq(S) /\ Len(lines) = size
    <2>1. lines \in [1 .. size -> S]
        BY <1>1
    <2>2. QED  BY <2>1
<1>3. PICK n \in 0 .. size, torn \in {<<>>, <<TornLine>>} : f = SubSeq(lines, 1, n) \o torn
    BY <1>2 DEF CutShort
<1>4. torn \in Seq(S) /\ (torn = <<>> \/ torn = <<TornLine>>)
    <2>1. TornLine \in S
        OBVIOUS
    <2> HIDE DEF S
    <2>2. CASE torn = <<>>
        BY <2>2
    <2>3. CASE torn = <<TornLine>>
        BY <2>1, <2>3
    <2>4. QED  BY <1>3, <2>2, <2>3
<1> HIDE DEF S
<1>5. /\ SubSeq(lines, 1, n) \in Seq(S) /\ Len(SubSeq(lines, 1, n)) = n
      /\ \A i \in 1 .. n : SubSeq(lines, 1, n)[i] = lines[i]
    BY <1>2
<1>6. /\ f \in Seq(S)
      /\ \A i \in DOMAIN f : i \in Nat /\ ((i \in 1 .. n /\ f[i] = lines[i]) \/ f[i] = TornLine)
    BY <1>3, <1>4, <1>5
<1>7. IsLines(f)
    <2>1. Len(f) \in Nat /\ f = [i \in 1 .. Len(f) |-> f[i]]
        BY <1>6
    <2>2. QED  BY <2>1 DEF IsLines
<1>8. ASSUME Distinct(lines) PROVE Distinct(f)
    <2>1. 1 .. n \subseteq DOMAIN lines
        BY <1>1
    <2>2. QED  BY <1>6, <1>8, <2>1 DEF Distinct
<1>9. QED  BY <1>7, <1>8

\* The records of a file: what is left of it without torn lines.
LEMMA RecordsOfLines ==
    ASSUME NEW f, IsLines(f)
    PROVE  \E len \in Nat :
              /\ RecordsOf(f) = [n \in 1 .. len |-> RecordsOf(f)[n]]
              /\ Distinct(f) =>
                    \A m, n \in 1 .. len : RecordsOf(f)[m].cve = RecordsOf(f)[n].cve => m = n
<1> DEFINE places == {i \in DOMAIN f : f[i] # TornLine}
           records == RecordsOf(f)
<1>1. PICK size \in Nat : f = [i \in 1 .. size |-> f[i]]
    BY DEF IsLines
<1>2. DOMAIN f = 1 .. size
    BY <1>1
<1>3. places \subseteq 1 .. size /\ IsFiniteSet(1 .. size)
    BY <1>2, FS_Interval
<1>4. Distinct(f) => \A i, j \in places : f[i].cve = f[j].cve => i = j
    BY DEF Distinct
<1>5. records = Selected(f, places)
    BY DEF RecordsOf
<1> HIDE DEF places, records
<1>6. IsFiniteSet(places)
    BY <1>3, FS_Subset
<1>7. PICK rows \in Seq(places) : Selects(rows, f, places, Selected(f, places))
    <2>1. places \subseteq Nat
        BY <1>3
    <2>2. QED  BY <1>6, <2>1, SelectedRows
<1>8. records = [n \in 1 .. Len(rows) |-> f[rows[n]]] /\ Len(rows) \in Nat
    BY <1>5, <1>7 DEF Selects
<1>9. ASSUME Distinct(f), NEW m \in 1 .. Len(rows), NEW n \in 1 .. Len(rows),
             records[m].cve = records[n].cve
      PROVE  m = n
    BY <1>4, <1>7, <1>8, <1>9 DEF Selects
<1>10. records = [n \in 1 .. Len(rows) |-> records[n]]
    BY <1>8
<1>11. QED  BY <1>8, <1>9, <1>10 DEF records

\* The records of the file that is seeded.
LEMMA RecordLines ==
    ASSUME SeedFile # NoFile => IsLines(SeedFile),
           SeedFile # NoFile /\ jsonl = "kev" => Distinct(SeedFile)
    PROVE  \E len \in Nat :
              /\ Records = [n \in 1 .. len |-> Records[n]]
              /\ jsonl = "kev" =>
                    \A m, n \in 1 .. len : Records[m].cve = Records[n].cve => m = n
<1>1. CASE SeedFile = NoFile
    <2>1. Records = <<>>
        BY <1>1 DEF Records
    <2>2. Records = [n \in 1 .. 0 |-> Records[n]]
        BY <2>1
    <2>3. \A m, n \in 1 .. 0 : m = n
        OBVIOUS
    <2>4. QED  BY <2>2, <2>3
<1>2. CASE SeedFile # NoFile
    <2>1. Records = RecordsOf(SeedFile)
        BY <1>2 DEF Records
    <2>2. PICK len \in Nat :
              /\ RecordsOf(SeedFile) = [n \in 1 .. len |-> RecordsOf(SeedFile)[n]]
              /\ Distinct(SeedFile) =>
                    \A m, n \in 1 .. len :
                        RecordsOf(SeedFile)[m].cve = RecordsOf(SeedFile)[n].cve => m = n
        BY <1>2, RecordsOfLines
    <2>3. QED  BY <1>2, <2>1, <2>2
<1>3. QED  BY <1>1, <1>2

-----------------------------------------------------------------------------
(* Building the corpus *)

BuildInv ==
    /\ IsFiniteSet(DOMAIN cache)
    /\ nvdFile # NoFile => IsLines(nvdFile)
    /\ kevFile # NoFile => IsLines(kevFile) /\ Distinct(kevFile)
    /\ fetching # NoFetch =>
          /\ fetching = [window |-> fetching.window, start |-> fetching.start,
                         attempt |-> fetching.attempt, upstream |-> fetching.upstream]
          /\ fetching.attempt \in 0 .. FetchRetries

LEMMA CacheGrows ==
    ASSUME IsFiniteSet(DOMAIN cache), NEW key, NEW page, cache' = Update(cache, key, page)
    PROVE  IsFiniteSet(DOMAIN cache')
<1>1. DOMAIN cache' = DOMAIN cache \cup {key}
    BY DEF Update
<1>2. QED  BY <1>1, FS_AddElement

LEMMA EntriesFinite == ASSUME IsFiniteSet(DOMAIN cache) PROVE IsFiniteSet(Entries)
<1>1. IsFiniteSet(ReadPages)
    <2>1. ReadPages \subseteq DOMAIN cache
        BY DEF ReadPages
    <2>2. QED  BY <2>1, FS_Subset
<1>2. IsFiniteSet(1 .. PageSize)
    <2>1. PageSize \in Int /\ 1 \in Int
        BY BuildAssumption
    <2>2. QED  BY <2>1, FS_Interval
<1>3. Entries \subseteq ReadPages \X (1 .. PageSize)
    BY DEF Entries
<1>4. IsFiniteSet(ReadPages \X (1 .. PageSize))
    BY <1>1, <1>2, FS_Product
<1>5. QED  BY <1>3, <1>4, FS_Subset

LEMMA CompactedLines == ASSUME IsFiniteSet(DOMAIN cache) PROVE IsLines(Compacted)
<1>1. IsFiniteSet(Entries)
    BY EntriesFinite
<1>2. Cardinality(Entries) \in Nat
    BY <1>1, FS_CardinalityType
<1>3. DOMAIN Compacted = 1 .. Cardinality(Entries)
    BY DEF Compacted, InOrder
<1>4. Compacted = [n \in 1 .. Cardinality(Entries) |-> Compacted[n]]
    BY <1>3 DEF Compacted, InOrder
<1>5. QED  BY <1>2, <1>4 DEF IsLines

LEMMA BuildStepInv == ASSUME BuildInv, BuildStep PROVE BuildInv'
<1> USE DEF BuildInv
<1>1. FetchRetries \in Nat
    BY BuildAssumption
<1>2. CASE StartFetch
    BY <1>1, <1>2 DEF StartFetch, FirstRequest
<1>3. CASE FetchPage
    <2>1. IsFiniteSet(DOMAIN cache')
        BY <1>3, CacheGrows DEF FetchPage
    <2>2. fetching' # NoFetch =>
              /\ fetching' = [window |-> fetching'.window, start |-> fetching'.start,
                              attempt |-> fetching'.attempt, upstream |-> fetching'.upstream]
              /\ fetching'.attempt = 0
        BY <1>3 DEF FetchPage, NextWindow
    <2>3. QED  BY <1>1, <1>3, <2>1, <2>2 DEF FetchPage
<1>4. CASE FetchThrottled
    BY <1>1, <1>4 DEF FetchThrottled, AttemptAfter
<1>5. CASE FetchStops
    <2>1. IsFiniteSet(DOMAIN cache')
        BY <1>5, CacheGrows DEF FetchStops
    <2>2. QED  BY <1>5, <2>1 DEF FetchStops
<1>6. CASE NvdEdits
    BY <1>6 DEF NvdEdits
<1>7. CASE Compact
    BY <1>7, CompactedLines DEF Compact
<1>8. CASE CompactKilled
    BY <1>8, CompactedLines, CutShortLines DEF CompactKilled
<1>9. CASE FilterKev
    BY <1>9, FilteredDistinct DEF FilterKev
<1>10. CASE FilterKilled
    <2>1. IsLines(Filtered(nvdFile, KeepSet(TRUE))) /\ Distinct(Filtered(nvdFile, KeepSet(TRUE)))
        BY <1>10, FilteredDistinct DEF FilterKilled
    <2>2. kevFile' \in CutShort(Filtered(nvdFile, KeepSet(TRUE)))
        BY <1>10 DEF FilterKilled
    <2>3. IsLines(kevFile') /\ Distinct(kevFile')
        BY <2>1, <2>2, CutShortLines
    <2>4. QED  BY <1>10, <2>3 DEF FilterKilled
<1>11. QED
    BY <1>2, <1>3, <1>4, <1>5, <1>6, <1>7, <1>8, <1>9, <1>10 DEF BuildStep

-----------------------------------------------------------------------------
(* What is stored is the file *)

\* Every state of a process on its way through a file of so many records.
OnItsWay(run, len) ==
    /\ run \in SeedType
    /\ IsFiniteSet(run.batch) /\ Cardinality(run.batch) <= BatchSize
    /\ run.pc # "flushing" => Cardinality(run.batch) < BatchSize
    /\ run.startAt < run.next /\ run.batch \subseteq run.startAt + 1 .. run.next - 1
    /\ run.batch \subseteq 1 .. len

Mirrors(points, records) ==
    /\ DOMAIN points \subseteq 1 .. Len(records)
    /\ points = [n \in DOMAIN points |-> records[n]]

StoreInv ==
    /\ seeds \in Nat /\ progress \in Nat
    /\ seeds = 0 => seed = NoSeed /\ collection \in {NoCollection, SomeoneElses}
    /\ seed # NoSeed => OnItsWay(seed, Len(Records))
    /\ collection # NoCollection =>
          collection.size \in VectorSizes \cup {Unsized} /\ Mirrors(collection.points, Records)

CorpusInv == BuildInv /\ FitInv /\ StoreInv

\* Once a collection is being seeded, its file and what led to it stand still.
LEMMA CorpusStays ==
    ASSUME [Next]_vars, ~Build
    PROVE  UNCHANGED <<nvd, cache, fetching, nvdFile, kevFile, stage, jsonl>> /\ Records' = Records
<1>1. UNCHANGED <<nvd, cache, fetching, nvdFile, kevFile, stage, jsonl>>
    BY DEF Next, StartSeed, SeedStep, Probe, Drop, Check, Create, EmbedRecord, LastFlush, Flush,
           FlushRefused, SeedDone, SkipRecord, SeedBreaks, buildVars, seedVars, vars
<1>2. QED  BY <1>1 DEF Records, SeedFile

LEMMA RecordsSeq ==
    ASSUME BuildInv
    PROVE  /\ Len(Records) \in Nat
           /\ Records = [n \in 1 .. Len(Records) |-> Records[n]]
           /\ jsonl = "kev" =>
                 \A m, n \in 1 .. Len(Records) : Records[m].cve = Records[n].cve => m = n
<1>1. PICK len \in Nat :
          /\ Records = [n \in 1 .. len |-> Records[n]]
          /\ jsonl = "kev" =>
                \A m, n \in 1 .. len : Records[m].cve = Records[n].cve => m = n
    <2>1. SeedFile # NoFile => IsLines(SeedFile)
        BY DEF BuildInv, SeedFile
    <2>2. SeedFile # NoFile /\ jsonl = "kev" => Distinct(SeedFile)
        BY DEF BuildInv, SeedFile
    <2>3. QED  BY <2>1, <2>2, RecordLines
<1>2. Len(Records) = len
    <2> DEFINE s == Records
    <2>1. s = [n \in 1 .. len |-> s[n]]
        BY <1>1
    <2> HIDE DEF s
    <2>2. s \in Seq({s[n] : n \in 1 .. len}) /\ Len(s) = len
        <3>1. s \in [1 .. len -> {s[n] : n \in 1 .. len}]
            BY <2>1
        <3>2. QED  BY <3>1
    <2>3. QED  BY <2>2 DEF s
<1>3. QED  BY <1>1, <1>2

\* What a flush stores, and what a repeated flush stores again.
LEMMA StoredMirrors ==
    ASSUME NEW points, Mirrors(points, Records), seed.batch \subseteq 1 .. Len(Records)
    PROVE  Mirrors(Stored(points), Records) /\ DOMAIN points \subseteq DOMAIN Stored(points)
<1>1. \A id \in seed.batch : (CHOOSE position \in seed.batch : PointId(position) = id) = id
    BY DEF PointId
<1>2. {PointId(position) : position \in seed.batch} = seed.batch
    BY DEF PointId
<1>3. Stored(points) = [id \in DOMAIN points \cup seed.batch |->
                           IF id \in seed.batch THEN Records[id] ELSE points[id]]
    <2> DEFINE recordOf(id) == Records[CHOOSE position \in seed.batch : PointId(position) = id]
    <2>1. \A id \in seed.batch : recordOf(id) = Records[id]
        BY <1>1
    <2>2. Stored(points) = [id \in DOMAIN points \cup seed.batch |->
                               IF id \in seed.batch THEN recordOf(id) ELSE points[id]]
        BY <1>2 DEF Stored
    <2> HIDE DEF recordOf
    <2>3. QED  BY <2>1, <2>2
<1> DEFINE new == Stored(points)
<1>4. new = [id \in DOMAIN points \cup seed.batch |->
                IF id \in seed.batch THEN Records[id] ELSE points[id]]
    BY <1>3
<1> HIDE DEF new
<1>5. DOMAIN new = DOMAIN points \cup seed.batch
    BY <1>4
<1>6. \A n \in DOMAIN new : new[n] = Records[n]
    BY <1>4 DEF Mirrors
<1>7. new = [n \in DOMAIN new |-> Records[n]]
    BY <1>4, <1>5, <1>6
<1>8. QED  BY <1>5, <1>7 DEF Mirrors, new

LEMMA EmptyMirrors == ASSUME NEW records PROVE Mirrors(NoPoints, records)
BY DEF Mirrors, NoPoints

\* The last stored point, where a run may resume.
LEMMA LastStoredType == ASSUME CorpusInv PROVE LastStored \in Nat
<1>1. Len(Records) \in Nat /\ StoredIds \subseteq 1 .. Len(Records)
    BY RecordsSeq DEF CorpusInv, StoreInv, StoredIds, Mirrors
<1>2. CASE StoredIds = {}
    BY <1>2 DEF LastStored
<1>3. CASE StoredIds # {}
    <2> DEFINE len == Len(Records)
               gaps == {gap \in Nat : len - gap \in StoredIds}
    <2> HIDE DEF len
    <2>1. len \in Nat /\ StoredIds \subseteq 1 .. len
        BY <1>1 DEF len
    <2>2. PICK m \in StoredIds : TRUE
        BY <1>3
    <2>3. len - m \in gaps
        BY <2>1, <2>2
    <2>4. PICK least \in gaps : \A gap \in gaps : least <= gap
        <3>1. gaps \subseteq Nat /\ gaps # {}
            BY <2>3
        <3> HIDE DEF gaps
        <3>2. QED  BY <3>1, LeastNatural
    <2>5. \A k \in StoredIds : k <= len - least
        <3>1. ASSUME NEW k \in StoredIds PROVE k <= len - least
            <4>1. k \in 1 .. len /\ least \in Nat
                BY <2>1, <2>4
            <4>2. len - k \in gaps
                BY <2>1, <4>1
            <4>3. least <= len - k
                BY <2>4, <4>2
            <4>4. QED  BY <2>1, <4>1, <4>3
        <3>2. QED  BY <3>1
    <2>6. len - least \in StoredIds
        BY <2>4
    <2>7. LastStored \in StoredIds
        BY <1>3, <2>5, <2>6 DEF LastStored
    <2>8. QED  BY <2>1, <2>7
<1>4. QED  BY <1>2, <1>3

LEMMA StoreStep == ASSUME CorpusInv, BuildInv', FitInv', [Next]_vars PROVE StoreInv'
<1> USE DEF CorpusInv
<1>0. /\ Len(Records) \in Nat /\ BatchSize \in Nat \ {0} /\ LogEvery \in Nat \ {0}
      /\ Limits \subseteq Nat /\ ResumePolicies \subseteq {"stored", "logged"}
    BY RecordsSeq, SeederAssumption
<1>1. CASE UNCHANGED vars
    <2>1. Records' = Records
        BY <1>1 DEF vars, buildVars, seedVars, Records, SeedFile
    <2>2. QED  BY <1>1, <2>1 DEF vars, seedVars, StoreInv, SomeoneElses, NoPoints
<1>2. CASE Build
    <2>1. /\ UNCHANGED <<collection, seed, progress, seeds>> /\ seeds = 0 /\ seed = NoSeed
          /\ collection \in {NoCollection, SomeoneElses} /\ progress \in Nat
        BY <1>2 DEF Build, seedVars, StoreInv
    <2>2. SomeoneElses' = SomeoneElses /\ SomeoneElses.size = Unsized /\ SomeoneElses.points = NoPoints
        BY DEF SomeoneElses, NoPoints
    <2>3. Mirrors(NoPoints, Records')
        BY EmptyMirrors
    <2>4. QED  BY <2>1, <2>2, <2>3 DEF StoreInv
<1>3. SomeoneElses' = SomeoneElses
    BY DEF SomeoneElses, NoPoints
<1>4. CASE StartSeed
    <2>1. PICK startAt \in StartPoints, recreate \in BOOLEAN, limit \in Limits, size \in VectorSizes :
              seed' = NewSeed(startAt, recreate, limit, size)
        BY <1>4 DEF StartSeed
    <2>2. startAt \in Nat
        BY <2>1, LastStoredType DEF StartPoints, StoreInv
    <2>3. OnItsWay(seed', Len(Records))
        <3>1. seed' \in SeedType
            BY <2>1, <2>2 DEF NewSeed, SeedType
        <3>2. seed'.batch = {} /\ seed'.pc = "probing" /\ seed'.startAt < seed'.next
            BY <2>1, <2>2 DEF NewSeed
        <3>3. QED  BY <1>0, <3>1, <3>2, FS_EmptySet DEF OnItsWay
    <2>4. seeds \in Nat /\ seeds' = seeds + 1 /\ UNCHANGED <<collection, progress>>
        BY <1>4 DEF StartSeed, StoreInv
    <2>5. Records' = Records
        BY <1>4 DEF StartSeed, buildVars, Records, SeedFile
    <2>6. QED  BY <2>3, <2>4, <2>5 DEF StoreInv
<1>5. CASE Probe \/ Check \/ LastFlush
    <2>1. UNCHANGED <<collection, progress, seeds>> /\ Records' = Records
        BY <1>5 DEF Probe, Check, LastFlush, buildVars, Records, SeedFile
    <2>2. ASSUME seed' # NoSeed PROVE seed # NoSeed /\ OnItsWay(seed', Len(Records))
        <3>1. seed # NoSeed /\ OnItsWay(seed, Len(Records))
            BY <1>5 DEF Probe, Check, LastFlush, Seeding, StoreInv
        <3>2. PICK pc \in {"probing", "dropping", "checking", "creating", "embedding", "flushing"} :
                  /\ seed' = [seed EXCEPT !.pc = pc]
                  /\ pc = "flushing" => seed'.batch = seed.batch
                  /\ pc = "flushing" => seed.pc # "flushing"
            BY <1>5, <2>2, <3>1 DEF Probe, Check, LastFlush, Go, Seeding, OnItsWay, SeedType
        <3>3. seed.pc # "flushing"
            BY <1>5 DEF Probe, Check, LastFlush, Seeding
        <3>4. QED  BY <3>1, <3>2, <3>3 DEF OnItsWay, SeedType
    <2>3. QED  BY <2>1, <2>2 DEF StoreInv
<1>6. CASE Drop
    <2>1. collection' = NoCollection /\ UNCHANGED <<progress, seeds>> /\ Records' = Records
        BY <1>6 DEF Drop, buildVars, Records, SeedFile
    <2>2. seed # NoSeed /\ seed.pc = "dropping" /\ seed' = [seed EXCEPT !.pc = "creating"]
        BY <1>6 DEF Drop, Seeding, Go
    <2>3. OnItsWay(seed', Len(Records))
        BY <2>2 DEF StoreInv, OnItsWay, SeedType
    <2>4. QED  BY <2>1, <2>2, <2>3 DEF StoreInv
<1>7. CASE Create
    <2>1. UNCHANGED <<progress, seeds>> /\ Records' = Records
        BY <1>7 DEF Create, buildVars, Records, SeedFile
    <2>2. /\ seed # NoSeed /\ seed.pc = "creating" /\ seed' = [seed EXCEPT !.pc = "embedding"]
          /\ collection' = [size |-> seed.size, points |-> NoPoints]
        BY <1>7 DEF Create, Seeding, Go
    <2>3. OnItsWay(seed', Len(Records))
        BY <2>2 DEF StoreInv, OnItsWay, SeedType
    <2>4. collection'.size \in VectorSizes \cup {Unsized} /\ Mirrors(collection'.points, Records)
        BY <2>2, EmptyMirrors DEF StoreInv, OnItsWay, SeedType
    <2>5. QED  BY <2>1, <2>2, <2>3, <2>4 DEF StoreInv
<1>8. CASE EmbedRecord
    <2>1. UNCHANGED <<collection, progress, seeds>> /\ Records' = Records
        BY <1>8 DEF EmbedRecord, buildVars, Records, SeedFile
    <2>2. seed # NoSeed /\ seed.pc = "embedding" /\ ~AtEnd /\ OnItsWay(seed, Len(Records))
        BY <1>8 DEF EmbedRecord, Seeding, StoreInv
    <2> DEFINE batch == seed.batch \cup {seed.next}
    <2>3. seed' = [seed EXCEPT !.batch = batch, !.next = seed.next + 1,
                               !.pc = IF BatchFull(batch) THEN "flushing" ELSE seed.pc]
        BY <1>8 DEF EmbedRecord
    <2>4. seed.next \in 1 .. Len(Records) /\ seed.startAt \in Nat
        <3>1. seed.next \in Nat \ {0} /\ seed.limit \in Nat /\ seed.startAt \in Nat
            BY <1>0, <2>2 DEF OnItsWay, SeedType
        <3>2. LastRecord \in Nat /\ LastRecord <= Len(Records)
            BY <1>0, <3>1 DEF LastRecord, Lesser
        <3>3. seed.next <= LastRecord
            BY <2>2, <3>1, <3>2 DEF AtEnd
        <3>4. QED  BY <1>0, <3>1, <3>2, <3>3
    <2>5. /\ seed.next \notin seed.batch
          /\ Cardinality(seed.batch) \in Nat /\ Cardinality(seed.batch) < BatchSize
        BY <2>2, <2>4, FS_CardinalityType DEF OnItsWay
    <2>6. IsFiniteSet(batch) /\ Cardinality(batch) = Cardinality(seed.batch) + 1
        BY <2>2, <2>5, FS_AddElement DEF OnItsWay
    <2>7. seed' \in SeedType
        <3> HIDE DEF batch
        <3>1. batch \in SUBSET (Nat \ {0}) /\ seed.next + 1 \in Nat \ {0}
            BY <2>2, <2>4 DEF OnItsWay, SeedType, batch
        <3>2. (IF BatchFull(batch) THEN "flushing" ELSE seed.pc) \in {"embedding", "flushing"}
            BY <2>2
        <3>3. QED  BY <2>2, <2>3, <3>1, <3>2 DEF OnItsWay, SeedType
    <2>8. seed'.batch = batch /\ seed'.startAt = seed.startAt /\ seed'.next = seed.next + 1
          /\ seed'.pc = IF BatchFull(batch) THEN "flushing" ELSE "embedding"
        BY <2>2, <2>3 DEF OnItsWay, SeedType
    <2>9. OnItsWay(seed', Len(Records))
        <3>1. Cardinality(batch) <= BatchSize
            BY <1>0, <2>5, <2>6
        <3>2. seed'.pc # "flushing" => Cardinality(batch) < BatchSize
            BY <1>0, <2>5, <2>6, <2>8 DEF BatchFull
        <3>3. seed.startAt + 1 <= seed.next
            BY <2>2, <2>4 DEF OnItsWay
        <3>4. batch \subseteq seed.startAt + 1 .. seed.next
            BY <2>2, <2>4, <3>3 DEF OnItsWay
        <3>5. batch \subseteq 1 .. Len(Records)
            BY <2>2, <2>4 DEF OnItsWay
        <3>6. seed'.next - 1 = seed.next /\ seed'.startAt < seed'.next
            BY <2>4, <2>8, <3>3
        <3>7. QED  BY <2>6, <2>7, <2>8, <3>1, <3>2, <3>4, <3>5, <3>6 DEF OnItsWay
    <2>10. QED  BY <2>1, <2>2, <2>9 DEF StoreInv
<1>9. CASE SkipRecord
    <2>1. UNCHANGED <<collection, progress, seeds>> /\ Records' = Records
        BY <1>9 DEF SkipRecord, Records, SeedFile
    <2>2. seed # NoSeed /\ seed.pc = "embedding" /\ OnItsWay(seed, Len(Records))
        BY <1>9 DEF SkipRecord, Seeding, StoreInv
    <2>3. seed' = [seed EXCEPT !.next = seed.next + 1]
        BY <1>9 DEF SkipRecord
    <2>4. seed' \in SeedType /\ seed'.next = seed.next + 1 /\ seed'.batch = seed.batch
          /\ seed'.startAt = seed.startAt /\ seed'.pc = "embedding"
        BY <2>2, <2>3 DEF OnItsWay, SeedType
    <2>5. OnItsWay(seed', Len(Records))
        <3>1. /\ seed.batch \subseteq seed.startAt + 1 .. seed'.next - 1
              /\ seed.startAt < seed'.next
            BY <2>2, <2>4 DEF OnItsWay, SeedType
        <3>2. QED  BY <2>2, <2>4, <3>1 DEF OnItsWay
    <2>6. QED  BY <2>1, <2>2, <2>5 DEF StoreInv
<1>10. CASE Flush
    <2>1. UNCHANGED <<progress, seeds>> /\ Records' = Records
        BY <1>10 DEF Flush, buildVars, Records, SeedFile
    <2>2. /\ seed # NoSeed /\ seed.pc = "flushing" /\ OnItsWay(seed, Len(Records))
          /\ seed' = [seed EXCEPT !.pc = "embedding", !.batch = {}]
          /\ collection' = [collection EXCEPT !.points = Stored(@)]
        BY <1>10 DEF Flush, Seeding, StoreInv
    <2>3. collection # NoCollection
        BY <2>2 DEF FitInv, EmbedsWhatFits, AtWork
    <2>4. collection' = [size |-> collection.size, points |-> Stored(collection.points)]
        BY <2>2, <2>3 DEF FitInv, Shapes
    <2>5. collection'.size \in VectorSizes \cup {Unsized} /\ Mirrors(collection'.points, Records)
        BY <2>2, <2>3, <2>4, StoredMirrors DEF StoreInv, OnItsWay
    <2>6. OnItsWay(seed', Len(Records))
        <3>1. seed' \in SeedType /\ seed'.batch = {} /\ seed'.pc = "embedding"
              /\ seed'.startAt = seed.startAt /\ seed'.next = seed.next
            BY <2>2 DEF OnItsWay, SeedType
        <3>2. QED  BY <1>0, <2>2, <3>1, FS_EmptySet DEF OnItsWay
    <2>7. QED  BY <2>1, <2>2, <2>3, <2>5, <2>6 DEF StoreInv
<1>11. CASE SeedDone
    <2>1. UNCHANGED <<collection, progress, seeds>> /\ seed' = NoSeed /\ Records' = Records
        BY <1>11 DEF SeedDone, buildVars, Records, SeedFile
    <2>2. QED  BY <2>1 DEF StoreInv
<1>12. CASE SeedBreaks \/ FlushRefused
    <2>1. seed # NoSeed /\ seed' = NoSeed /\ seeds' = seeds /\ progress' = LastLogged
          /\ Records' = Records /\ OnItsWay(seed, Len(Records))
        BY <1>12 DEF SeedBreaks, FlushRefused, Seeding, buildVars, Records, SeedFile, StoreInv
    <2>2. LastLogged \in Nat
        <3>1. LastRecord \in Nat
            BY <1>0, <2>1 DEF LastRecord, Lesser, OnItsWay, SeedType
        <3>2. LastTaken \in Nat
            BY <2>1, <3>1 DEF LastTaken, Lesser, OnItsWay, SeedType
        <3>3. LastTaken % LogEvery \in Nat
            BY <1>0, <3>2
        <3>4. LastTaken - (LastTaken % LogEvery) \in Int
            BY <3>2, <3>3
        <3>5. QED  BY <2>1, <3>4 DEF LastLogged, OnItsWay, SeedType
    <2>3. collection' # NoCollection =>
              collection'.size \in VectorSizes \cup {Unsized} /\ Mirrors(collection'.points, Records)
        <3>1. ASSUME UNCHANGED collection, collection' # NoCollection
              PROVE  collection'.size \in VectorSizes \cup {Unsized} /\ Mirrors(collection'.points, Records)
            BY <3>1 DEF StoreInv
        <3>2. ASSUME collection' = [size |-> seed.size, points |-> NoPoints]
              PROVE  collection'.size \in VectorSizes \cup {Unsized} /\ Mirrors(collection'.points, Records)
            BY <2>1, <3>2, EmptyMirrors DEF OnItsWay, SeedType
        <3>3. ASSUME Seeding("flushing"), collection' = [collection EXCEPT !.points = Stored(@)]
              PROVE  collection'.size \in VectorSizes \cup {Unsized} /\ Mirrors(collection'.points, Records)
            <4>1. collection # NoCollection
                BY <3>3 DEF FitInv, EmbedsWhatFits, AtWork, Seeding
            <4>2. collection' = [size |-> collection.size, points |-> Stored(collection.points)]
                BY <3>3, <4>1 DEF FitInv, Shapes
            <4>3. QED  BY <2>1, <4>1, <4>2, StoredMirrors DEF StoreInv, OnItsWay
        <3>4. QED  BY <1>12, <3>1, <3>2, <3>3 DEF SeedBreaks, FlushRefused
    <2>4. seeds # 0
        BY <2>1 DEF StoreInv
    <2>5. QED  BY <2>1, <2>2, <2>3, <2>4 DEF StoreInv
<1>13. QED
    BY <1>1, <1>2, <1>4, <1>5, <1>6, <1>7, <1>8, <1>9, <1>10, <1>11, <1>12 DEF Next, SeedStep

LEMMA CorpusInit == ASSUME Markers, Init PROVE CorpusInv
<1>1. FitInv
    BY FitInit
<1>2. BuildInv
    <2>1. DOMAIN cache = {} /\ nvdFile = NoFile /\ kevFile = NoFile /\ fetching = NoFetch
        BY DEF Init, BuildInit
    <2>2. QED  BY <2>1, FS_EmptySet DEF BuildInv
<1>3. StoreInv
    BY EmptyMirrors DEF Init, StoreInv, SomeoneElses
<1>4. QED  BY <1>1, <1>2, <1>3 DEF CorpusInv

LEMMA CorpusStep == ASSUME CorpusInv, [Next]_vars PROVE CorpusInv'
<1>1. FitInv'
    BY FitStep DEF CorpusInv
<1>2. BuildInv'
    <2>1. CASE Build
        BY <2>1, BuildStepInv DEF CorpusInv, Build
    <2>2. CASE ~Build
        <3>1. UNCHANGED <<cache, fetching, nvdFile, kevFile>>
            BY <2>2, CorpusStays
        <3>2. QED  BY <3>1 DEF CorpusInv, BuildInv
    <2>3. QED  BY <2>1, <2>2
<1>3. QED  BY <1>1, <1>2, StoreStep DEF CorpusInv

\* Types; and no batch outgrows --batch-size.
THEOREM SeederTyped == ASSUME Markers PROVE Spec => []TypeOK
<1>1. Init => CorpusInv
    BY CorpusInit
<1>2. CorpusInv /\ [Next]_vars => CorpusInv'
    BY CorpusStep
<1>3. CorpusInv => TypeOK
    BY DEF CorpusInv, BuildInv, StoreInv, OnItsWay, Mirrors, TypeOK
<1>4. QED  BY <1>1, <1>2, <1>3, PTL DEF Spec

\* Seeded from the filtered file, no CVE is ever stored twice, however windows
\* overlap, the build is cut short and runs crash and repeat; whatever was
\* seeded into collections of the unfiltered file.
THEOREM NoDuplicateEver == ASSUME Markers PROVE Spec => []NoCveTwice
<1>1. Init => CorpusInv
    BY CorpusInit
<1>2. CorpusInv /\ [Next]_vars => CorpusInv'
    BY CorpusStep
<1>3. CorpusInv => NoCveTwice
    <2>1. ASSUME CorpusInv PROVE NoCveTwice
        <3>1. ASSUME jsonl = "kev", NEW m \in StoredIds, NEW n \in StoredIds,
                     collection.points[m].cve = collection.points[n].cve
              PROVE  m = n
            <4>1. collection # NoCollection /\ m \in DOMAIN collection.points
                  /\ n \in DOMAIN collection.points
                BY <3>1 DEF StoredIds
            <4>2. /\ collection.points[m] = Records[m] /\ collection.points[n] = Records[n]
                  /\ m \in 1 .. Len(Records) /\ n \in 1 .. Len(Records)
                BY <2>1, <4>1 DEF CorpusInv, StoreInv, Mirrors
            <4>3. QED  BY <2>1, <3>1, <4>2, RecordsSeq DEF CorpusInv
        <3>2. QED  BY <3>1 DEF NoCveTwice
    <2>2. QED  BY <2>1
<1>4. QED  BY <1>1, <1>2, <1>3, PTL DEF Spec

-----------------------------------------------------------------------------
(* The refinement *)

Points == IF collection = NoCollection THEN NoPoints ELSE collection.points

LEMMA MirrorStep ==
    ASSUME CorpusInv, CorpusInv', [Next]_vars
    PROVE  \/ Points = NoPoints /\ Points' = NoPoints
           \/ Records' = Records /\ Points' \in {Points, NoPoints}
           \/ /\ Records' = Records /\ DOMAIN Points \subseteq DOMAIN Points'
              /\ Mirrors(Points', Records)
<1> USE DEF CorpusInv
<1>1. CASE Build
    BY <1>1 DEF Build, seedVars, StoreInv, Points, SomeoneElses, NoPoints
<1>2. ASSUME ~Build PROVE Records' = Records
    BY <1>2, CorpusStays
<1>3. ASSUME UNCHANGED collection PROVE Points' = Points
    BY <1>3 DEF Points
<1>4. ASSUME collection' = NoCollection PROVE Points' = NoPoints
    BY <1>4 DEF Points
<1>5. ASSUME collection' = [size |-> seed.size, points |-> NoPoints] PROVE Points' = NoPoints
    BY <1>5 DEF Points
<1>6. ASSUME Seeding("flushing"), collection' = [collection EXCEPT !.points = Stored(@)]
      PROVE  DOMAIN Points \subseteq DOMAIN Points' /\ Mirrors(Points', Records)
    <2>1. collection # NoCollection /\ seed # NoSeed
        BY <1>6 DEF FitInv, EmbedsWhatFits, AtWork, Seeding
    <2>2. /\ collection' = [size |-> collection.size, points |-> Stored(collection.points)]
          /\ collection' # NoCollection
        BY <1>6, <2>1 DEF FitInv, Shapes, Markers
    <2>3. /\ Mirrors(Stored(collection.points), Records)
          /\ DOMAIN collection.points \subseteq DOMAIN Stored(collection.points)
        BY <2>1, StoredMirrors DEF StoreInv, OnItsWay
    <2>4. QED  BY <2>1, <2>2, <2>3 DEF Points
<1>7. CASE StartSeed \/ Probe \/ Check \/ EmbedRecord \/ SkipRecord \/ LastFlush \/ SeedDone
           \/ FlushRefused \/ UNCHANGED vars
    <2>1. UNCHANGED collection /\ UNCHANGED <<nvdFile, kevFile, jsonl>>
        BY <1>7 DEF StartSeed, Probe, Check, EmbedRecord, SkipRecord, LastFlush, SeedDone,
                    FlushRefused, vars, buildVars, seedVars
    <2>2. QED  BY <1>3, <2>1 DEF Records, SeedFile
<1>8. CASE Drop
    BY <1>2, <1>1, <1>4, <1>8 DEF Drop
<1>9. CASE Create
    BY <1>2, <1>1, <1>5, <1>9 DEF Create
<1>10. CASE Flush
    BY <1>2, <1>1, <1>6, <1>10 DEF Flush
<1>11. CASE SeedBreaks
    BY <1>2, <1>1, <1>3, <1>4, <1>5, <1>6, <1>11 DEF SeedBreaks
<1>12. QED
    BY <1>1, <1>7, <1>8, <1>9, <1>10, <1>11 DEF Next, SeedStep

LEMMA MirrorNext ==
    ASSUME CorpusInv, CorpusInv', [Next]_vars
    PROVE  [Mirror!Next]_<<Records, Points>>
<1>1. ASSUME Records' = Records, DOMAIN Points \subseteq DOMAIN Points', Mirrors(Points', Records)
      PROVE  Mirror!Store
    <2>1. DOMAIN Records = 1 .. Len(Records)
        BY RecordsSeq DEF CorpusInv
    <2>2. QED  BY <1>1, <2>1 DEF Mirror!Store, Mirrors, Points
<1>2. ASSUME Points = NoPoints, Points' = NoPoints PROVE Mirror!Replace
    BY <1>2 DEF Mirror!Replace, Mirror!NoPoints, Points, NoPoints
<1>3. ASSUME Records' = Records, Points' = NoPoints PROVE Mirror!Wipe
    BY <1>3 DEF Mirror!Wipe, Mirror!NoPoints, Points, NoPoints
<1>4. QED  BY <1>1, <1>2, <1>3, MirrorStep DEF Mirror!Next

\* Whatever NVD, the operator, crashes and lost replies do, the collection
\* mirrors the corpus file: the code implements CorpusMirror.
THEOREM SeedingMirrors == ASSUME Markers PROVE Spec => ImplementsMirror
<1>1. Init => CorpusInv
    BY CorpusInit
<1>2. CorpusInv /\ [Next]_vars => CorpusInv'
    BY CorpusStep
<1>3. Init => Mirror!Init
    BY DEF Init, BuildInit, SomeoneElses, Records, SeedFile, Mirror!Init, Mirror!NoPoints, NoPoints
<1>4. CorpusInv /\ CorpusInv' /\ [Next]_vars =>
          [Mirror!Next]_<<Records, IF collection = NoCollection THEN NoPoints ELSE collection.points>>
    BY MirrorNext DEF Points
<1>5. QED  BY <1>1, <1>2, <1>3, <1>4, PTL DEF Spec, ImplementsMirror, Mirror!Spec

-----------------------------------------------------------------------------
(* Windows and pages *)

LEMMA Division ==
    ASSUME NEW a \in Nat, NEW b \in Nat \ {0}
    PROVE  /\ a \div b \in Nat
           /\ \A i \in Nat : i * b <= a => i <= a \div b
<1>1. a \div b \in Int /\ a % b \in 0 .. b - 1 /\ a = b * (a \div b) + (a % b)
    OBVIOUS
<1>2. ASSUME NEW q \in Int, NEW r \in 0 .. b - 1, a = b * q + r, NEW i \in Nat, i * b <= a
      PROVE  i <= q
    <2>1. SUFFICES ASSUME i >= q + 1 PROVE FALSE
        BY <1>2
    <2>2. i * b >= (q + 1) * b
        BY <1>2, <2>1
    <2>3. (q + 1) * b = b * q + b
        BY <1>2
    <2>4. QED  BY <1>2, <2>2, <2>3
<1>3. a \div b >= 0
    <2>1. 0 * b <= a /\ 0 \in Nat
        OBVIOUS
    <2>2. QED  BY <1>1, <1>2, <2>1
<1>4. QED  BY <1>1, <1>2, <1>3

\* A moment of the date range lies in some window.
LEMMA WindowsCover ==
    ASSUME NEW m \in 0 .. Until
    PROVE  \E w \in DOMAIN Windows : m \in Windows[w][1] .. Windows[w][2]
<1> DEFINE count == (Until + Width - 1) \div Width
           S == {i \in Nat : i >= 1 /\ m <= i * Width}
<1>0. Until \in Nat \ {0} /\ Width \in Nat \ {0} /\ Until + Width - 1 \in Nat /\ m \in Nat /\ m <= Until
    BY BuildAssumption
<1>1. count \in Nat /\ \A i \in Nat : i * Width <= Until + Width - 1 => i <= count
    BY <1>0, Division
<1>2. S \subseteq Nat /\ S # {}
    <2>1. m + 1 \in Nat /\ m + 1 >= 1
        BY <1>0
    <2>2. (m + 1) * Width >= (m + 1) * 1
        BY <1>0, <2>1
    <2>3. m + 1 \in S
        BY <1>0, <2>1, <2>2
    <2>4. QED  BY <2>3
<1>3. PICK least \in S : \A k \in S : least <= k
    <2> HIDE DEF S
    <2>1. QED  BY <1>2, LeastNatural
<1>4. least \in Nat /\ least >= 1 /\ m <= least * Width
    BY <1>3
<1>5. (least - 1) * Width <= m
    <2>1. CASE least = 1
        BY <1>0, <2>1
    <2>2. CASE least # 1
        <3>1. least - 1 \in Nat /\ least - 1 >= 1 /\ ~(least <= least - 1)
            BY <1>4, <2>2
        <3>2. least - 1 \notin S
            BY <1>3, <3>1
        <3>3. ~(m <= (least - 1) * Width)
            BY <3>1, <3>2
        <3>4. (least - 1) * Width \in Nat
            BY <1>0, <3>1
        <3>5. QED  BY <1>0, <3>3, <3>4
    <2>3. QED  BY <2>1, <2>2
<1>6. least <= count
    <2>1. (least - 1) * Width = least * Width - Width
        BY <1>0, <1>4
    <2>2. least * Width \in Nat
        BY <1>0, <1>4
    <2>3. CASE least = 1
        <3>1. least * Width = Width
            BY <1>0, <2>3
        <3>2. least * Width <= Until + Width - 1
            BY <1>0, <3>1
        <3>3. QED  BY <1>1, <1>4, <3>2
    <2>4. CASE least # 1
        <3>1. least - 1 \in Nat /\ least - 1 >= 1 /\ ~(least <= least - 1)
            BY <1>4, <2>4
        <3>2. least - 1 \notin S
            BY <1>3, <3>1
        <3>3. ~(m <= (least - 1) * Width)
            BY <3>1, <3>2
        <3>4. least * Width <= Until + Width - 1
            BY <1>0, <2>1, <2>2, <3>3
        <3>5. QED  BY <1>1, <1>4, <3>4
    <2>5. QED  BY <2>3, <2>4
<1> HIDE DEF count, S
<1>7. least \in DOMAIN Windows /\ Windows[least] = <<(least - 1) * Width, Lesser(least * Width, Until)>>
    BY <1>1, <1>4, <1>6 DEF Windows, count
<1>8. (least - 1) * Width \in Nat /\ least * Width \in Nat
    BY <1>0, <1>4
<1>9. m \in (least - 1) * Width .. Lesser(least * Width, Until)
    BY <1>0, <1>4, <1>5, <1>8 DEF Lesser
<1>10. QED  BY <1>7, <1>9

Cves == ToSet(NvdOrder)
NvdType == nvd \in [Cves -> [modified : 0 .. Until + 1, version : Nat]]

\* The entries a fetch asks for.
InRange == {c \in Cves : nvd[c].modified <= Until}

\* An entry NVD served, as opposed to a line cut short.
Stamped(entry) == entry = [cve |-> entry.cve, version |-> entry.version]

\* What NVD lists for a window is a sequence that has every entry of it.
LEMMA ResultsList ==
    ASSUME NEW w
    PROVE  /\ Len(Results(w)) \in Nat /\ Results(w) \in Seq({Results(w)[j] : j \in DOMAIN Results(w)})
           /\ \A j \in DOMAIN Results(w) : Stamped(Results(w)[j])
           /\ \A c \in Cves : nvd[c].modified \in w[1] .. w[2] =>
                 \E j \in DOMAIN Results(w) : Results(w)[j].cve = c
<1> DEFINE places == {i \in DOMAIN NvdOrder : nvd[NvdOrder[i]].modified \in w[1] .. w[2]}
           list == Results(w)
<1>1. NvdOrder \in Seq(Cves) /\ DOMAIN NvdOrder = 1 .. Len(NvdOrder) /\ Len(NvdOrder) \in Nat
    BY BuildAssumption DEF Cves
<1>2. places \subseteq 1 .. Len(NvdOrder)
    BY <1>1
<1>3. IsFiniteSet(places) /\ places \subseteq Nat
    <2> HIDE DEF places
    <2>1. IsFiniteSet(1 .. Len(NvdOrder)) /\ 1 .. Len(NvdOrder) \subseteq Nat
        BY <1>1, FS_Interval
    <2>2. IsFiniteSet(places)
        BY <1>2, <2>1, FS_Subset
    <2>3. QED  BY <1>2, <2>1, <2>2
<1>4. PICK rows \in Seq(places) : Selects(rows, NvdOrder, places, Selected(NvdOrder, places))
    <2> HIDE DEF places
    <2>1. QED  BY <1>3, SelectedRows
<1>5. list = [n \in 1 .. Len(rows) |-> Stamp(NvdOrder[rows[n]])]
    <2> DEFINE listed == Selected(NvdOrder, places)
    <2>1. list = [i \in DOMAIN listed |-> Stamp(listed[i])]
        BY DEF Results
    <2>2. listed = [n \in 1 .. Len(rows) |-> NvdOrder[rows[n]]]
        BY <1>4 DEF Selects
    <2> HIDE DEF listed, list
    <2>3. QED  BY <2>1, <2>2
<1> HIDE DEF list
<1>6. Len(rows) \in Nat /\ DOMAIN list = 1 .. Len(rows)
    BY <1>5
<1>7. list \in Seq({list[j] : j \in DOMAIN list}) /\ Len(list) \in Nat
    <2>1. list \in [1 .. Len(rows) -> {list[j] : j \in DOMAIN list}]
        BY <1>5
    <2>2. QED  BY <1>6, <2>1
<1>8. \A j \in DOMAIN list : Stamped(list[j])
    BY <1>5 DEF Stamp, Stamped
<1>9. ASSUME NEW c \in Cves, nvd[c].modified \in w[1] .. w[2]
      PROVE  \E j \in DOMAIN list : list[j].cve = c
    <2>1. PICK i \in DOMAIN NvdOrder : NvdOrder[i] = c
        BY DEF Cves, ToSet
    <2>2. i \in places
        BY <1>9, <2>1
    <2>3. PICK n \in 1 .. Len(rows) : rows[n] = i
        BY <1>4, <2>2 DEF Selects
    <2>4. list[n].cve = c
        BY <1>5, <2>1, <2>3 DEF Stamp
    <2>5. QED  BY <1>6, <2>4
<1>10. QED  BY <1>7, <1>8, <1>9 DEF list

LEMMA LesserType ==
    ASSUME NEW a \in Nat, NEW b \in Nat
    PROVE  Lesser(a, b) \in Nat /\ Lesser(a, b) <= a /\ Lesser(a, b) <= b /\ (Lesser(a, b) = a \/ Lesser(a, b) = b)
BY DEF Lesser

LEMMA SubSeqUpTo ==
    ASSUME NEW S, NEW list \in Seq(S), NEW start \in Nat, NEW last \in Nat, last <= Len(list)
    PROVE  /\ start < last =>
                 /\ DOMAIN SubSeq(list, start + 1, last) = 1 .. last - start
                 /\ \A i \in 1 .. last - start : SubSeq(list, start + 1, last)[i] = list[start + i]
           /\ start >= last => SubSeq(list, start + 1, last) = <<>>
<1>1. CASE start < last
    <2>1. /\ DOMAIN SubSeq(list, start + 1, last) = 1 .. last - start
          /\ \A i \in 1 .. last - start : SubSeq(list, start + 1, last)[i] = list[start + i]
        BY <1>1
    <2>2. QED  BY <1>1, <2>1
<1>2. CASE start >= last
    <2>1. SubSeq(list, start + 1, last) = <<>>
        BY <1>2
    <2>2. QED  BY <1>2, <2>1
<1>3. QED  BY <1>1, <1>2

\* page is what stands in list after start, up to last.
Slices(page, list, start, last) ==
    IF start < last
    THEN /\ DOMAIN page = 1 .. last - start
         /\ \A i \in 1 .. last - start : page[i] = list[start + i]
    ELSE page = <<>>

LEMMA SubSeqSlices ==
    ASSUME NEW S, NEW list \in Seq(S), NEW start \in Nat, NEW last \in Nat, last <= Len(list)
    PROVE  Slices(SubSeq(list, start + 1, last), list, start, last)
BY SubSeqUpTo DEF Slices

LEMMA SliceHolds ==
    ASSUME NEW start \in Nat, NEW size \in Nat \ {0}, NEW len \in Nat, NEW last \in Nat,
           last <= len, last <= start + size, last = len \/ last = start + size,
           NEW list, DOMAIN list = 1 .. len,
           NEW page, Slices(page, list, start, last)
    PROVE  /\ \A j \in DOMAIN list :
                 j > start /\ j <= start + size =>
                     \E i \in 1 .. size : i \in DOMAIN page /\ page[i] = list[j]
           /\ \A i \in DOMAIN page : \E j \in DOMAIN list : page[i] = list[j]
           /\ page = <<>> => \A j \in DOMAIN list : j <= start
<1>1. CASE start < last
    <2>1. /\ DOMAIN page = 1 .. last - start
          /\ \A i \in 1 .. last - start : page[i] = list[start + i]
        BY <1>1 DEF Slices
    <2>2. \A j \in DOMAIN list : j > start /\ j <= start + size =>
              \E i \in 1 .. size : i \in DOMAIN page /\ page[i] = list[j]
        <3>1. ASSUME NEW j \in 1 .. len, j > start, j <= start + size
              PROVE  \E i \in 1 .. size : i \in DOMAIN page /\ page[i] = list[j]
            <4>1. j - start \in 1 .. size /\ j - start \in 1 .. last - start /\ start + (j - start) = j
                BY <3>1
            <4>2. QED  BY <2>1, <4>1
        <3>2. QED  BY <3>1
    <2>3. \A i \in 1 .. last - start : start + i \in DOMAIN list
        BY <1>1
    <2>4. 1 \in DOMAIN page
        BY <1>1, <2>1
    <2>5. QED  BY <2>1, <2>2, <2>3, <2>4
<1>2. CASE start >= last
    <2>1. page = <<>>
        BY <1>2 DEF Slices
    <2>2. \A j \in DOMAIN list : j <= start
        BY <1>2
    <2>3. QED  BY <2>1, <2>2
<1>3. QED  BY <1>1, <1>2

\* The page holds what the window lists from there on, up to PageSize entries.
LEMMA PageHolds ==
    ASSUME fetching.start \in Nat
    PROVE  /\ \A j \in DOMAIN Listed :
                 j > fetching.start /\ j <= fetching.start + PageSize =>
                     \E i \in 1 .. PageSize : i \in DOMAIN Page /\ Page[i] = Listed[j]
           /\ \A i \in DOMAIN Page : \E j \in DOMAIN Listed : Page[i] = Listed[j]
           /\ Page = <<>> => \A j \in DOMAIN Listed : j <= fetching.start
<1> DEFINE list == Listed
           start == fetching.start
           S == {list[j] : j \in DOMAIN list}
           last == Lesser(start + PageSize, Len(list))
<1>1. list \in Seq(S) /\ Len(list) \in Nat
    BY ResultsList DEF Listed
<1>2. Page = SubSeq(list, start + 1, last)
    BY DEF Page
<1> HIDE DEF list, start, S, last
<1>3. PageSize \in Nat \ {0} /\ start \in Nat /\ start + PageSize \in Nat
    BY BuildAssumption DEF start
<1>4. DOMAIN list = 1 .. Len(list)
    BY <1>1
<1>5. /\ last \in Nat /\ last <= Len(list) /\ last <= start + PageSize
      /\ (last = Len(list) \/ last = start + PageSize)
    BY <1>1, <1>3, LesserType DEF last
<1>6. Slices(SubSeq(list, start + 1, last), list, start, last)
    BY <1>1, <1>3, <1>5, SubSeqSlices
<1> DEFINE page == Page
<1>7. Slices(page, list, start, last)
    BY <1>2, <1>6
<1> HIDE DEF page
<1>8. /\ \A j \in DOMAIN list :
            j > start /\ j <= start + PageSize =>
                \E i \in 1 .. PageSize : i \in DOMAIN page /\ page[i] = list[j]
      /\ \A i \in DOMAIN page : \E j \in DOMAIN list : page[i] = list[j]
      /\ page = <<>> => \A j \in DOMAIN list : j <= start
    BY <1>1, <1>3, <1>4, <1>5, <1>7, SliceHolds
<1>9. QED  BY <1>8 DEF page, list, start

-----------------------------------------------------------------------------
(* A fetch comes past every entry *)

\* What NVD lists for each window.
Listings == [w \in DOMAIN Windows |-> Results(Windows[w])]

\* A page holds the entry at one of its PageSize places.
Holds(page, entry) == \E i \in 1 .. PageSize : i \in DOMAIN page /\ page[i] = entry

\* What a fetch has come past is on pages it will not write again.
CachedUpTo(pages, listings, window, start) ==
    \A w \in 1 .. window : \A j \in DOMAIN listings[w] :
        w < window \/ j <= start =>
            \E k \in DOMAIN pages :
                NamedBefore(k, <<window, start>>) /\ Holds(pages[k], listings[w][j])

\* The same when the page from start on is written too.
CachedThrough(pages, listings, window, start) ==
    \A w \in 1 .. window : \A j \in DOMAIN listings[w] :
        w < window \/ j <= start + PageSize =>
            \E k \in DOMAIN pages :
                /\ NamedBefore(k, <<window, start>>) \/ k = <<window, start>>
                /\ Holds(pages[k], listings[w][j])

OnAPage(pages, c) ==
    \E k \in DOMAIN pages : \E i \in 1 .. PageSize :
        i \in DOMAIN pages[k] /\ pages[k][i].cve = c /\ Stamped(pages[k][i])

\* What a page holds of a list, from start on.
PageOf(page, list, start) ==
    /\ \A j \in DOMAIN list : j > start /\ j <= start + PageSize => Holds(page, list[j])
    /\ page = <<>> => \A j \in DOMAIN list : j <= start

Indexed(list) == DOMAIN list \subseteq Nat \ {0}

LEMMA PageWritten ==
    ASSUME NEW pages, NEW listings, NEW window \in Nat \ {0}, NEW start \in Nat,
           Indexed(listings[window]), CachedUpTo(pages, listings, window, start),
           NEW page, PageOf(page, listings[window], start),
           NEW more, more = IF page = <<>> THEN pages ELSE Update(pages, <<window, start>>, page)
    PROVE  CachedThrough(more, listings, window, start)
<1>0. PageSize \in Nat \ {0}
    BY BuildAssumption
<1>1. ASSUME NEW k \in DOMAIN pages, NamedBefore(k, <<window, start>>)
      PROVE  k \in DOMAIN more /\ more[k] = pages[k]
    <2>1. k # <<window, start>>
        BY <1>1 DEF NamedBefore
    <2>2. QED  BY <1>1, <2>1 DEF Update
<1>2. ASSUME page # <<>> PROVE <<window, start>> \in DOMAIN more /\ more[<<window, start>>] = page
    BY <1>2 DEF Update
<1>3. ASSUME NEW w \in 1 .. window, NEW j \in DOMAIN listings[w], w < window \/ j <= start + PageSize
      PROVE  \E k \in DOMAIN more :
                 /\ NamedBefore(k, <<window, start>>) \/ k = <<window, start>>
                 /\ Holds(more[k], listings[w][j])
    <2>1. CASE w < window \/ j <= start
        <3>1. PICK k \in DOMAIN pages :
                  NamedBefore(k, <<window, start>>) /\ Holds(pages[k], listings[w][j])
            BY <2>1 DEF CachedUpTo
        <3>2. QED  BY <1>1, <3>1
    <2>2. CASE ~(w < window \/ j <= start)
        <3>1. w = window /\ j \in Nat /\ j > start
            BY <2>2 DEF Indexed
        <3>2. j <= start + PageSize
            BY <1>3, <3>1
        <3>3. Holds(page, listings[w][j])
            BY <3>1, <3>2 DEF PageOf
        <3>4. page # <<>>
            BY <3>1 DEF PageOf
        <3>5. QED  BY <1>2, <3>3, <3>4
    <2>3. QED  BY <2>1, <2>2
<1>4. QED  BY <1>3 DEF CachedThrough

LEMMA NextPageUpTo ==
    ASSUME NEW pages, DOMAIN pages \subseteq Nat \X Nat, NEW listings,
           NEW window \in Nat \ {0}, NEW start \in Nat,
           CachedThrough(pages, listings, window, start)
    PROVE  CachedUpTo(pages, listings, window, start + PageSize)
<1>0. PageSize \in Nat \ {0}
    BY BuildAssumption
<1>1. ASSUME NEW k \in DOMAIN pages, NamedBefore(k, <<window, start>>) \/ k = <<window, start>>
      PROVE  NamedBefore(k, <<window, start + PageSize>>)
    <2>1. PICK a \in Nat, b \in Nat : k = <<a, b>>
        OBVIOUS
    <2>2. a < window \/ (a = window /\ b < start) \/ (a = window /\ b = start)
        BY <1>1, <2>1 DEF NamedBefore
    <2>3. a < window \/ (a = window /\ b < start + PageSize)
        BY <1>0, <2>2
    <2>4. QED  BY <2>1, <2>3 DEF NamedBefore
<1>2. QED  BY <1>1 DEF CachedThrough, CachedUpTo

LEMMA NextWindowUpTo ==
    ASSUME NEW pages, DOMAIN pages \subseteq Nat \X Nat, NEW listings,
           NEW window \in Nat \ {0}, NEW start \in Nat,
           CachedThrough(pages, listings, window, start),
           \A j \in DOMAIN listings[window] : j <= start + PageSize,
           Indexed(listings[window + 1])
    PROVE  CachedUpTo(pages, listings, window + 1, 0)
<1>1. ASSUME NEW k \in DOMAIN pages, NamedBefore(k, <<window, start>>) \/ k = <<window, start>>
      PROVE  NamedBefore(k, <<window + 1, 0>>)
    <2>1. PICK a \in Nat, b \in Nat : k = <<a, b>>
        OBVIOUS
    <2>2. a < window \/ a = window
        BY <1>1, <2>1 DEF NamedBefore
    <2>3. a < window + 1
        BY <2>2
    <2>4. QED  BY <2>1, <2>3 DEF NamedBefore
<1>2. ASSUME NEW w \in 1 .. window + 1, NEW j \in DOMAIN listings[w], w < window + 1 \/ j <= 0
      PROVE  \E k \in DOMAIN pages :
                 NamedBefore(k, <<window + 1, 0>>) /\ Holds(pages[k], listings[w][j])
    <2>1. w # window + 1
        BY <1>2 DEF Indexed
    <2>2. w \in 1 .. window
        BY <2>1
    <2>3. w < window \/ j <= start + PageSize
        BY <2>2
    <2>4. PICK k \in DOMAIN pages :
              /\ NamedBefore(k, <<window, start>>) \/ k = <<window, start>>
              /\ Holds(pages[k], listings[w][j])
        BY <2>2, <2>3 DEF CachedThrough
    <2>5. QED  BY <1>1, <2>4
<1>3. QED  BY <1>2 DEF CachedUpTo

\* Every entry of the range is listed for some window.
LEMMA ListingsCover ==
    ASSUME NvdType
    PROVE  /\ \A w \in DOMAIN Windows : Indexed(Listings[w]) /\ \A j \in DOMAIN Listings[w] : Stamped(Listings[w][j])
           /\ \A c \in InRange : \E w \in DOMAIN Windows :
                 \E j \in DOMAIN Listings[w] : Listings[w][j].cve = c
<1>1. ASSUME NEW w \in DOMAIN Windows
      PROVE  /\ Indexed(Listings[w])
             /\ \A j \in DOMAIN Listings[w] : Stamped(Listings[w][j])
             /\ \A c \in Cves : nvd[c].modified \in Windows[w][1] .. Windows[w][2] =>
                   \E j \in DOMAIN Listings[w] : Listings[w][j].cve = c
    <2> DEFINE list == Results(Windows[w])
    <2>1. /\ Len(list) \in Nat /\ list \in Seq({list[j] : j \in DOMAIN list})
          /\ \A j \in DOMAIN list : Stamped(list[j])
          /\ \A c \in Cves : nvd[c].modified \in Windows[w][1] .. Windows[w][2] =>
                \E j \in DOMAIN list : list[j].cve = c
        BY ResultsList
    <2>2. Listings[w] = list
        BY DEF Listings
    <2> HIDE DEF list
    <2>3. DOMAIN list = 1 .. Len(list)
        BY <2>1
    <2>4. Indexed(list)
        BY <2>1, <2>3 DEF Indexed
    <2>5. QED  BY <2>1, <2>2, <2>4
<1>2. ASSUME NEW c \in InRange
      PROVE  \E w \in DOMAIN Windows : \E j \in DOMAIN Listings[w] : Listings[w][j].cve = c
    <2>1. c \in Cves /\ nvd[c].modified \in 0 .. Until
        BY BuildAssumption DEF NvdType, InRange
    <2>2. PICK w \in DOMAIN Windows : nvd[c].modified \in Windows[w][1] .. Windows[w][2]
        BY <2>1, WindowsCover
    <2>3. QED  BY <1>1, <2>1, <2>2
<1>3. QED  BY <1>1, <1>2

\* Come past the last window, every entry of the range is on a page.
LEMMA AllCached ==
    ASSUME NvdType, NEW pages, NEW start, Len(Windows) \in Nat, DOMAIN Windows = 1 .. Len(Windows),
           CachedThrough(pages, Listings, Len(Windows), start),
           \A j \in DOMAIN Listings[Len(Windows)] : j <= start + PageSize
    PROVE  \A c \in InRange : OnAPage(pages, c)
<1>1. SUFFICES ASSUME NEW c \in InRange PROVE OnAPage(pages, c)
    OBVIOUS
<1>2. PICK w \in DOMAIN Windows : \E j \in DOMAIN Listings[w] : Listings[w][j].cve = c
    BY ListingsCover
<1>3. PICK j \in DOMAIN Listings[w] : Listings[w][j].cve = c /\ Stamped(Listings[w][j])
    BY <1>2, ListingsCover
<1>4. w \in 1 .. Len(Windows) /\ (w < Len(Windows) \/ j <= start + PageSize)
    OBVIOUS
<1>5. PICK k \in DOMAIN pages : Holds(pages[k], Listings[w][j])
    BY <1>4 DEF CachedThrough
<1>6. QED  BY <1>3, <1>5 DEF Holds, OnAPage

-----------------------------------------------------------------------------
(* No command loses an entry *)

\* Pages by window and startIndex, entries by their place: one order of all.
LEMMA EntriesOrdered ==
    ASSUME DOMAIN cache \subseteq Nat \X Nat
    PROVE  \E R : /\ Orders(R, Entries)
                  /\ \A x \in Entries :
                        Rank(Entries, R, x) = Cardinality({y \in Entries : EntryBefore(y, x)})
<1>1. PICK R : R = {pair \in Entries \X Entries : EntryBefore(pair[1], pair[2])}
    OBVIOUS
<1>2. \A x, y \in Entries : <<x, y>> \in R <=> EntryBefore(x, y)
    BY <1>1
<1>3. ASSUME NEW x \in Entries PROVE \E a, b, c \in Nat : x = <<<<a, b>>, c>>
    <2>1. Entries \subseteq ReadPages \X (1 .. PageSize) /\ ReadPages \subseteq DOMAIN cache
        BY DEF Entries, ReadPages
    <2>2. PICK k \in Nat \X Nat, c \in 1 .. PageSize : x = <<k, c>>
        BY <2>1
    <2>3. PICK a \in Nat, b \in Nat : k = <<a, b>>
        BY <2>2
    <2>4. c \in Nat
        BY <2>2
    <2>5. QED  BY <2>2, <2>3, <2>4
<1>4. ASSUME NEW a \in Nat, NEW b \in Nat, NEW c \in Nat, NEW u \in Nat, NEW v \in Nat, NEW w \in Nat
      PROVE  EntryBefore(<<<<a, b>>, c>>, <<<<u, v>>, w>>) <=>
                 \/ a < u
                 \/ a = u /\ b < v
                 \/ a = u /\ b = v /\ c < w
    BY DEF EntryBefore, NamedBefore
<1>5. \A x \in Entries : ~EntryBefore(x, x)
    BY <1>3, <1>4
<1>6. \A x, y \in Entries : x = y \/ EntryBefore(x, y) \/ EntryBefore(y, x)
    <2>1. SUFFICES ASSUME NEW x \in Entries, NEW y \in Entries
                   PROVE  x = y \/ EntryBefore(x, y) \/ EntryBefore(y, x)
        OBVIOUS
    <2>2. PICK a \in Nat, b \in Nat, c \in Nat : x = <<<<a, b>>, c>>
        BY <1>3
    <2>3. PICK u \in Nat, v \in Nat, w \in Nat : y = <<<<u, v>>, w>>
        BY <1>3
    <2>4. \/ a = u /\ b = v /\ c = w
          \/ a < u \/ (a = u /\ b < v) \/ (a = u /\ b = v /\ c < w)
          \/ u < a \/ (u = a /\ v < b) \/ (u = a /\ v = b /\ w < c)
        OBVIOUS
    <2>5. QED  BY <1>4, <2>2, <2>3, <2>4
<1>7. \A x, y, z \in Entries : EntryBefore(x, y) /\ EntryBefore(y, z) => EntryBefore(x, z)
    <2>1. SUFFICES ASSUME NEW x \in Entries, NEW y \in Entries, NEW z \in Entries,
                          EntryBefore(x, y), EntryBefore(y, z)
                   PROVE  EntryBefore(x, z)
        OBVIOUS
    <2>2. PICK a \in Nat, b \in Nat, c \in Nat : x = <<<<a, b>>, c>>
        BY <1>3
    <2>3. PICK u \in Nat, v \in Nat, w \in Nat : y = <<<<u, v>>, w>>
        BY <1>3
    <2>4. PICK p \in Nat, q \in Nat, r \in Nat : z = <<<<p, q>>, r>>
        BY <1>3
    <2>5. a < u \/ (a = u /\ b < v) \/ (a = u /\ b = v /\ c < w)
        BY <1>4, <2>1, <2>2, <2>3
    <2>6. u < p \/ (u = p /\ v < q) \/ (u = p /\ v = q /\ w < r)
        BY <1>4, <2>1, <2>3, <2>4
    <2>7. a < p \/ (a = p /\ b < q) \/ (a = p /\ b = q /\ c < r)
        BY <2>5, <2>6
    <2>8. QED  BY <1>4, <2>2, <2>4, <2>7
<1>8. Orders(R, Entries)
    BY <1>2, <1>5, <1>6, <1>7 DEF Orders
<1>9. ASSUME NEW x \in Entries
      PROVE  Rank(Entries, R, x) = Cardinality({y \in Entries : EntryBefore(y, x)})
    <2>1. {y \in Entries : <<y, x>> \in R} = {y \in Entries : EntryBefore(y, x)}
        BY <1>2
    <2>2. QED  BY <2>1 DEF Rank
<1>10. QED  BY <1>8, <1>9

\* With no page torn, compact writes a line for every entry that has an id.
LEMMA CompactedByRank ==
    ASSUME IsFiniteSet(Entries), NEW R, Orders(R, Entries),
           \A x \in Entries :
               Rank(Entries, R, x) = Cardinality({y \in Entries : EntryBefore(y, x)})
    PROVE  \A e \in Entries : \E n \in DOMAIN Compacted : Compacted[n] = cache[e[1]][e[2]]
<1> DEFINE size == Cardinality(Entries)
           list == InOrder(Entries, EntryBefore)
<1> HIDE DEF size, list
<1>1. \A k \in 1 .. size : \E x \in Entries : Rank(Entries, R, x) = k - 1
    BY Ranks DEF size
<1>2. ASSUME NEW n \in 1 .. size PROVE list[n] \in Entries /\ Rank(Entries, R, list[n]) = n - 1
    <2>1. \E x \in Entries : Cardinality({y \in Entries : EntryBefore(y, x)}) = n - 1
        BY <1>1
    <2>2. list[n] = CHOOSE x \in Entries : Cardinality({y \in Entries : EntryBefore(y, x)}) = n - 1
        BY DEF list, size, InOrder
    <2>3. list[n] \in Entries /\ Cardinality({y \in Entries : EntryBefore(y, list[n])}) = n - 1
        BY <2>1, <2>2
    <2>4. QED  BY <2>3
<1>3. list \in [1 .. size -> Entries]
    BY <1>2 DEF list, size, InOrder
<1>4. \A x \in Entries : \E n \in 1 .. size : list[n] = x
    <2>1. Lists(list, Entries, R)
        BY <1>2, <1>3 DEF Lists, size
    <2>2. QED  BY <2>1, Listing DEF size
<1>5. Compacted = [n \in 1 .. size |-> cache[list[n][1]][list[n][2]]]
    BY DEF Compacted, list, size, InOrder
<1>6. QED  BY <1>4, <1>5

LEMMA CompactedHolds ==
    ASSUME IsFiniteSet(DOMAIN cache), DOMAIN cache \subseteq Nat \X Nat, PagesIntact,
           NEW k \in DOMAIN cache, NEW i \in 1 .. PageSize, i \in DOMAIN cache[k],
           cache[k][i].cve # NoId
    PROVE  \E n \in DOMAIN Compacted : Compacted[n] = cache[k][i]
<1>1. k \in ReadPages
    BY DEF PagesIntact, ReadPages
<1>2. <<k, i>> \in Entries
    BY <1>1 DEF Entries
<1>3. IsFiniteSet(Entries)
    BY EntriesFinite
<1>4. \A e \in Entries : \E n \in DOMAIN Compacted : Compacted[n] = cache[e[1]][e[2]]
    BY <1>3, EntriesOrdered, CompactedByRank
<1>5. QED  BY <1>2, <1>4

\* A record of the CVE is among the lines.
InFile(lines, c) == \E i \in DOMAIN lines : lines[i] # TornLine /\ lines[i].cve = c

\* The filter keeps a row of every CVE to keep.
LEMMA FilteredHolds ==
    ASSUME NEW lines, IsLines(lines), NEW keep, NEW c \in keep, InFile(lines, c)
    PROVE  InFile(Filtered(lines, keep), c)
<1> DEFINE places == FirstRows(lines, keep)
           rowsOf == {i \in DOMAIN lines : lines[i] # TornLine /\ lines[i].cve = c}
<1>1. PICK size \in Nat : lines = [i \in 1 .. size |-> lines[i]]
    BY DEF IsLines
<1>2. DOMAIN lines = 1 .. size
    BY <1>1
<1>3. rowsOf \subseteq Nat /\ rowsOf # {}
    BY <1>2 DEF InFile
<1>4. PICK first \in rowsOf : \A k \in rowsOf : first <= k
    <2> HIDE DEF rowsOf
    <2>1. QED  BY <1>3, LeastNatural
<1>5. first \in places
    <2>1. first \in 1 .. size /\ lines[first] # TornLine /\ lines[first].cve = c
        BY <1>2, <1>4
    <2>2. ASSUME NEW j \in 1 .. first - 1, lines[j] # TornLine PROVE lines[j].cve # c
        <3>1. j \in DOMAIN lines /\ ~(first <= j)
            BY <1>2, <2>1
        <3>2. j \notin rowsOf
            BY <1>4, <3>1
        <3>3. QED  BY <2>2, <3>1, <3>2
    <2>3. QED  BY <1>2, <2>1, <2>2 DEF FirstRows
<1>6. lines[first] # TornLine /\ lines[first].cve = c
    BY <1>4
<1>7. places \subseteq 1 .. size
    BY <1>2 DEF FirstRows
<1> HIDE DEF places, rowsOf
<1>8. IsFiniteSet(places) /\ places \subseteq Nat
    <2>1. IsFiniteSet(1 .. size) /\ 1 .. size \subseteq Nat
        BY FS_Interval
    <2>2. IsFiniteSet(places)
        BY <1>7, <2>1, FS_Subset
    <2>3. QED  BY <1>7, <2>1, <2>2
<1>9. PICK rows \in Seq(places) : Selects(rows, lines, places, Selected(lines, places))
    BY <1>8, SelectedRows
<1> DEFINE f == Filtered(lines, keep)
<1>10. f = Selected(lines, places)
    BY DEF Filtered, places
<1> HIDE DEF f
<1>11. f = [n \in 1 .. Len(rows) |-> lines[rows[n]]]
    BY <1>9, <1>10 DEF Selects
<1>12. PICK n \in 1 .. Len(rows) : rows[n] = first
    BY <1>5, <1>9 DEF Selects
<1>13. n \in DOMAIN f /\ f[n] = lines[first]
    BY <1>11, <1>12
<1>14. QED  BY <1>6, <1>13 DEF InFile, f

\* The seeding reads every record of the file.
LEMMA RecordsHold ==
    ASSUME NEW file, file = SeedFile, file # NoFile, IsLines(file), Len(Records) \in Nat,
           Records = [n \in 1 .. Len(Records) |-> Records[n]],
           NEW c, InFile(file, c)
    PROVE  \E n \in 1 .. Len(Records) : Records[n].cve = c
<1> DEFINE places == {i \in DOMAIN file : file[i] # TornLine}
           f == Records
<1>1. PICK size \in Nat : file = [i \in 1 .. size |-> file[i]]
    BY DEF IsLines
<1>2. DOMAIN file = 1 .. size
    BY <1>1
<1>3. places \subseteq 1 .. size
    BY <1>2
<1>4. PICK i \in places : file[i].cve = c
    BY DEF InFile
<1>5. f = Selected(file, places)
    BY DEF Records, RecordsOf
<1> HIDE DEF places, f
<1>6. IsFiniteSet(places) /\ places \subseteq Nat
    <2>1. IsFiniteSet(1 .. size) /\ 1 .. size \subseteq Nat
        BY FS_Interval
    <2>2. IsFiniteSet(places)
        BY <1>3, <2>1, FS_Subset
    <2>3. QED  BY <1>3, <2>1, <2>2
<1>7. PICK rows \in Seq(places) : Selects(rows, file, places, Selected(file, places))
    BY <1>6, SelectedRows
<1>8. f = [n \in 1 .. Len(rows) |-> file[rows[n]]]
    BY <1>5, <1>7 DEF Selects
<1>9. PICK n \in 1 .. Len(rows) : rows[n] = i
    BY <1>4, <1>7 DEF Selects
<1>10. n \in DOMAIN f /\ f[n].cve = c
    BY <1>4, <1>8, <1>9
<1>11. DOMAIN f = 1 .. Len(f)
    BY DEF f
<1>12. QED  BY <1>10, <1>11 DEF f

-----------------------------------------------------------------------------
(* From NVD to the collection *)

\* No file is no list of lines, a torn line none that compact wrote.
FileMarkers ==
    /\ ~IsLines(NoFile)
    /\ \A c, version : TornLine # [cve |-> c, version |-> version]

FetchTyped ==
    /\ NvdType /\ DOMAIN cache \subseteq Nat \X Nat
    /\ fetching # NoFetch =>
          fetching.window \in DOMAIN Windows /\ fetching.start \in Nat /\ stage = "none"

\* While NVD has stood still since a fetch began, the fetch has what it came
\* past.  (An edit raises a version: NVD never looks as it did before.)
Upstream ==
    fetching # NoFetch =>
        /\ \A c \in Cves : fetching.upstream[c].version \in 0 .. nvd[c].version
        /\ nvd = fetching.upstream =>
              CachedUpTo(cache, Listings, fetching.window, fetching.start)

\* What each stage has brought along.
StageInv ==
    /\ stage = "fetched" => \A c \in InRange : OnAPage(cache, c)
    /\ stage = "compacted" => nvdFile # NoFile /\ \A c \in InRange \ {NoId} : InFile(nvdFile, c)
    /\ stage = "filtered" =>
          kevFile # NoFile /\ \A c \in InRange \cap (KevIds \cup EvalIds) : InFile(kevFile, c)

LEMMA WindowsLength ==
    Len(Windows) \in Nat \ {0} /\ DOMAIN Windows = 1 .. Len(Windows)
<1> DEFINE count == (Until + Width - 1) \div Width
           W == {Windows[i] : i \in 1 .. count}
           windows == Windows
<1>1. Until + Width - 1 \in Nat /\ Width \in Nat \ {0}
    BY BuildAssumption
<1>2. count \in Nat
    BY <1>1, Division
<1>3. DOMAIN windows = 1 .. count /\ windows \in [1 .. count -> W]
    BY DEF Windows
<1> HIDE DEF count, W, windows
<1>4. windows \in Seq(W) /\ Len(windows) = count
    BY <1>2, <1>3
<1>5. 0 \in 0 .. Until
    BY BuildAssumption
<1>6. PICK w \in DOMAIN Windows : TRUE
    BY <1>5, WindowsCover
<1>7. count # 0
    BY <1>2, <1>3, <1>6 DEF windows
<1>8. QED  BY <1>2, <1>3, <1>4, <1>7 DEF windows

\* Nothing is left of the window behind the page.
AtWindowEnd == \A j \in DOMAIN Listed : j <= fetching.start + PageSize

\* A page leads to the next one, the next window or the end of the fetch.
LEMMA PageTurns ==
    ASSUME BuildInv, FetchTyped, FetchPage
    PROVE  \/ /\ fetching' = [window |-> fetching.window, start |-> fetching.start + PageSize,
                              attempt |-> 0, upstream |-> fetching.upstream]
              /\ stage' = stage
           \/ /\ AtWindowEnd /\ fetching.window < Len(Windows)
              /\ fetching' = [window |-> fetching.window + 1, start |-> 0,
                              attempt |-> 0, upstream |-> fetching.upstream]
              /\ stage' = stage
           \/ /\ AtWindowEnd /\ fetching.window = Len(Windows)
              /\ fetching' = NoFetch
              /\ stage' = IF nvd = fetching.upstream THEN "fetched" ELSE "none"
<1>1. /\ fetching # NoFetch /\ fetching.start \in Nat /\ fetching.window \in 1 .. Len(Windows)
      /\ Len(Windows) \in Nat /\ PageSize \in Nat \ {0}
    BY WindowsLength, BuildAssumption DEF FetchTyped, FetchPage
<1>2. fetching = [window |-> fetching.window, start |-> fetching.start,
                  attempt |-> fetching.attempt, upstream |-> fetching.upstream]
    BY <1>1 DEF BuildInv
<1>3. Page = <<>> \/ LastPage(Len(Listed)) => AtWindowEnd
    <2> DEFINE list == Listed
    <2>1. list \in Seq({list[j] : j \in DOMAIN list}) /\ Len(list) \in Nat
        BY ResultsList DEF Listed
    <2>2. Page = <<>> => \A j \in DOMAIN Listed : j <= fetching.start
        BY <1>1, PageHolds
    <2> HIDE DEF list
    <2>3. DOMAIN list = 1 .. Len(list)
        BY <2>1
    <2>4. ASSUME Page = <<>> PROVE AtWindowEnd
        <3>1. \A j \in DOMAIN list : j \in Nat /\ j <= fetching.start
            BY <2>2, <2>3, <2>4 DEF list
        <3>2. \A j \in DOMAIN list : j <= fetching.start + PageSize
            BY <1>1, <3>1
        <3>3. QED  BY <3>2 DEF AtWindowEnd, list
    <2>5. ASSUME fetching.start + PageSize >= Len(list) PROVE AtWindowEnd
        <3>1. \A j \in DOMAIN list : j <= fetching.start + PageSize
            BY <1>1, <2>1, <2>3, <2>5
        <3>2. QED  BY <3>1 DEF AtWindowEnd, list
    <2>6. QED  BY <2>4, <2>5 DEF LastPage, list
<1>4. CASE Page = <<>> \/ LastPage(Len(Listed))
    <2>1. AtWindowEnd /\ NextWindow
        BY <1>3, <1>4 DEF FetchPage
    <2>2. CASE fetching.window < Len(Windows)
        BY <1>2, <2>1, <2>2 DEF NextWindow
    <2>3. CASE ~(fetching.window < Len(Windows))
        <3>1. fetching.window = Len(Windows)
            BY <1>1, <2>3
        <3>2. QED  BY <2>1, <2>3, <3>1 DEF NextWindow
    <2>4. QED  BY <2>2, <2>3
<1>5. CASE ~(Page = <<>> \/ LastPage(Len(Listed)))
    BY <1>2, <1>5 DEF FetchPage
<1>6. QED  BY <1>4, <1>5

LEMMA KeysWritten ==
    ASSUME DOMAIN cache \subseteq Nat \X Nat, NEW window \in Nat, NEW start \in Nat, NEW page,
           cache' = Update(cache, <<window, start>>, page)
    PROVE  DOMAIN cache' \subseteq Nat \X Nat
BY DEF Update

LEMMA FetchedThrough ==
    ASSUME FetchTyped, FetchPage, CachedUpTo(cache, Listings, fetching.window, fetching.start)
    PROVE  CachedThrough(cache', Listings, fetching.window, fetching.start)
<1> DEFINE window == fetching.window
           start == fetching.start
<1>1. fetching # NoFetch /\ window \in DOMAIN Windows /\ start \in Nat
    BY DEF FetchTyped, FetchPage
<1>2. window \in Nat \ {0}
    BY <1>1, WindowsLength
<1>3. Listings[window] = Listed
    BY <1>1 DEF Listings, Listed
<1>4. Indexed(Listings[window])
    BY <1>1, ListingsCover DEF FetchTyped
<1>5. PageOf(Page, Listings[window], start)
    <2>1. /\ \A j \in DOMAIN Listed :
                j > start /\ j <= start + PageSize =>
                    \E i \in 1 .. PageSize : i \in DOMAIN Page /\ Page[i] = Listed[j]
          /\ Page = <<>> => \A j \in DOMAIN Listed : j <= start
        BY <1>1, PageHolds
    <2>2. QED  BY <1>3, <2>1 DEF PageOf, Holds
<1>6. cache' = IF Page = <<>> THEN cache ELSE Update(cache, <<window, start>>, Page)
    BY DEF FetchPage
<1>7. CachedUpTo(cache, Listings, window, start)
    OBVIOUS
<1> DEFINE page == Page
           listings == Listings
           more == cache'
<1>8. /\ Indexed(listings[window]) /\ CachedUpTo(cache, listings, window, start)
      /\ PageOf(page, listings[window], start)
      /\ more = IF page = <<>> THEN cache ELSE Update(cache, <<window, start>>, page)
    BY <1>4, <1>5, <1>6, <1>7
<1> HIDE DEF window, start, page, listings, more
<1>9. CachedThrough(more, listings, window, start)
    BY <1>1, <1>2, <1>8, PageWritten
<1>10. QED  BY <1>9 DEF window, start, listings, more

LEMMA EditRaises ==
    ASSUME NvdType, NvdEdits
    PROVE  /\ NvdType'
           /\ \A d \in Cves : nvd[d].version \in Nat /\ nvd'[d].version \in Nat
           /\ \A d \in Cves : nvd[d].version <= nvd'[d].version
           /\ \E c \in Cves : nvd[c].version < nvd'[c].version
           /\ \A d \in Cves : nvd'[d].modified <= Until => nvd[d].modified <= Until
<1>1. PICK c \in DOMAIN nvd, today \in {Until, Until + 1} :
          /\ nvd[c].modified <= today
          /\ nvd' = [nvd EXCEPT ![c] = [modified |-> today, version |-> nvd[c].version + 1]]
    BY DEF NvdEdits
<1>2. /\ c \in Cves /\ Until \in Nat /\ today \in 0 .. Until + 1
      /\ \A d \in Cves : nvd[d].version \in Nat
    BY BuildAssumption DEF NvdType
<1>3. NvdType'
    BY <1>1, <1>2 DEF NvdType
<1>4. /\ nvd'[c].version = nvd[c].version + 1 /\ nvd'[c].modified = today
      /\ \A d \in Cves : d # c => nvd'[d] = nvd[d]
    BY <1>1, <1>2 DEF NvdType
<1>5. nvd'[c].modified <= Until => nvd[c].modified <= Until
    <2>1. today <= Until => today = Until
        BY <1>1, <1>2
    <2>2. QED  BY <1>1, <1>4, <2>1
<1>6. QED  BY <1>2, <1>3, <1>4, <1>5

LEMMA FetchTypedStep == ASSUME BuildInv, FetchTyped, BuildStep PROVE FetchTyped'
<1>1. PageSize \in Nat \ {0} /\ Len(Windows) \in Nat \ {0} /\ DOMAIN Windows = 1 .. Len(Windows)
    BY BuildAssumption, WindowsLength
<1>2. CASE StartFetch
    BY <1>1, <1>2 DEF StartFetch, FirstRequest, FetchTyped, NvdType
<1>3. CASE FetchPage
    <2>1. fetching # NoFetch /\ fetching.start \in Nat /\ fetching.window \in 1 .. Len(Windows)
          /\ stage = "none" /\ UNCHANGED nvd
        BY <1>1, <1>3 DEF FetchPage, FetchTyped
    <2>2. DOMAIN cache' \subseteq Nat \X Nat
        <3>1. CASE Page = <<>>
            BY <1>3, <3>1 DEF FetchPage, FetchTyped
        <3>2. CASE Page # <<>>
            <4>1. cache' = Update(cache, <<fetching.window, fetching.start>>, Page)
                BY <1>3, <3>2 DEF FetchPage
            <4>2. fetching.window \in Nat /\ fetching.start \in Nat
                BY <2>1
            <4>3. QED  BY <4>1, <4>2, KeysWritten DEF FetchTyped
        <3>3. QED  BY <3>1, <3>2
    <2>3. fetching' # NoFetch =>
              fetching'.window \in 1 .. Len(Windows) /\ fetching'.start \in Nat /\ stage' = "none"
        BY <1>1, <1>3, <2>1, PageTurns
    <2>4. QED  BY <1>1, <2>1, <2>2, <2>3 DEF FetchTyped, NvdType
<1>4. CASE FetchThrottled
    <2>1. fetching' # NoFetch => fetching'.window = fetching.window /\ fetching'.start = fetching.start
        BY <1>4 DEF FetchThrottled, BuildInv
    <2>2. QED  BY <1>4, <2>1 DEF FetchThrottled, FetchTyped, NvdType
<1>5. CASE FetchStops
    <2>1. UNCHANGED <<nvd, stage>> /\ fetching' = NoFetch /\ fetching # NoFetch
        BY <1>5 DEF FetchStops
    <2>2. DOMAIN cache' \subseteq Nat \X Nat
        <3>1. CASE UNCHANGED cache
            BY <3>1 DEF FetchTyped
        <3>2. CASE ~UNCHANGED cache
            <4>1. cache' = Update(cache, <<fetching.window, fetching.start>>, TornPage)
                BY <1>5, <3>2 DEF FetchStops
            <4>2. fetching.window \in Nat /\ fetching.start \in Nat
                BY <1>1, <2>1 DEF FetchTyped
            <4>3. QED  BY <4>1, <4>2, KeysWritten DEF FetchTyped
        <3>3. QED  BY <3>1, <3>2
    <2>3. QED  BY <2>1, <2>2 DEF FetchTyped, NvdType
<1>6. CASE NvdEdits
    BY <1>6, EditRaises DEF NvdEdits, FetchTyped
<1>7. CASE Compact \/ CompactKilled \/ FilterKev \/ FilterKilled
    BY <1>7 DEF Compact, CompactKilled, FilterKev, FilterKilled, FetchTyped, NvdType
<1>8. QED  BY <1>2, <1>3, <1>4, <1>5, <1>6, <1>7 DEF BuildStep

LEMMA ListingsStay == ASSUME UNCHANGED nvd PROVE Listings' = Listings
BY DEF Listings, Results, Stamp

\* A fetch that starts has come past nothing yet.
LEMMA NothingFetched ==
    ASSUME NvdType
    PROVE  CachedUpTo(cache, Listings, 1, 0)
<1>1. 1 \in DOMAIN Windows
    BY WindowsLength
<1>2. Indexed(Listings[1])
    BY <1>1, ListingsCover
<1>3. QED  BY <1>2 DEF CachedUpTo, Indexed

LEMMA UpstreamStep == ASSUME BuildInv, FetchTyped, Upstream, BuildStep PROVE Upstream'
<1>1. CASE StartFetch
    <2>1. fetching' = FirstRequest(nvd) /\ UNCHANGED <<nvd, cache>>
        BY <1>1 DEF StartFetch
    <2>2. fetching'.window = 1 /\ fetching'.start = 0 /\ fetching'.upstream = nvd
        BY <2>1 DEF FirstRequest
    <2>3. \A c \in Cves : nvd[c].version \in 0 .. nvd[c].version
        BY DEF FetchTyped, NvdType
    <2>4. CachedUpTo(cache, Listings, 1, 0) /\ Listings' = Listings
        BY <2>1, NothingFetched, ListingsStay DEF FetchTyped
    <2>5. QED  BY <2>1, <2>2, <2>3, <2>4 DEF Upstream
<1>2. CASE FetchPage
    <2> DEFINE window == fetching.window
               start == fetching.start
    <2>1. /\ fetching # NoFetch /\ UNCHANGED nvd /\ Listings' = Listings
          /\ window \in 1 .. Len(Windows) /\ Len(Windows) \in Nat /\ start \in Nat
        BY <1>2, WindowsLength, ListingsStay DEF FetchPage, FetchTyped
    <2>2. \A c \in Cves : fetching.upstream[c].version \in 0 .. nvd[c].version
        BY <2>1 DEF Upstream
    <2>3. ASSUME fetching' # NoFetch
          PROVE  /\ fetching'.upstream = fetching.upstream
                 /\ \/ fetching'.window = window /\ fetching'.start = start + PageSize
                    \/ /\ AtWindowEnd /\ window < Len(Windows)
                       /\ fetching'.window = window + 1 /\ fetching'.start = 0
        BY <1>2, <2>3, PageTurns
    <2>4. ASSUME fetching' # NoFetch, nvd = fetching.upstream
          PROVE  CachedUpTo(cache', Listings, fetching'.window, fetching'.start)
        <3>1. CachedThrough(cache', Listings, window, start)
            BY <1>2, <2>1, <2>4, FetchedThrough DEF Upstream
        <3>2. DOMAIN cache' \subseteq Nat \X Nat
            <4>1. FetchTyped'
                BY <1>2, FetchTypedStep DEF BuildStep
            <4>2. QED  BY <4>1 DEF FetchTyped
        <3>3. window \in Nat \ {0}
            BY <2>1
        <3>4. CASE fetching'.window = window /\ fetching'.start = start + PageSize
            <4>1. CachedUpTo(cache', Listings, window, start + PageSize)
                BY <2>1, <3>1, <3>2, <3>3, NextPageUpTo
            <4>2. QED  BY <3>4, <4>1
        <3>5. CASE /\ AtWindowEnd /\ window < Len(Windows)
                   /\ fetching'.window = window + 1 /\ fetching'.start = 0
            <4>1. window + 1 \in DOMAIN Windows /\ window \in DOMAIN Windows
                BY <2>1, <3>5, WindowsLength
            <4>2. Indexed(Listings[window + 1])
                BY <4>1, ListingsCover DEF FetchTyped
            <4>3. \A j \in DOMAIN Listings[window] : j <= start + PageSize
                BY <3>5, <4>1 DEF AtWindowEnd, Listed, Listings
            <4>4. CachedUpTo(cache', Listings, window + 1, 0)
                BY <2>1, <3>1, <3>2, <3>3, <4>2, <4>3, NextWindowUpTo
            <4>5. QED  BY <3>5, <4>4
        <3>6. QED  BY <2>3, <2>4, <3>4, <3>5
    <2>5. QED  BY <2>1, <2>2, <2>3, <2>4 DEF Upstream
<1>3. CASE FetchThrottled
    <2>1. UNCHANGED <<nvd, cache>> /\ fetching # NoFetch
        BY <1>3 DEF FetchThrottled
    <2>2. fetching' # NoFetch => /\ fetching'.window = fetching.window /\ fetching'.start = fetching.start
                                 /\ fetching'.upstream = fetching.upstream
        BY <1>3 DEF FetchThrottled, BuildInv
    <2>3. QED  BY <2>1, <2>2, ListingsStay DEF Upstream
<1>4. CASE FetchStops
    BY <1>4 DEF FetchStops, Upstream
<1>5. CASE NvdEdits
    <2>1. UNCHANGED <<cache, fetching>>
        BY <1>5 DEF NvdEdits
    <2>2. ASSUME fetching # NoFetch
          PROVE  /\ \A c \in Cves : fetching.upstream[c].version \in 0 .. nvd'[c].version
                 /\ nvd' # fetching.upstream
        <3>1. \A d \in Cves : /\ nvd[d].version \in Nat /\ nvd'[d].version \in Nat
                              /\ nvd[d].version <= nvd'[d].version
            BY <1>5, EditRaises DEF FetchTyped
        <3>2. PICK c \in Cves : nvd[c].version < nvd'[c].version
            BY <1>5, EditRaises DEF FetchTyped
        <3>3. \A d \in Cves : fetching.upstream[d].version \in 0 .. nvd[d].version
            BY <2>2 DEF Upstream
        <3>4. \A d \in Cves : fetching.upstream[d].version \in 0 .. nvd'[d].version
            BY <3>1, <3>3
        <3>5. nvd'[c].version # fetching.upstream[c].version
            BY <3>1, <3>2, <3>3
        <3>6. QED  BY <3>4, <3>5
    <2>3. QED  BY <2>1, <2>2 DEF Upstream
<1>6. CASE Compact \/ CompactKilled \/ FilterKev \/ FilterKilled
    <2>1. UNCHANGED <<nvd, cache, fetching>>
        BY <1>6 DEF Compact, CompactKilled, FilterKev, FilterKilled
    <2>2. QED  BY <2>1, ListingsStay DEF Upstream
<1>7. QED  BY <1>1, <1>2, <1>3, <1>4, <1>5, <1>6 DEF BuildStep

\* Compacting and filtering bring every entry along that they should.
LEMMA CompactStage ==
    ASSUME FileMarkers, BuildInv, FetchTyped, PagesIntact, NEW c \in Cves \ {NoId}, OnAPage(cache, c)
    PROVE  InFile(Compacted, c)
<1>1. PICK k \in DOMAIN cache : \E i \in 1 .. PageSize :
          i \in DOMAIN cache[k] /\ cache[k][i].cve = c /\ Stamped(cache[k][i])
    BY DEF OnAPage
<1>2. PICK i \in 1 .. PageSize :
          i \in DOMAIN cache[k] /\ cache[k][i].cve = c /\ Stamped(cache[k][i])
    BY <1>1
<1>3. PICK n \in DOMAIN Compacted : Compacted[n] = cache[k][i]
    BY <1>2, CompactedHolds DEF BuildInv, FetchTyped
<1>4. cache[k][i] # TornLine
    BY <1>2 DEF Stamped, FileMarkers
<1>5. QED  BY <1>2, <1>3, <1>4 DEF InFile

LEMMA StageStep ==
    ASSUME FileMarkers, BuildInv, FetchTyped, Upstream, StageInv, BuildStep
    PROVE  StageInv'
<1>1. CASE StartFetch \/ CompactKilled \/ FilterKilled
    BY <1>1 DEF StartFetch, CompactKilled, FilterKilled, StageInv
<1>2. CASE FetchThrottled \/ FetchStops
    BY <1>2 DEF FetchThrottled, FetchStops, FetchTyped, StageInv
<1>3. CASE FetchPage
    <2>1. /\ fetching # NoFetch /\ stage = "none" /\ fetching.window \in 1 .. Len(Windows)
          /\ Len(Windows) \in Nat \ {0} /\ DOMAIN Windows = 1 .. Len(Windows)
        BY <1>3, WindowsLength DEF FetchPage, FetchTyped
    <2>2. stage' = "none" \/ (stage' = "fetched" /\ AtWindowEnd /\ fetching.window = Len(Windows)
                                  /\ nvd = fetching.upstream)
        BY <1>3, <2>1, PageTurns
    <2>3. ASSUME AtWindowEnd, fetching.window = Len(Windows), nvd = fetching.upstream
          PROVE  \A c \in InRange : OnAPage(cache', c)
        <3>1. CachedThrough(cache', Listings, Len(Windows), fetching.start)
            BY <1>3, <2>1, <2>3, FetchedThrough DEF Upstream
        <3>2. \A j \in DOMAIN Listings[Len(Windows)] : j <= fetching.start + PageSize
            BY <2>1, <2>3 DEF AtWindowEnd, Listed, Listings
        <3>3. QED  BY <2>1, <3>1, <3>2, AllCached DEF FetchTyped
    <2>4. InRange' = InRange
        BY <1>3 DEF FetchPage, InRange
    <2>5. QED  BY <2>2, <2>3, <2>4 DEF StageInv
<1>4. CASE NvdEdits
    <2>1. UNCHANGED <<cache, nvdFile, kevFile, stage>>
        BY <1>4 DEF NvdEdits
    <2>2. InRange' \subseteq InRange
        BY <1>4, EditRaises DEF FetchTyped, InRange
    <2>3. QED  BY <2>1, <2>2 DEF StageInv
<1>5. CASE Compact
    <2>1. /\ nvdFile' = Compacted
          /\ stage' = IF PagesIntact /\ stage = "fetched" THEN "compacted" ELSE "none"
        BY <1>5 DEF Compact
    <2>2. ASSUME PagesIntact, stage = "fetched", NEW c \in InRange \ {NoId} PROVE InFile(nvdFile', c)
        BY <2>1, <2>2, CompactStage DEF StageInv, InRange
    <2>3. InRange' = InRange
        BY <1>5 DEF Compact, InRange
    <2>4. nvdFile' # NoFile
        BY <2>1, CompactedLines DEF BuildInv, FileMarkers
    <2>5. QED  BY <2>1, <2>2, <2>3, <2>4 DEF StageInv
<1>6. CASE FilterKev
    <2>1. PICK evalFound \in BOOLEAN :
              /\ kevFile' = Filtered(nvdFile, KeepSet(evalFound))
              /\ stage' = IF stage = "compacted" /\ evalFound THEN "filtered" ELSE "none"
        BY <1>6 DEF FilterKev
    <2>2. nvdFile # NoFile /\ UNCHANGED <<nvd, nvdFile>> /\ IsLines(nvdFile)
        BY <1>6 DEF FilterKev, BuildInv
    <2>3. ASSUME stage = "compacted", evalFound
          PROVE  /\ kevFile' # NoFile
                 /\ \A c \in InRange \cap (KevIds \cup EvalIds) : InFile(kevFile', c)
        <3>1. kevFile' = Filtered(nvdFile, KevIds \cup EvalIds)
            BY <2>1, <2>3 DEF KeepSet
        <3>2. kevFile' # NoFile
            BY <2>2, <3>1, FilteredDistinct DEF FileMarkers
        <3>3. ASSUME NEW c \in InRange \cap (KevIds \cup EvalIds) PROVE InFile(kevFile', c)
            <4>1. c \in KevIds \cup EvalIds /\ c \in InRange \ {NoId}
                BY BuildAssumption
            <4>2. InFile(nvdFile, c)
                BY <2>3, <4>1 DEF StageInv
            <4>3. QED  BY <2>2, <3>1, <4>1, <4>2, FilteredHolds
        <3>4. QED  BY <3>2, <3>3
    <2>4. InRange' = InRange
        BY <2>2 DEF InRange
    <2>5. QED  BY <2>1, <2>3, <2>4 DEF StageInv
<1>7. QED  BY <1>1, <1>2, <1>3, <1>4, <1>5, <1>6 DEF BuildStep

PassageInv == FileMarkers /\ FetchTyped /\ Upstream /\ StageInv

LEMMA PassageInit == ASSUME FileMarkers, Init PROVE PassageInv
<1>1. NvdType
    BY BuildAssumption DEF Init, BuildInit, NvdType, Cves
<1>2. DOMAIN cache = {} /\ fetching = NoFetch /\ stage = "none"
    BY DEF Init, BuildInit
<1>3. QED  BY <1>1, <1>2 DEF PassageInv, FetchTyped, Upstream, StageInv

LEMMA PassageStep == ASSUME CorpusInv, PassageInv, [Next]_vars PROVE PassageInv'
<1>1. CASE Build
    <2>1. BuildStep /\ BuildInv
        BY <1>1 DEF Build, CorpusInv
    <2>2. FetchTyped' /\ Upstream' /\ StageInv'
        BY <2>1, FetchTypedStep, UpstreamStep, StageStep DEF PassageInv
    <2>3. QED  BY <2>2 DEF PassageInv, FileMarkers
<1>2. CASE ~Build
    <2>1. UNCHANGED <<nvd, cache, fetching, nvdFile, kevFile, stage>>
        BY <1>2, CorpusStays
    <2>2. Listings' = Listings /\ InRange' = InRange
        BY <2>1, ListingsStay DEF InRange
    <2>3. QED  BY <2>1, <2>2 DEF PassageInv, FetchTyped, NvdType, Upstream, StageInv, FileMarkers
<1>3. QED  BY <1>1, <1>2

\* A seeding that ends has stored every record, or given it up.
LEMMA SeedEnds ==
    ASSUME SeederInv, CorpusInv, SeedCompletes, NEW n \in 1 .. Len(Records)
    PROVE  n \in givenUp \/ (n \in StoredIds /\ collection.points[n] = Records[n])
<1>1. /\ seed # NoSeed /\ seed.limit = 0 /\ seed.batch = {}
      /\ seed.next > LastRecord
    BY DEF SeedCompletes, SeedDone, Seeding, AtEnd
<1>2. Len(Records) \in Nat /\ LastRecord = Len(Records)
    BY <1>1, RecordsSeq DEF LastRecord, CorpusInv
<1>3. /\ seed.next \in Nat \ {0}
      /\ \A m \in 1 .. seed.next - 1 : m \in StoredIds \cup seed.batch \cup givenUp
    BY <1>1 DEF SeederInv, Behind
<1>4. n \in 1 .. seed.next - 1
    BY <1>1, <1>2, <1>3
<1>5. CASE n \in StoredIds
    <2>1. collection # NoCollection /\ n \in DOMAIN collection.points
        BY <1>5 DEF StoredIds
    <2>2. collection.points[n] = Records[n]
        BY <2>1 DEF CorpusInv, StoreInv, Mirrors
    <2>3. QED  BY <1>5, <2>2
<1>6. QED  BY <1>1, <1>3, <1>4, <1>5

\* From NVD to the collection: when fetch (while NVD stood still), compact,
\* filter if its file is the seeded one, and an unlimited seeding have run to
\* their ends, whatever faults came before and between them, every CVE wanted
\* is a point or could not be embedded.
THEOREM NothingLost ==
    ASSUME Markers, FileMarkers, ResumesAtStored
    PROVE  Spec => EndToEnd
<1> DEFINE I == SeederInv /\ CorpusInv /\ PassageInv
           Delivered == SeedCompletes /\ FileCurrent =>
               \A c \in Wanted :
                   \/ \E n \in StoredIds : collection.points[n].cve = c
                   \/ \E n \in givenUp : Records[n].cve = c
<1>1. Init => I
    BY SeederInit, CorpusInit, PassageInit
<1>2. I /\ [Next]_vars => I'
    BY SeederStep, CorpusStep, PassageStep
<1>3. I => Delivered
    <2>1. SUFFICES ASSUME I, SeedCompletes, FileCurrent, NEW c \in Wanted
                   PROVE  \/ \E n \in StoredIds : collection.points[n].cve = c
                          \/ \E n \in givenUp : Records[n].cve = c
        OBVIOUS
    <2>2. SeedFile # NoFile /\ IsLines(SeedFile) /\ InFile(SeedFile, c)
        <3>1. c \in InRange \ {NoId} /\ (jsonl = "kev" => c \in KevIds \cup EvalIds)
            BY <2>1 DEF Wanted, InRange, PassageInv, FetchTyped, NvdType
        <3>2. CASE jsonl = "kev"
            BY <2>1, <3>1, <3>2 DEF FileCurrent, SeedFile, PassageInv, StageInv, CorpusInv, BuildInv
        <3>3. CASE jsonl # "kev"
            BY <2>1, <3>1, <3>3 DEF FileCurrent, SeedFile, PassageInv, StageInv, CorpusInv, BuildInv
        <3>4. QED  BY <3>2, <3>3
    <2>3. Len(Records) \in Nat /\ Records = [n \in 1 .. Len(Records) |-> Records[n]]
        BY <2>1, RecordsSeq DEF CorpusInv
    <2>4. PICK n \in 1 .. Len(Records) : Records[n].cve = c
        BY <2>2, <2>3, RecordsHold
    <2>5. n \in givenUp \/ (n \in StoredIds /\ collection.points[n] = Records[n])
        BY <2>1, SeedEnds
    <2>6. QED  BY <2>4, <2>5
<1>4. I => [Delivered]_vars
    BY <1>3
<1> HIDE DEF I
<1>5. Spec => [][Delivered]_vars
    BY <1>1, <1>2, <1>4, PTL DEF Spec
<1>6. QED  BY <1>5 DEF EndToEnd
================================================================================
