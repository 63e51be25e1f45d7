------------------------------ MODULE MCNodePool ------------------------------
(***************************************************************************)
(* Instances of NodePool.  Pools a and b have room for MaxReplicas nodes;  *)
(* the range of c begins inside that of a.                                 *)
(***************************************************************************)
EXTENDS NodePool, TLC

StartOf == [p \in Pools |-> CASE p = "a" -> 0 [] p = "b" -> MaxReplicas [] p = "c" -> 1]
Combined == [p \in Pools |-> Role]
Mixed == [p \in Pools |-> IF p = "a" THEN Role ELSE {"broker"}]
Separate == [p \in Pools |-> IF p = "a" THEN {"controller"} ELSE {"broker"}]

Disk == PersistentClaim(2, "fast", FALSE)
Jbods == {Jbod(<<Volume(1, 2, "fast"), Volume(2, 2, "fast")>>, FALSE),
          Jbod(<<Volume(1, 2, "fast"), Volume(3, 2, "fast")>>, FALSE),
          Jbod(<<Volume(1, 2, "fast")>>, FALSE)}
\* Every kind; a disk that is larger, smaller, of another class, deleted with its pod or
\* of no size; and sets of disks, one of them too small.
AllStorages ==
  {Ephemeral, Disk, PersistentClaim(3, "fast", FALSE), PersistentClaim(1, "fast", FALSE),
   PersistentClaim(2, "slow", FALSE), PersistentClaim(2, "fast", TRUE),
   PersistentClaim(Unparsed, "fast", FALSE)} \cup Jbods

TwoStorages == {Ephemeral, Disk}

Size(a, b) == [p \in Pools |-> CASE p = "a" -> a [] p = "b" -> b [] p = "c" -> 0]
Events(S) == [e \in Event |-> IF e \in S THEN 1 ELSE 0]
From(r, size, up, events) ==
  [role |-> r, size |-> size, storage |-> Disk, tier |-> <<>>, up |-> up, left |-> Events(events)]

With(storage, s) == [s EXCEPT !.storage = storage]
Tiered(delete, s) == [s EXCEPT !.tier = TierPersistence(1, "fast", delete)]

\* The storage of a pool is edited twice, or edited before the pool is deleted; pools on
\* volumes that go with their pods are resized; the tier contradicts the pool.
StorageScenarios ==
  {With(storage, [From(Combined, Size(1, 0), TRUE, {}) EXCEPT !.left["storage"] = 2]) :
     storage \in {Ephemeral, Disk, Jbod(<<Volume(1, 2, "fast"), Volume(2, 2, "fast")>>, FALSE)}}
    \cup {From(Combined, Size(1, 1), TRUE, {"storage", "delete"}),
          Tiered(TRUE, From(Combined, Size(1, 0), FALSE, {}))}
    \cup {With(storage, From(Mixed, Size(2, 1), TRUE, {"edit"})) :
            storage \in {Ephemeral, PersistentClaim(2, "fast", TRUE)}}

\* A cluster comes up; a pool is resized, deleted, created; two pools are deleted; the
\* Kafka goes.
PoolScenarios ==
  StorageScenarios \cup
  {From(r, Size(2, 1), FALSE, {"abort"}) : r \in {Combined, Mixed, Separate}}
    \cup {From(Mixed, Size(2, 1), TRUE, events) :
            events \in {{"edit", "reassign"}, {"edit", "fail"}, {"edit", "topic", "abort"}}}
    \cup {From(r, Size(2, 1), TRUE, {"delete", "topic"}) : r \in {Combined, Separate}}
    \cup {[From(Combined, Size(1, 1), TRUE, {}) EXCEPT !.left["delete"] = 2],
          From(Combined, Size(2, 0), TRUE, {"edit", "create"}),
          From(Combined, Size(0, 1), TRUE, {"create"}),
          From(Combined, Size(1, 0), FALSE, {"delete"}),
          From(Combined, Size(1, 1), TRUE, {"cascade"})}

\* A pool of every kind comes up in a Kafka with a persistent tier.
TierScenarios == {With(storage, Tiered(FALSE, From(Combined, Size(1, 0), FALSE, {}))) :
                    storage \in {Ephemeral, Disk}}

\* The second pool is created while the first one comes up.
BootstrapScenarios == {From(Combined, Size(0, 1), FALSE, {"create"})}
==============================================================================
