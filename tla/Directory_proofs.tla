-------------------------- MODULE Directory_proofs --------------------------
(* Proofs about Directory, for any URLs, stations, users, ingesters,         *)
(* threshold and number of feed changes and faults.                          *)
EXTENDS Directory, FiniteSetTheorems, TLAPS

USE DirectoryAssumption

(* What a station's public tags can be counted to: a number, and one less    *)
(* when one user's tag stops being public.                                   *)
LEMMA CountsAreNumbers ==
  ASSUME NEW s \in StationIds
  PROVE  Public(s) \in Nat /\ IsFiniteSet({u \in Users : tags[<<u, s>>] = "public"})
<1>1. {u \in Users : tags[<<u, s>>] = "public"} \in SUBSET Users
  OBVIOUS
<1>2. IsFiniteSet({u \in Users : tags[<<u, s>>] = "public"})
  BY <1>1, FS_Subset
<1>3. QED
  BY <1>2, FS_CardinalityType DEF Public

(* Every table, snapshot and bound keeps its type.                           *)
THEOREM DirectoryTypes == Spec => []TypeOK
<1>1. Init => TypeOK
  BY DEF Init, TypeOK, Listings, Cap, NoRows
<1>2. TypeOK /\ [Next]_vars => TypeOK'
  <2> SUFFICES ASSUME TypeOK, [Next]_vars PROVE TypeOK'
    OBVIOUS
  <2> USE DEF TypeOK, Listings, Cap, NoRows, upstream, listing, tagging, ingest
  <2>1. CASE FeedChanges
    BY <2>1 DEF FeedChanges
  <2>2. CASE Tick
    BY <2>2 DEF Tick, Older
  <2>3. ASSUME NEW i \in Ingesters, ReadFeed(i)
        PROVE TypeOK'
    BY <2>3 DEF ReadFeed
  <2>4. ASSUME NEW i \in Ingesters, UpsertRow(i)
        PROVE TypeOK'
    <3>1. PICK u \in Urls : Upsert(i, u)
      BY <2>4 DEF UpsertRow
    <3>0. StationOf[u] \in StationIds
      OBVIOUS
    <3>2. pending' \in [Ingesters -> [Urls -> Listings]]
      BY <3>1 DEF Upsert
    <3>3. QED
      BY <3>0, <3>1, <3>2 DEF Upsert, Seen
  <2>0. ASSUME NEW i \in Ingesters, EndCycle(i)
        PROVE /\ cycle' \in [Ingesters -> {"idle", "rows"}]
              /\ pending' \in [Ingesters -> [Urls -> Listings]]
              /\ elapsed' \in [Ingesters -> 0..CycleTicks]
    <3>1. NoRows \in [Urls -> Listings]
      OBVIOUS
    <3>2. QED
      BY <2>0, <3>1 DEF EndCycle
  <2>5. ASSUME NEW i \in Ingesters, UnnamedRow(i) \/ CycleFails(i)
        PROVE TypeOK'
    BY <2>0, <2>5 DEF UnnamedRow, CycleFails
  <2>6. ASSUME NEW i \in Ingesters, Deactivate(i)
        PROVE TypeOK'
    BY <2>0, <2>6 DEF Deactivate
  <2>7. ASSUME NEW w \in Workers, SaveTag(w)
        PROVE TypeOK'
    <3>1. PICK u \in Users, s \in StationIds, vis \in {"public", "private"} :
            /\ tags' = [tags EXCEPT ![<<u, s>>] = vis]
            /\ \/ /\ recount' = [recount EXCEPT ![w] = s]
                  /\ UNCHANGED <<lost, faults>>
               \/ /\ faults < MaxFaults
                  /\ faults' = faults + 1
                  /\ lost' = lost \union {s}
                  /\ UNCHANGED recount
      BY <2>7 DEF SaveTag
    <3>2. tags' \in [Users \X StationIds -> {"none", "public", "private"}]
      BY <3>1
    <3>3. /\ recount' \in [Workers -> StationIds \union {NoStation}]
          /\ lost' \subseteq StationIds
      BY <3>1
    <3>4. faults' \in 0..MaxFaults
      BY <2>7, <3>1 DEF SaveTag
    <3>5. QED
      BY <2>7, <3>2, <3>3, <3>4 DEF SaveTag
  <2>8. ASSUME NEW w \in Workers, Recount(w)
        PROVE TypeOK'
    <3>1. PICK s \in StationIds : s = recount[w]
      BY <2>8 DEF Recount
    <3>2. Counted(s) \in Nat
      BY CountsAreNumbers DEF Counted
    <3>3. /\ tagCount' = [tagCount EXCEPT ![s] = Counted(s)]
          /\ age' \in {age, [age EXCEPT ![s] = 0]}
          /\ bumped' \in {bumped, bumped \union {s}}
          /\ lost' = lost \ {s} /\ removed' = removed \ {s}
          /\ recount' = [recount EXCEPT ![w] = NoStation]
          /\ UNCHANGED <<upstream, row, since, tags, ingest, faults>>
      BY <2>8, <3>1 DEF Recount
    <3>4. tagCount' \in [StationIds -> Nat]
      BY <3>2, <3>3
    <3>5. QED
      BY <3>3, <3>4
  <2>9. ASSUME NEW w \in Workers, RecountFails(w)
        PROVE TypeOK'
    BY <2>9 DEF RecountFails
  <2>10. CASE DeleteTag
    BY <2>10 DEF DeleteTag
  <2>11. CASE Crash
    BY <2>11 DEF Crash
  <2>12. CASE UNCHANGED vars
    BY <2>12 DEF vars
  <2>13. QED
    BY <2>1, <2>2, <2>3, <2>4, <2>5, <2>6, <2>7, <2>8, <2>9, <2>10, <2>11,
       <2>12 DEF Next, Ingester, Worker
<1>3. QED
  BY <1>1, <1>2, PTL DEF Spec

-----------------------------------------------------------------------------
(* last_seen_at tells of the last upsert or of a later bump.                 *)
LEMMA SeenNoEarlier == Spec => []SeenAtLastUpsert
<1>1. Init => SeenAtLastUpsert
  BY DEF Init, SeenAtLastUpsert
<1>2. TypeOK /\ SeenAtLastUpsert /\ [Next]_vars => SeenAtLastUpsert'
  <2> SUFFICES ASSUME TypeOK, SeenAtLastUpsert, [Next]_vars
               PROVE SeenAtLastUpsert'
    OBVIOUS
  <2> USE DEF TypeOK, SeenAtLastUpsert, upstream, listing
  <2>1. CASE Tick
    BY <2>1 DEF Tick, Older, Cap
  <2>2. ASSUME NEW i \in Ingesters, UpsertRow(i)
        PROVE SeenAtLastUpsert'
    BY <2>2 DEF UpsertRow, Upsert
  <2>3. ASSUME NEW i \in Ingesters, Deactivate(i)
        PROVE SeenAtLastUpsert'
    BY <2>3 DEF Deactivate, Cap
  <2>4. ASSUME NEW w \in Workers, Recount(w)
        PROVE SeenAtLastUpsert'
    <3>1. recount[w] \in StationIds
      BY <2>4 DEF Recount
    <3>2. \/ UNCHANGED <<age, bumped>>
          \/ /\ age' = [age EXCEPT ![recount[w]] = 0]
             /\ bumped' = bumped \union {recount[w]}
      BY <2>4 DEF Recount
    <3>3. UNCHANGED since
      BY <2>4 DEF Recount
    <3>4. QED
      BY <3>1, <3>2, <3>3 DEF Cap
  <2>5. ASSUME UNCHANGED listing
        PROVE SeenAtLastUpsert'
    BY <2>5
  <2>6. QED
    BY <2>1, <2>2, <2>3, <2>4, <2>5
       DEF Next, Ingester, Worker, FeedChanges, Crash, DeleteTag, ReadFeed,
           UnnamedRow, CycleFails, SaveTag, RecountFails, vars
<1>3. QED
  BY <1>1, <1>2, DirectoryTypes, PTL DEF Spec

(* Only Deactivate takes a row off the listing.                              *)
LEMMA OnlyDeactivateUnlists ==
  ASSUME TypeOK, [Next]_vars, NEW s \in StationIds,
         row[s] = "active", row'[s] = "inactive"
  PROVE  Expired(s)
<1> USE DEF TypeOK, listing
<1>1. ASSUME NEW i \in Ingesters, UpsertRow(i)
      PROVE row'[s] = "active"
  BY <1>1 DEF UpsertRow, Upsert, Seen
<1>2. ASSUME NEW i \in Ingesters, Deactivate(i)
      PROVE Expired(s)
  BY <1>2 DEF Deactivate, Expired
<1>3. QED
  BY <1>1, <1>2 DEF Next, Ingester, Worker, FeedChanges, Tick, Crash, DeleteTag,
     ReadFeed, UnnamedRow, CycleFails, SaveTag, Recount, RecountFails, vars

(* No station seen within the threshold is deactivated.                      *)
THEOREM NotUnlistedEarly == Spec => NoEarlyDeactivation
<1>1. TypeOK /\ SeenAtLastUpsert /\ [Next]_vars =>
        [\A s \in StationIds :
           row[s] = "active" /\ row'[s] = "inactive" => since[s] > Stale]_vars
  <2> SUFFICES ASSUME TypeOK, SeenAtLastUpsert, [Next]_vars,
                      NEW s \in StationIds, row[s] = "active", row'[s] = "inactive"
               PROVE since[s] > Stale
    OBVIOUS
  <2>1. Expired(s)
    BY OnlyDeactivateUnlists
  <2>2. QED
    BY <2>1 DEF Expired, SeenAtLastUpsert, TypeOK, Cap
<1>2. QED
  BY <1>1, DirectoryTypes, SeenNoEarlier, PTL DEF Spec, NoEarlyDeactivation

(* After a complete cycle only bumped rows outlive the threshold.            *)
THEOREM UnbumpedAreUnlisted == Spec => OnlyBumpedOutlive
<1>1. TypeOK /\ SeenAtLastUpsert /\ [Next]_vars =>
        [\A i \in Ingesters : Deactivate(i) =>
           \A s \in StationIds \ bumped : row'[s] = "active" => since[s] <= Stale]_vars
  <2> SUFFICES ASSUME TypeOK, SeenAtLastUpsert, NEW i \in Ingesters, Deactivate(i),
                      NEW s \in StationIds \ bumped, row'[s] = "active"
               PROVE since[s] <= Stale
    OBVIOUS
  <2>1. row[s] = "active" /\ ~ Expired(s)
    BY DEF Deactivate, TypeOK
  <2>2. QED
    BY <2>1 DEF Expired, SeenAtLastUpsert, TypeOK, Cap
<1>2. QED
  BY <1>1, DirectoryTypes, SeenNoEarlier, PTL DEF Spec, OnlyBumpedOutlive

(* The ingest never costs a user a tag.                                      *)
THEOREM TagsSurvive == Spec => TagsSurviveIngest
<1>1. TypeOK /\ [Next]_vars =>
        [\A t \in Users \X StationIds :
           tags[t] # "none" /\ tags'[t] = "none" =>
             UNCHANGED <<upstream, listing, ingest>>]_vars
  <2> SUFFICES ASSUME TypeOK, [Next]_vars, NEW t \in Users \X StationIds,
                      tags[t] # "none", tags'[t] = "none"
               PROVE UNCHANGED <<upstream, listing, ingest>>
    OBVIOUS
  <2>1. ASSUME UNCHANGED tags
        PROVE FALSE
    BY <2>1
  <2>2. ASSUME NEW w \in Workers, SaveTag(w)
        PROVE UNCHANGED <<upstream, listing, ingest>>
    BY <2>2 DEF SaveTag
  <2>3. CASE DeleteTag
    BY <2>3 DEF DeleteTag
  <2>4. QED
    BY <2>1, <2>2, <2>3
       DEF Next, Ingester, Worker, FeedChanges, Tick, Crash, ReadFeed, UpsertRow,
           Upsert, UnnamedRow, CycleFails, Deactivate, Recount, RecountFails,
           tagging, vars
<1>2. QED
  BY <1>1, DirectoryTypes, PTL DEF Spec, TagsSurviveIngest

-----------------------------------------------------------------------------
(* The cached count differs from the public tags only for a known reason: a  *)
(* recount that is due or was lost, or, upwards, a deleted tag. A delete can *)
(* only lower the number of public tags, a save leaves a recount behind.     *)
THEOREM TagCounts == Spec => []TagCountExplained
<1> USE DEF TagCountExplained
<1>1. Init => TagCountExplained
  <2> SUFFICES ASSUME Init, NEW s \in StationIds PROVE tagCount[s] = Public(s)
    OBVIOUS
  <2>1. {u \in Users : tags[<<u, s>>] = "public"} = {}
    BY DEF Init
  <2>2. QED
    BY <2>1, FS_EmptySet DEF Init, Public
<1>2. TypeOK /\ TagCountExplained /\ [Next]_vars => TagCountExplained'
  <2> SUFFICES ASSUME TypeOK, TagCountExplained, [Next]_vars
               PROVE TagCountExplained'
    OBVIOUS
  <2> USE DEF TypeOK
  <2>1. ASSUME UNCHANGED <<tags, tagCount, recount, lost, removed>>
        PROVE TagCountExplained'
    BY <2>1 DEF Public
  <2>2. ASSUME NEW w \in Workers, SaveTag(w)
        PROVE TagCountExplained'
    <3>1. PICK u \in Users, s \in StationIds, vis \in {"public", "private"} :
            /\ tags' = [tags EXCEPT ![<<u, s>>] = vis]
            /\ \/ /\ recount' = [recount EXCEPT ![w] = s]
                  /\ UNCHANGED <<lost, faults>>
               \/ /\ faults < MaxFaults
                  /\ faults' = faults + 1
                  /\ lost' = lost \union {s}
                  /\ UNCHANGED recount
      BY <2>2 DEF SaveTag
    <3>2. recount[w] = NoStation /\ UNCHANGED <<tagCount, removed>>
      BY <2>2 DEF SaveTag
    <3>3. ASSUME NEW x \in StationIds, x # s
          PROVE Public(x)' = Public(x)
      <4>1. \A v \in Users : tags'[<<v, x>>] = tags[<<v, x>>]
        BY <3>1, <3>3
      <4>2. {v \in Users : tags'[<<v, x>>] = "public"}
              = {v \in Users : tags[<<v, x>>] = "public"}
        BY <4>1
      <4>3. QED
        BY <4>2 DEF Public
    <3>4. (\E v \in Workers : recount'[v] = s) \/ s \in lost'
      BY <3>1
    <3>5. \A v \in Workers : recount[v] # NoStation => recount'[v] = recount[v]
      BY <3>1, <3>2
    <3>6. lost \subseteq lost'
      BY <3>1
    <3>7. QED
      BY <3>2, <3>3, <3>4, <3>5, <3>6
  <2>3. ASSUME NEW w \in Workers, Recount(w)
        PROVE TagCountExplained'
    <3>1. PICK s \in StationIds : s = recount[w]
      BY <2>3 DEF Recount
    <3>2. /\ tagCount' = [tagCount EXCEPT ![s] = Public(s)]
          /\ lost' = lost \ {s} /\ removed' = removed \ {s}
          /\ recount' = [recount EXCEPT ![w] = NoStation]
          /\ UNCHANGED tags
      BY <2>3, <3>1 DEF Recount, Counted
    <3>3. \A x \in StationIds : Public(x)' = Public(x)
      BY <3>2 DEF Public
    <3>4. tagCount'[s] = Public(s)'
      BY <3>2, <3>3
    <3>5. ASSUME NEW x \in StationIds, x # s
          PROVE /\ tagCount'[x] = tagCount[x]
                /\ x \in lost => x \in lost'
                /\ x \in removed => x \in removed'
                /\ \A v \in Workers : recount[v] = x => recount'[v] = x
      BY <3>1, <3>2, <3>5
    <3>6. QED
      BY <3>3, <3>4, <3>5
  <2>4. ASSUME NEW w \in Workers, RecountFails(w)
        PROVE TagCountExplained'
    <3>1. /\ lost' = lost \union {recount[w]}
          /\ recount' = [recount EXCEPT ![w] = NoStation]
          /\ UNCHANGED <<tags, tagCount, removed>>
      BY <2>4 DEF RecountFails
    <3>2. \A x \in StationIds : Public(x)' = Public(x)
      BY <3>1 DEF Public
    <3>3. \A x \in StationIds, v \in Workers :
            recount[v] = x => recount'[v] = x \/ x \in lost'
      BY <3>1
    <3>4. QED
      BY <3>1, <3>2, <3>3
  <2>5. CASE DeleteTag
    <3>1. PICK u \in Users, s \in StationIds :
            /\ tags' = [tags EXCEPT ![<<u, s>>] = "none"]
            /\ removed' = IF tags[<<u, s>>] = "public" THEN removed \union {s}
                                                       ELSE removed
      BY <2>5 DEF DeleteTag
    <3>2. UNCHANGED <<tagCount, recount, lost>>
      BY <2>5 DEF DeleteTag
    <3>3. ASSUME NEW x \in StationIds, x # s
          PROVE Public(x)' = Public(x)
      <4>1. \A v \in Users : tags'[<<v, x>>] = tags[<<v, x>>]
        BY <3>1, <3>3
      <4>2. {v \in Users : tags'[<<v, x>>] = "public"}
              = {v \in Users : tags[<<v, x>>] = "public"}
        BY <4>1
      <4>3. QED
        BY <4>2 DEF Public
    <3>4. Public(s)' = IF tags[<<u, s>>] = "public" THEN Public(s) - 1 ELSE Public(s)
      <4> DEFINE P == {v \in Users : tags[<<v, s>>] = "public"}
      <4>1. {v \in Users : tags'[<<v, s>>] = "public"} = P \ {u}
        BY <3>1
      <4>2. IsFiniteSet(P)
        BY CountsAreNumbers
      <4>3. Cardinality(P \ {u}) = IF u \in P THEN Cardinality(P) - 1 ELSE Cardinality(P)
        BY <4>2, FS_RemoveElement
      <4>4. u \in P <=> tags[<<u, s>>] = "public"
        OBVIOUS
      <4>5. QED
        BY <4>1, <4>3, <4>4 DEF Public
    <3>5. Public(s) \in Nat /\ tagCount[s] \in Nat
      BY CountsAreNumbers
    <3>6. ASSUME NEW x \in StationIds
          PROVE \/ \E w \in Workers : recount'[w] = x
                \/ x \in lost'
                \/ tagCount'[x] = Public(x)'
                \/ tagCount'[x] > Public(x)' /\ x \in removed'
      <4>1. CASE x # s
        BY <3>1, <3>2, <3>3, <4>1
      <4>2. CASE x = s
        BY <3>1, <3>2, <3>4, <3>5, <4>2
      <4>3. QED
        BY <4>1, <4>2
    <3>7. QED
      BY <3>6
  <2>6. CASE Crash
    <3>1. /\ \A w \in Workers : recount[w] \in StationIds => recount[w] \in lost'
          /\ lost \subseteq lost'
          /\ UNCHANGED <<tags, tagCount, removed>>
      BY <2>6 DEF Crash
    <3>2. \A x \in StationIds : Public(x)' = Public(x)
      BY <3>1 DEF Public
    <3>3. QED
      BY <3>1, <3>2
  <2>7. QED
    BY <2>1, <2>2, <2>3, <2>4, <2>5, <2>6
       DEF Next, Ingester, Worker, FeedChanges, Tick, ReadFeed, UpsertRow, Upsert,
           UnnamedRow, CycleFails, Deactivate, tagging, vars
<1>3. QED
  BY <1>1, <1>2, DirectoryTypes, PTL DEF Spec

=============================================================================
