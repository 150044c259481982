----------------------------- MODULE MergeProofs -----------------------------
(***************************************************************************)
(* Proofs about module MergePipeline, for any rows, callers and stars: a   *)
(* merge moves stars with the majority of their rows and strands none, and *)
(* a caller is told "ok" only after a merge that began once it had asked.  *)
(*                                                                         *)
(* Of the merge itself the proofs use which rows get an id; which id they  *)
(* get is the business of MergeLibraries.                                  *)
(***************************************************************************)
EXTENDS MergePipeline, FiniteOrders, FiniteSetTheorems, TLAPS

-----------------------------------------------------------------------------
(* The inductive invariant.                                                *)

RowsOK == DOMAIN rows = Keys /\ \A k \in Keys : rows[k] \in Rows[k] \cup {None}

CatalogOK ==
  /\ DOMAIN catalog = Kinds
  /\ \A kind \in Kinds : DOMAIN catalog[kind] \subseteq KeysOf(kind)

\* The unified tables hold what the sources refer to, and a star that is not loose is
\* of those.
StarsOK ==
  /\ \A s \in stars : s[1] \in Kinds
  /\ IdsOf(catalog) \subseteq unified
  /\ NothingStranded

\* The head of the queue is the one whose merge has reported.
QueueOK ==
  /\ queue \in Seq(Callers)
  /\ outcome \in {None, "ok", "failed"}
  /\ outcome # None => queue # <<>>
  /\ outcome = "ok" => Head(queue) \in covered

Inv == RowsOK /\ CatalogOK /\ StarsOK /\ QueueOK

-----------------------------------------------------------------------------
(* The rows a merge reads, and those it gives an id.                       *)

\* The rows of the active instances among the keys of order.
LEMMA ReadsRows ==
  ASSUME RowsOK, NEW order \in Seq(Keys)
  PROVE  /\ \A i \in DOMAIN Reads(order) :
              /\ order[i] \in Range(order) /\ Reads(order)[i] = rows[order[i]]
              /\ Reads(order)[i].key = order[i] /\ rows[order[i]] # None
         /\ \A k \in Range(order) :
              rows[k] # None /\ rows[k].instance \in active
                => \E i \in DOMAIN Reads(order) : order[i] = k
  <1> DEFINE there == Where(order, LAMBDA k : rows[k] # None /\ rows[k].instance \in active)
  <1>1. /\ DOMAIN there = {i \in DOMAIN order :
                             rows[order[i]] # None /\ rows[order[i]].instance \in active}
        /\ \A i \in DOMAIN there : there[i] = order[i]
    BY DEF Where, Restrict
  <1>2. Reads(order) = [i \in DOMAIN there |-> rows[there[i]]]
    BY DEF Reads
  <1> HIDE DEF there
  <1>3. \A i \in DOMAIN Reads(order) :
          /\ i \in DOMAIN order /\ rows[order[i]] # None /\ Reads(order)[i] = rows[order[i]]
    BY <1>1, <1>2
  <1>4. \A i \in DOMAIN order : order[i] \in Keys /\ order[i] \in Range(order)
    BY DEF Range
  <1>5. \A k \in Keys : rows[k] # None => rows[k].key = k
    BY RowsAssumption DEF RowsOK
  <1>6. \A k \in Range(order) :
          rows[k] # None /\ rows[k].instance \in active
            => \E i \in DOMAIN Reads(order) : order[i] = k
    BY <1>1, <1>2 DEF Range
  <1> QED
    BY <1>3, <1>4, <1>5, <1>6

KeysIn(list) == {list[i].key : i \in DOMAIN list}

\* The tracks whose album is read too.
KeysPlaced(lib) ==
  {lib.tracks[i].key : i \in {j \in DOMAIN lib.tracks : lib.tracks[j].album \in KeysIn(lib.albums)}}

LEMMA MergedDomains ==
  ASSUME NEW lib, ~Merged(lib).throws
  PROVE  /\ DOMAIN Merged(lib).ids = Kinds
         /\ DOMAIN Merged(lib).ids["artist"] = KeysIn(lib.artists)
         /\ DOMAIN Merged(lib).ids["album"] = KeysIn(lib.albums)
         /\ DOMAIN Merged(lib).ids["track"] = KeysPlaced(lib)
  <1> DEFINE artists == Artists(lib)
             groups == Groups(lib, artists)
             releases == Releases(lib, groups)
             tracks == Tracks(lib, AlbumArtists(lib, artists), releases)
  <1>1. DOMAIN artists = KeysIn(lib.artists)
    BY DEF Artists, Table, KeysIn
  <1>2. DOMAIN groups = KeysIn(lib.albums)
    BY DEF Groups, Table, KeysIn
  <1>3. DOMAIN releases = KeysIn(lib.albums)
    BY DEF Releases, Table, KeysIn
  <1> HIDE DEF releases, groups, artists
  <1>4. DOMAIN tracks = KeysPlaced(lib)
    <2> DEFINE placed == Where(lib.tracks, LAMBDA t : t.album \in DOMAIN releases)
    <2>1. DOMAIN tracks = {placed[i].key : i \in DOMAIN placed}
      BY DEF Tracks, Table
    <2>2. /\ DOMAIN placed = {j \in DOMAIN lib.tracks : lib.tracks[j].album \in DOMAIN releases}
          /\ \A i \in DOMAIN placed : placed[i] = lib.tracks[i]
      BY DEF Where, Restrict
    <2> HIDE DEF placed, tracks
    <2> QED
      BY <1>3, <2>1, <2>2 DEF KeysPlaced
  <1>5. Merged(lib).ids = [artist |-> artists, album |-> groups, track |-> tracks]
    BY DEF Merged, artists, groups, releases
  <1> HIDE DEF tracks
  <1> QED
    BY <1>1, <1>2, <1>3, <1>4, <1>5 DEF Kinds

LEMMA OrdersAreKeys ==
  \A kind \in Kinds : KeysOf(kind) \subseteq Keys
  <1>1. \A order \in Seq(Keys) : Range(order) \subseteq Keys
    BY DEF Range
  <1> QED
    BY <1>1, OrderAssumption DEF Kinds, KeysOf

\* The keys a merge reads of one table.
LEMMA KeysRead ==
  ASSUME RowsOK, NEW order \in Seq(Keys)
  PROVE  KeysIn(Reads(order)) = {k \in Range(order) : There(k)}
  <1>1. /\ \A i \in DOMAIN Reads(order) :
             /\ order[i] \in Range(order) /\ Reads(order)[i] = rows[order[i]]
             /\ Reads(order)[i].key = order[i] /\ rows[order[i]] # None
        /\ \A k \in Range(order) :
             rows[k] # None /\ rows[k].instance \in active
               => \E i \in DOMAIN Reads(order) : order[i] = k
    BY ReadsRows
  <1>2. \A i \in DOMAIN Reads(order) : rows[order[i]].instance \in active
    BY DEF Reads, Where, Restrict
  <1> QED
    BY <1>1, <1>2 DEF KeysIn, There

\* A merge that does not throw gives an id to the rows it can place, and to no other.
LEMMA MergedCovers ==
  ASSUME RowsOK, ~Merged(Library).throws
  PROVE  LET ids == Merged(Library).ids
         IN  /\ DOMAIN ids = Kinds
             /\ \A kind \in Kinds : DOMAIN ids[kind] = Placeable(kind)
  <1> DEFINE ids == Merged(Library).ids
             as == Reads(RowOrder.artists)
             bs == Reads(RowOrder.albums)
             ts == Reads(RowOrder.tracks)
             albums == KeysIn(bs)
  <1>1. /\ DOMAIN ids = Kinds
        /\ DOMAIN ids["artist"] = KeysIn(as)
        /\ DOMAIN ids["album"] = albums
        /\ DOMAIN ids["track"] = {ts[i].key : i \in {j \in DOMAIN ts : ts[j].album \in albums}}
    <2>1. Library.artists = as /\ Library.albums = bs /\ Library.tracks = ts
      BY DEF Library
    <2>2. KeysPlaced(Library) = {ts[i].key : i \in {j \in DOMAIN ts : ts[j].album \in albums}}
      BY <2>1 DEF KeysPlaced
    <2> HIDE DEF as, bs, ts
    <2> QED
      BY <2>1, <2>2, MergedDomains
  <1>2. /\ RowOrder.artists \in Seq(Keys) /\ RowOrder.albums \in Seq(Keys)
        /\ RowOrder.tracks \in Seq(Keys)
    BY OrderAssumption
  <1>3. KeysIn(as) = Placeable("artist")
    BY <1>2, KeysRead DEF Placeable, KeysOf
  <1>4. albums = Placeable("album") /\ albums = {b \in Range(RowOrder.albums) : There(b)}
    BY <1>2, KeysRead DEF Placeable, KeysOf
  <1>5. DOMAIN ids["track"] = Placeable("track")
    <2>1. \A i \in DOMAIN ts : ts[i] = rows[ts[i].key] /\ ts[i].key \in KeysIn(ts)
      BY <1>2, ReadsRows DEF KeysIn
    <2>2. KeysIn(ts) = {k \in Range(RowOrder.tracks) : There(k)}
      BY <1>2, KeysRead
    <2>3. \A k \in KeysIn(ts) : \E i \in DOMAIN ts : ts[i].key = k
      BY DEF KeysIn
    <2>4. \A k \in KeysIn(ts) : rows[k].album \in Range(RowOrder.albums)
      <3>1. \A k \in Range(RowOrder.tracks) : k \in Keys
        BY <1>2 DEF Range
      <3> QED
        BY <2>2, <3>1, OrderAssumption DEF RowsOK, There
    <2>5. Placeable("track") = {k \in Range(RowOrder.tracks) : There(k) /\ There(rows[k].album)}
      BY DEF Placeable, KeysOf
    <2> HIDE DEF ts, albums, ids
    <2>6. DOMAIN ids["track"] = {k \in KeysIn(ts) : rows[k].album \in albums}
      BY <1>1, <2>1, <2>3
    <2> QED
      BY <1>4, <2>2, <2>4, <2>5, <2>6
  <1> HIDE DEF ids, as, bs, ts, albums
  <1>6. \A kind \in Kinds : DOMAIN ids[kind] = Placeable(kind)
    BY <1>1, <1>3, <1>4, <1>5 DEF Kinds
  <1> QED
    BY <1>1, <1>6 DEF ids

-----------------------------------------------------------------------------
(* The vote of the rows.                                                   *)

\* Of the new ids some row of an old id has, one has no fewer votes than any other.
LEMMA SomeoneWins ==
  ASSUME NEW kind, NEW before, NEW after, NEW old, IsFiniteSet(DOMAIN before[kind]),
         NewIds(kind, before, after, old) # {}
  PROVE  Winners(kind, before, after, old) # {}
  <1> DEFINE voters == Survivors(kind, before, after)
             all == Cardinality(voters)
             ids == NewIds(kind, before, after, old)
             Count(n) == Votes(kind, before, after, old, n)
             R == {q \in ids \X ids : Count(q[1]) < Count(q[2])}
  <1>1. IsFiniteSet(voters) /\ all \in Nat
    <2>1. voters \subseteq DOMAIN before[kind]
      BY DEF Survivors
    <2>2. IsFiniteSet(voters)
      BY <2>1, FS_Subset
    <2> QED
      BY <2>2, FS_CardinalityType
  <1>2. ASSUME NEW n
        PROVE  Count(n) \in Nat /\ Count(n) <= all
    <2> DEFINE votes == {k \in voters : before[kind][k] = old /\ after[kind][k] = n}
    <2>1. votes \subseteq voters /\ Count(n) = Cardinality(votes)
      BY DEF Votes
    <2> HIDE DEF votes, voters
    <2>2. IsFiniteSet(votes) /\ Cardinality(votes) <= Cardinality(voters)
      BY <1>1, <2>1, FS_Subset
    <2>3. Cardinality(votes) \in Nat
      BY <2>2, FS_CardinalityType
    <2> QED
      BY <2>1, <2>2, <2>3
  <1>3. IsFiniteSet(ids)
    <2>1. IsFiniteSet({k \in voters : before[kind][k] = old})
      BY <1>1, FS_Subset
    <2> HIDE DEF voters
    <2> DEFINE D == {k \in voters : before[kind][k] = old}
               f == [k \in D |-> after[kind][k]]
    <2>2. ids = {after[kind][k] : k \in D}
      BY DEF NewIds, voters
    <2>3. f \in Surjection(D, ids)
      BY <2>2 DEF Surjection
    <2> HIDE DEF D, f, ids
    <2>4. IsFiniteSet(D)
      BY <2>1 DEF D
    <2> QED
      BY <2>3, <2>4, FS_Surjection
  <1> HIDE DEF Count, all, voters
  <1>4. \E n \in ids : \A other \in ids : <<n, other>> \notin R
    <2>1. \A x \in ids : <<x, x>> \notin R
      BY <1>2
    <2>2. ASSUME NEW x \in ids, NEW y \in ids, NEW z \in ids, <<x, y>> \in R, <<y, z>> \in R
          PROVE  <<x, z>> \in R
      <3>1. Count(x) \in Nat /\ Count(y) \in Nat /\ Count(z) \in Nat
        BY <1>2
      <3> QED
        BY <2>2, <3>1
    <2> HIDE DEF ids, R
    <2>3. ids # {}
      BY DEF ids
    <2> QED
      BY <1>3, <2>1, <2>2, <2>3, MaximalElement
  <1>5. PICK n \in ids : \A other \in ids : <<n, other>> \notin R
    BY <1>4
  <1>6. \A other \in ids : Count(other) <= Count(n)
    <2> TAKE other \in ids
    <2>1. ~(Count(n) < Count(other))
      BY <1>5
    <2>2. Count(n) \in Nat /\ Count(other) \in Nat
      BY <1>2
    <2> HIDE DEF ids
    <2> QED
      BY <2>1, <2>2
  <1> QED
    BY <1>5, <1>6 DEF Winners, Count

\* A star goes nowhere if no row tells, and with a majority of its rows otherwise.
LEMMA TargetWins ==
  ASSUME NEW before, NEW after, NEW s, IsFiniteSet(DOMAIN before[s[1]])
  PROVE  /\ NewIds(s[1], before, after, s[2]) = {} => Target(before, after, s) = s
         /\ NewIds(s[1], before, after, s[2]) # {} =>
              \E w \in Winners(s[1], before, after, s[2]) : Target(before, after, s) = <<s[1], w>>
  <1>1. NewIds(s[1], before, after, s[2]) # {} => Winners(s[1], before, after, s[2]) # {}
    BY SomeoneWins
  <1> QED
    BY <1>1 DEF Target

\* What the remap holds: the target of every star, and nothing else.
LEMMA RemapIsTargets ==
  ASSUME NEW held, NEW before, NEW after
  PROVE  Remap(held, before, after) = {Target(before, after, s) : s \in held}
  BY DEF Remap

\* A star one of whose rows has an id in the new catalog moves to an id that rows
\* of the new catalog have.
LEMMA TargetResolves ==
  ASSUME NEW before, NEW after, NEW s, s[1] \in Kinds, IsFiniteSet(DOMAIN before[s[1]]),
         NEW k \in Sources(before, s), k \in DOMAIN after[s[1]]
  PROVE  /\ Target(before, after, s) \in IdsOf(after)
         /\ Sources(after, Target(before, after, s)) # {}
  <1>1. k \in Survivors(s[1], before, after) /\ before[s[1]][k] = s[2]
    BY DEF Survivors, Sources
  <1>2. NewIds(s[1], before, after, s[2]) # {}
    BY <1>1 DEF NewIds
  <1>3. Winners(s[1], before, after, s[2]) # {}
    BY <1>2, SomeoneWins
  <1>4. PICK w \in Winners(s[1], before, after, s[2]) : Target(before, after, s) = <<s[1], w>>
    BY <1>2, <1>3 DEF Target
  <1>5. \E x \in DOMAIN after[s[1]] : w = after[s[1]][x]
    BY <1>4 DEF Winners, NewIds, Survivors
  <1>6. <<s[1], w>> \in IdsOf(after)
    BY <1>5 DEF IdsOf
  <1>7. Sources(after, <<s[1], w>>) # {}
    BY <1>5 DEF Sources
  <1> QED
    BY <1>4, <1>6, <1>7

-----------------------------------------------------------------------------
(* The invariant, step by step.                                            *)

LEMMA CatalogIsFinite ==
  ASSUME CatalogOK, NEW kind
  PROVE  kind \in Kinds => IsFiniteSet(DOMAIN catalog[kind])
  <1> SUFFICES ASSUME kind \in Kinds PROVE IsFiniteSet(DOMAIN catalog[kind])
    OBVIOUS
  <1>1. DOMAIN catalog[kind] \subseteq Keys
    BY OrdersAreKeys DEF CatalogOK
  <1> QED
    BY <1>1, RowsAssumption, FS_Subset

LEMMA InitInv == Init => Inv
  <1> SUFFICES ASSUME Init PROVE Inv
    OBVIOUS
  <1>1. RowsOK
    BY FirstRowsAssumption DEF Init, RowsOK
  <1>2. DOMAIN catalog = Kinds /\ \A kind \in Kinds : DOMAIN catalog[kind] = {}
    BY DEF Init, NoRows
  <1>3. CatalogOK
    BY <1>2 DEF CatalogOK
  <1>4. IdsOf(catalog) = {}
    BY <1>2 DEF IdsOf
  <1>5. StarsOK
    BY <1>4 DEF Init, StarsOK, NothingStranded
  <1>6. QueueOK
    BY OutcomeAssumption DEF Init, QueueOK
  <1> QED
    BY <1>1, <1>3, <1>5, <1>6 DEF Inv

LEMMA WriteKeepsInv ==
  ASSUME Inv, NEW k \in Keys, NEW r \in Rows[k], Write(k, r)
  PROVE  Inv'
  <1>1. rows' = [rows EXCEPT ![k] = r]
    BY DEF Write
  <1>2. RowsOK'
    BY <1>1 DEF Inv, RowsOK
  <1>3. UNCHANGED <<active, catalog, unified, stars, queue, outcome, covered, loose>>
    BY DEF Write
  <1>4. CatalogOK' /\ QueueOK'
    BY <1>3 DEF Inv, CatalogOK, QueueOK
  <1>5. StarsOK'
    BY <1>3 DEF Inv, StarsOK, NothingStranded, Sources, IdsOf
  <1> QED
    BY <1>2, <1>4, <1>5 DEF Inv

\* A delete leaves a star that is not loose a source.
LEMMA DeleteKeepsInv ==
  ASSUME Inv, NEW gone, Delete(gone)
  PROVE  Inv'
  <1>1. /\ rows' = [k \in Keys |-> IF k \in gone THEN None ELSE rows[k]]
        /\ catalog' = Without(catalog, gone)
        /\ loose' = loose \cup {s \in stars : /\ Sources(catalog, s) # {}
                                              /\ Sources(catalog, s) \subseteq gone}
        /\ UNCHANGED <<unified, stars, queue, outcome, covered>>
    BY DEF Delete
  <1>2. RowsOK'
    BY <1>1 DEF Inv, RowsOK
  <1>3. /\ DOMAIN catalog' = Kinds
        /\ \A kind \in Kinds :
             /\ DOMAIN catalog'[kind] = DOMAIN catalog[kind] \ gone
             /\ \A k \in DOMAIN catalog'[kind] : catalog'[kind][k] = catalog[kind][k]
    BY <1>1 DEF Without, Restrict
  <1>4. CatalogOK'
    BY <1>3 DEF Inv, CatalogOK
  <1>5. QueueOK'
    BY <1>1 DEF Inv, QueueOK
  <1>6. IdsOf(catalog') \subseteq IdsOf(catalog)
    BY <1>3 DEF IdsOf
  <1>7. ASSUME NEW s \in stars' \ loose'
        PROVE  s \in unified' /\ Sources(catalog', s) # {}
    <2>1. s \in stars /\ s \notin loose /\ s[1] \in Kinds
      BY <1>1, <1>7 DEF Inv, StarsOK
    <2>2. s \in unified /\ Sources(catalog, s) # {}
      BY <2>1 DEF Inv, StarsOK, NothingStranded
    <2>3. PICK k \in Sources(catalog, s) : k \notin gone
      BY <1>1, <1>7, <2>1, <2>2
    <2>4. k \in Sources(catalog', s)
      BY <1>3, <2>1, <2>3 DEF Sources
    <2> QED
      BY <1>1, <2>2, <2>4
  <1>8. StarsOK'
    <2>1. \A s \in stars' : s[1] \in Kinds
      BY <1>1 DEF Inv, StarsOK
    <2>2. IdsOf(catalog)' \subseteq unified'
      BY <1>1, <1>6 DEF Inv, StarsOK, IdsOf
    <2>3. NothingStranded'
      BY <1>7 DEF NothingStranded, Sources
    <2> QED
      BY <2>1, <2>2, <2>3 DEF StarsOK
  <1> QED
    BY <1>2, <1>4, <1>5, <1>8 DEF Inv

\* The steps that leave rows, catalog and stars alone.
LEMMA SameRows ==
  ASSUME Inv, UNCHANGED <<rows, catalog, unified, stars, loose>>
  PROVE  RowsOK' /\ CatalogOK' /\ StarsOK'
  <1>1. RowsOK' /\ CatalogOK'
    BY DEF Inv, RowsOK, CatalogOK
  <1>2. StarsOK'
    BY DEF Inv, StarsOK, NothingStranded, Sources, IdsOf
  <1> QED
    BY <1>1, <1>2

LEMMA StarKeepsInv ==
  ASSUME Inv, NEW s, (s \in unified \cup Stray /\ Star(s)) \/ (s \in stars /\ Unstar(s))
  PROVE  Inv'
  <1>1. UNCHANGED <<rows, active, catalog, unified, queue, outcome, covered>>
    BY DEF Star, Unstar
  <1>2. RowsOK' /\ CatalogOK' /\ QueueOK'
    BY <1>1 DEF Inv, RowsOK, CatalogOK, QueueOK
  <1>3. IdsOf(catalog)' = IdsOf(catalog) /\ \A x : Sources(catalog, x)' = Sources(catalog, x')
    BY <1>1 DEF IdsOf, Sources
  <1>4. \A x \in stars' : x[1] \in Kinds
    BY StarsAssumption DEF Inv, StarsOK, Star, Unstar, Kinds
  <1>5. ASSUME NEW x \in stars' \ loose'
        PROVE  x \in unified' /\ Sources(catalog', x) # {}
    <2>1. CASE x \in stars
      <3>1. x \notin loose
        BY <1>5, <2>1 DEF Star, Unstar
      <3> QED
        BY <1>1, <2>1, <3>1 DEF Inv, StarsOK, NothingStranded
    <2>2. CASE x \notin stars
      <3>1. x = s /\ Star(s) /\ s \in unified \cup Stray /\ s[1] \in Kinds
        BY <1>4, <1>5, <2>2 DEF Star, Unstar
      <3>2. Sources(catalog, s) # {}
        BY <1>5, <3>1 DEF Star
      <3>3. s \in unified
        <4>1. CASE s \in Stray
          <5>1. s = <<s[1], s[2]>>
            BY <4>1, StarsAssumption
          <5>2. \E k \in DOMAIN catalog[s[1]] : s[2] = catalog[s[1]][k]
            BY <3>2 DEF Sources
          <5>3. s \in IdsOf(catalog)
            BY <3>1, <5>1, <5>2 DEF IdsOf
          <5> QED
            BY <5>3 DEF Inv, StarsOK
        <4> QED
          BY <3>1, <4>1
      <3>4. Sources(catalog', s) # {}
        BY <1>1, <3>2
      <3> QED
        BY <1>1, <3>1, <3>3, <3>4
    <2> QED
      BY <2>1, <2>2
  <1>6. StarsOK'
    BY <1>1, <1>3, <1>4, <1>5 DEF Inv, StarsOK, NothingStranded
  <1> QED
    BY <1>2, <1>6 DEF Inv

\* A queue that grows at its end keeps its head.
LEMMA AppendKeepsQueueOK ==
  ASSUME QueueOK, NEW c \in Callers, queue' = Append(queue, c), UNCHANGED <<outcome, covered>>
  PROVE  QueueOK'
  <1>1. queue \in Seq(Callers)
    BY DEF QueueOK
  <1>2. queue' \in Seq(Callers) /\ queue' # <<>>
    BY <1>1
  <1>3. queue # <<>> => Head(queue') = Head(queue)
    BY <1>1
  <1>4. outcome' = "ok" => Head(queue') \in covered'
    BY <1>3, OutcomeAssumption DEF QueueOK
  <1>5. outcome' \in {None, "ok", "failed"}
    BY DEF QueueOK
  <1> QED
    BY <1>2, <1>4, <1>5 DEF QueueOK

LEMMA RequestKeepsInv ==
  ASSUME Inv, NEW c \in Callers,
         Request(c) \/ \E i \in Instances, on \in BOOLEAN : SetActive(i, on, c)
  PROVE  Inv'
  <1>1. /\ queue' = Append(queue, c)
        /\ UNCHANGED <<rows, catalog, unified, stars, outcome, covered, loose>>
    BY DEF Request, SetActive
  <1>2. QueueOK'
    BY <1>1, AppendKeepsQueueOK DEF Inv
  <1> QED
    BY <1>1, <1>2, SameRows DEF Inv

LEMMA RollbackKeepsInv ==
  ASSUME Inv, Rollback
  PROVE  Inv'
  <1>1. QueueOK'
    BY DEF Inv, QueueOK, Rollback
  <1> QED
    BY <1>1, SameRows DEF Inv, Rollback

LEMMA SettleKeepsInv ==
  ASSUME Inv, Settle
  PROVE  Inv'
  <1>1. queue \in Seq(Callers) /\ queue # <<>>
    BY DEF Inv, QueueOK, Settle
  <1>2. queue' \in Seq(Callers)
    BY <1>1 DEF Settle
  <1>3. QueueOK'
    BY <1>2, OutcomeAssumption DEF QueueOK, Settle
  <1> QED
    BY <1>3, SameRows DEF Inv, Settle

LEMMA CommitKeepsInv ==
  ASSUME Inv, Commit
  PROVE  Inv'
  <1> DEFINE ids == Merged(Library).ids
  <1>1. /\ queue # <<>> /\ outcome' = "ok" /\ ~Merged(Library).throws
        /\ catalog' = ids
        /\ IdsOf(ids) \subseteq unified'
        /\ stars' = Remap(stars, catalog, catalog')
        /\ loose' = {Target(catalog, catalog', s) :
                      s \in {x \in stars : Sources(catalog, x) \cap Placeable(x[1]) = {}}}
                   \ IdsOf(catalog')
        /\ covered' = covered \cup Waiting
        /\ UNCHANGED <<rows, active, queue>>
    BY DEF Commit
  <1>2. DOMAIN ids = Kinds /\ \A kind \in Kinds : DOMAIN ids[kind] = Placeable(kind)
    BY <1>1, MergedCovers DEF Inv
  <1> HIDE DEF ids
  <1>3. RowsOK'
    BY <1>1 DEF Inv, RowsOK
  <1>4. CatalogOK'
    BY <1>1, <1>2 DEF CatalogOK, Placeable
  <1>5. QueueOK'
    <2>1. queue \in Seq(Callers)
      BY DEF Inv, QueueOK
    <2>2. Head(queue) = queue[1] /\ 1 \in DOMAIN queue
      BY <1>1, <2>1
    <2>3. Head(queue) \in Waiting
      BY <2>2 DEF Waiting
    <2> QED
      BY <1>1, <2>1, <2>3 DEF QueueOK
  <1>6. stars' = {Target(catalog, catalog', s) : s \in stars}
    BY <1>1, RemapIsTargets
  <1>7. IdsOf(catalog') \subseteq unified'
    BY <1>1
  <1>8. \A t \in IdsOf(catalog') : Sources(catalog', t) # {}
    <2> SUFFICES ASSUME NEW t \in IdsOf(catalog')
                 PROVE  Sources(catalog', t) # {}
      OBVIOUS
    <2>1. PICK kind \in Kinds : t \in {<<kind, catalog'[kind][k]>> : k \in DOMAIN catalog'[kind]}
      BY DEF IdsOf
    <2>2. PICK k \in DOMAIN catalog'[kind] : t = <<kind, catalog'[kind][k]>>
      BY <2>1
    <2>3. t[1] = kind /\ t[2] = catalog'[kind][k]
      BY <2>2
    <2>4. k \in Sources(catalog', t)
      BY <2>2, <2>3 DEF Sources
    <2> QED
      BY <2>4
  <1>9. ASSUME NEW t \in stars' \ loose'
        PROVE  t \in IdsOf(catalog')
    <2>1. PICK s \in stars : t = Target(catalog, catalog', s)
      BY <1>6, <1>9
    <2>2. CASE Sources(catalog, s) \cap Placeable(s[1]) = {}
      BY <1>1, <1>9, <2>1, <2>2
    <2>3. CASE Sources(catalog, s) \cap Placeable(s[1]) # {}
      <3>1. PICK k \in Sources(catalog, s) : k \in Placeable(s[1])
        BY <2>3
      <3>2. s[1] \in Kinds
        BY DEF Inv, StarsOK
      <3>3. k \in DOMAIN catalog'[s[1]]
        BY <1>1, <1>2, <3>1, <3>2
      <3>4. IsFiniteSet(DOMAIN catalog[s[1]])
        BY <3>2, CatalogIsFinite DEF Inv
      <3> QED
        BY <2>1, <3>1, <3>2, <3>3, <3>4, TargetResolves
    <2> QED
      BY <2>2, <2>3
  <1>10. \A t \in stars' : t[1] \in Kinds
    <2> SUFFICES ASSUME NEW s \in stars
                 PROVE  Target(catalog, catalog', s)[1] \in Kinds
      BY <1>6
    <2>1. s[1] \in Kinds
      BY DEF Inv, StarsOK
    <2> QED
      BY <2>1 DEF Target
  <1>11. StarsOK'
    <2>1. IdsOf(catalog)' \subseteq unified'
      BY <1>7 DEF IdsOf
    <2>2. NothingStranded'
      BY <1>7, <1>8, <1>9 DEF NothingStranded, Sources
    <2> QED
      BY <1>10, <2>1, <2>2 DEF StarsOK
  <1> QED
    BY <1>3, <1>4, <1>5, <1>11 DEF Inv

LEMMA NextKeepsInv == Inv /\ [Next]_vars => Inv'
  <1> SUFFICES ASSUME Inv, [Next]_vars
               PROVE  Inv'
    OBVIOUS
  <1>1. CASE \E k \in Keys : \E r \in Rows[k] : Write(k, r)
    BY <1>1, WriteKeepsInv
  <1>2. CASE \/ \E is \in SUBSET Instances : Wipe(is)
             \/ \E i \in Instances, gone \in SUBSET Fleeting : Sweep(i, gone)
    BY <1>2, DeleteKeepsInv DEF Wipe, Sweep
  <1>3. CASE \/ \E i \in Instances, on \in BOOLEAN, c \in Callers : SetActive(i, on, c)
             \/ \E c \in Callers : Request(c)
    BY <1>3, RequestKeepsInv
  <1>4. CASE \/ \E s \in unified \cup Stray : Star(s)
             \/ \E s \in stars : Unstar(s)
    BY <1>4, StarKeepsInv
  <1>5. CASE Commit
    BY <1>5, CommitKeepsInv
  <1>6. CASE Rollback
    BY <1>6, RollbackKeepsInv
  <1>7. CASE Settle
    BY <1>7, SettleKeepsInv
  <1>8. CASE UNCHANGED vars
    <2>1. QueueOK'
      BY <1>8 DEF Inv, QueueOK, vars
    <2> QED
      BY <1>8, <2>1, SameRows DEF Inv, vars
  <1> QED
    BY <1>1, <1>2, <1>3, <1>4, <1>5, <1>6, <1>7, <1>8 DEF Next

LEMMA Invariance == Spec => []Inv
  <1>1. Init => Inv
    BY InitInv
  <1>2. Inv /\ [Next]_vars => Inv'
    BY NextKeepsInv
  <1> QED
    BY <1>1, <1>2, PTL DEF Spec

\* A star that rows back resolves to something rows back for as long as of the rows
\* it then stands for one is left and can be placed, for any libraries, tags, wipes,
\* sweeps and merges (snapshotIdentity, applyRemap, #242).
THEOREM NoStarIsStranded == Spec => []NothingStranded
  <1>1. Inv => NothingStranded
    BY DEF Inv, StarsOK
  <1> QED
    BY <1>1, Invariance, PTL

-----------------------------------------------------------------------------
(* Where stars go, and what a caller was answered.                         *)

StarsMoveWithRows ==
  /\ \A s \in stars :
       IF NewIds(s[1], catalog, catalog', s[2]) = {} THEN s \in stars'
       ELSE \E w \in Winners(s[1], catalog, catalog', s[2]) : <<s[1], w>> \in stars'
  /\ \A s \in stars' :
       \E o \in stars : \/ o = s
                        \/ /\ o[1] = s[1]
                           /\ s[2] \in Winners(s[1], catalog, catalog', o[2])

\* A catalog has finitely many keys, so there is a winner wherever there is a vote.
LEMMA CommitMovesStars ==
  ASSUME Inv, Commit
  PROVE  StarsMoveWithRows
  <1>1. stars' = {Target(catalog, catalog', s) : s \in stars}
    BY RemapIsTargets DEF Commit
  <1>2. ASSUME NEW s \in stars
        PROVE  /\ NewIds(s[1], catalog, catalog', s[2]) = {} => Target(catalog, catalog', s) = s
               /\ NewIds(s[1], catalog, catalog', s[2]) # {} =>
                    \E w \in Winners(s[1], catalog, catalog', s[2]) :
                      Target(catalog, catalog', s) = <<s[1], w>>
    <2>1. IsFiniteSet(DOMAIN catalog[s[1]])
      BY CatalogIsFinite DEF Inv, StarsOK
    <2>2. NewIds(s[1], catalog, catalog', s[2]) # {} => Winners(s[1], catalog, catalog', s[2]) # {}
      BY <2>1, SomeoneWins
    <2> QED
      BY <2>2 DEF Target
  <1>3. \A s \in stars : Target(catalog, catalog', s) \in stars'
    BY <1>1
  <1>4. ASSUME NEW s \in stars'
        PROVE  \E o \in stars : \/ o = s
                                \/ /\ o[1] = s[1]
                                   /\ s[2] \in Winners(s[1], catalog, catalog', o[2])
    <2>1. PICK o \in stars : s = Target(catalog, catalog', o)
      BY <1>1
    <2>2. CASE NewIds(o[1], catalog, catalog', o[2]) = {}
      BY <1>2, <2>1, <2>2
    <2>3. CASE NewIds(o[1], catalog, catalog', o[2]) # {}
      <3>1. PICK w \in Winners(o[1], catalog, catalog', o[2]) : s = <<o[1], w>>
        BY <1>2, <2>1, <2>3
      <3>2. s[1] = o[1] /\ s[2] = w
        BY <3>1
      <3> QED
        BY <3>1, <3>2
    <2> QED
      BY <2>2, <2>3
  <1>5. ASSUME NEW s \in stars
        PROVE  IF NewIds(s[1], catalog, catalog', s[2]) = {} THEN s \in stars'
               ELSE \E w \in Winners(s[1], catalog, catalog', s[2]) : <<s[1], w>> \in stars'
    BY <1>2, <1>3
  <1> QED
    BY <1>4, <1>5 DEF StarsMoveWithRows

\* Each merge moves each star with the majority of its rows: to a new id most of
\* them have, nowhere when no row is left to tell; no star appears that nobody set
\* (computeChangedPairs, applyRemap).
THEOREM StarsMove == Spec => StarsFollowRows
  <1>1. Inv /\ [Next]_vars =>
          [outcome' = "ok" /\ outcome = None =>
             /\ \A s \in stars :
                  IF NewIds(s[1], catalog, catalog', s[2]) = {} THEN s \in stars'
                  ELSE \E w \in Winners(s[1], catalog, catalog', s[2]) : <<s[1], w>> \in stars'
             /\ \A s \in stars' :
                  \E o \in stars : \/ o = s
                                   \/ /\ o[1] = s[1]
                                      /\ s[2] \in Winners(s[1], catalog, catalog', o[2])]_vars
    <2> SUFFICES ASSUME Inv, Next, outcome' = "ok", outcome = None
                 PROVE  StarsMoveWithRows
      BY DEF StarsMoveWithRows
    <2>1. outcome' # outcome /\ outcome' # "failed" /\ outcome' # None
      BY OutcomeAssumption
    <2>2. Commit
      BY <2>1 DEF Next, Write, Wipe, Sweep, Delete, SetActive, Star, Unstar, Request, Rollback, Settle
    <2> QED
      BY <2>2, CommitMovesStars
  <1> QED
    BY <1>1, Invariance, PTL DEF Spec, StarsFollowRows

\* A caller is told "ok" only once a merge was committed that began after it had
\* asked (mergeQueue, no coalescing).
THEOREM AnswersAreMerges == Spec => AnsweredMeansMerged
  <1>1. Inv /\ [Next]_vars =>
          [outcome = "ok" /\ outcome' = None => Waiting \ Waiting' \subseteq covered]_vars
    <2> SUFFICES ASSUME Inv, Next, outcome = "ok", outcome' = None, NEW c \in Waiting \ Waiting'
                 PROVE  c \in covered
      OBVIOUS
    <2>1. outcome' # outcome
      BY OutcomeAssumption
    <2>2. Settle
      BY <2>1 DEF Next, Write, Wipe, Sweep, Delete, SetActive, Star, Unstar, Request, Commit, Rollback
    <2>3. queue \in Seq(Callers) /\ queue # <<>> /\ Head(queue) \in covered
      BY OutcomeAssumption DEF Inv, QueueOK
    <2>4. PICK i \in DOMAIN queue : c = queue[i]
      BY DEF Waiting
    <2>5. i = 1 \/ (i - 1 \in DOMAIN Tail(queue) /\ Tail(queue)[i - 1] = queue[i])
      BY <2>3
    <2>6. i = 1
      <3>1. Waiting' = {queue'[j] : j \in DOMAIN queue'} /\ queue' = Tail(queue)
        BY <2>2 DEF Waiting, Settle
      <3> QED
        BY <2>4, <2>5, <3>1
    <2>7. Head(queue) = queue[1]
      BY <2>3
    <2> QED
      BY <2>3, <2>4, <2>6, <2>7
  <1> QED
    BY <1>1, Invariance, PTL DEF Spec, AnsweredMeansMerged

=============================================================================
