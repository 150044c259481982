-------------------------------- MODULE ArtCache --------------------------------
(***************************************************************************)
(* The cache of cover art: files on disk, an index of them in the table    *)
(* art_cache, a cap on their bytes, and the requests to /getCoverArt that  *)
(* read and fill it.  Every method runs in one go, so requests meet only   *)
(* where one of them awaits its fetch; a crash shows what lies between a   *)
(* method's writes to the disk and to the table.                           *)
(***************************************************************************)
EXTENDS Integers, FiniteSets

CONSTANTS
  Key,       \* cover and size
  Cover,     \* what an upstream may answer for a key
  Poison,    \* error envelopes an older version cached as covers
  Bytes,     \* Bytes[c]: the size of c
  Cap,       \* values of art_cache_max_bytes
  Fetcher,   \* requests in flight
  Torn,      \* a file a crash left half rewritten
  None

KeyAssumption == IsFiniteSet(Key)
CoverAssumption == None \notin Cover \cup Poison /\ Torn \notin Cover \cup Poison
BytesAssumption == Bytes \in [Cover \cup Poison \cup {Torn} -> Nat] /\ Cap \subseteq Nat

VARIABLES
  rows,      \* art_cache: content_type and size of each key
  files,     \* what is on disk under each key
  old,       \* keys last accessed before the current second
  cap,       \* art_cache_max_bytes
  fetching,  \* fetching[f]: the key f has missed and awaits
  crashed    \* whether a crash ever tore a method (history)

artVars == <<rows, files, old, cap, fetching, crashed>>

Indexed(t) == {k \in Key : t[k] # None}

\* The bytes that table t has under the keys of V, counted one by one.
Size(t, V) == Cardinality(UNION {{k} \X (1 .. Bytes[t[k]]) : k \in V})

Total(t) == Size(t, Indexed(t))

Init ==
  /\ rows \in [Key -> Poison \cup {None}]
  /\ files = rows
  /\ old = Key
  /\ cap \in Cap
  /\ Total(rows) <= cap
  /\ fetching = [f \in Fetcher |-> None]
  /\ crashed = FALSE

-----------------------------------------------------------------------------
(* Eviction.                                                               *)

\* The keys evict may drop from table t under cap m, keep excepted: a
\* shortest beginning of the list by last_accessed that frees enough.  Keys
\* of the same second come in any order.
VictimSets(t, m, keep) ==
  LET entries == Indexed(t) \ keep
      excess == Total(t) - m
      Freed(V) == Size(t, V)
      Oldest(V) == V \subseteq old \/ entries \cap old \subseteq V
      Last(V) == IF V \subseteq old THEN V ELSE V \ old
  IN IF excess <= 0 THEN {{}}
     ELSE {V \in SUBSET entries :
             /\ Oldest(V)
             /\ Freed(V) >= excess \/ V = entries
             /\ V = {} \/ \E k \in Last(V) : Freed(V \ {k}) < excess}

Without(t, V) == [k \in Key |-> IF k \in V THEN None ELSE t[k]]

\* setMaxBytes.
SetCap(m) ==
  \E V \in VictimSets(rows, m, {}) :
    /\ cap' = m
    /\ rows' = Without(rows, V)
    /\ files' = Without(files, V)
    /\ UNCHANGED <<old, fetching, crashed>>

Clear ==
  /\ rows' = [k \in Key |-> None]
  /\ files' = Without(files, Indexed(rows))
  /\ UNCHANGED <<old, cap, fetching, crashed>>

Tick == old # Key /\ old' = Key /\ UNCHANGED <<rows, files, cap, fetching, crashed>>

-----------------------------------------------------------------------------
(* GET /getCoverArt.                                                       *)

Servable(k) == rows[k] # None /\ files[k] # None /\ rows[k] \notin Poison

\* A hit is served at once.
Hit(k) ==
  /\ Servable(k)
  /\ old' = old \ {k}
  /\ UNCHANGED <<rows, files, cap, fetching, crashed>>

\* Nothing indexed, an index row whose file is gone, or a poisoned entry: the
\* row goes, the poisoned file too, and the cover is fetched.
Miss(f, k) ==
  /\ fetching[f] = None
  /\ ~Servable(k)
  /\ fetching' = [fetching EXCEPT ![f] = k]
  /\ rows' = [rows EXCEPT ![k] = None]
  /\ files' = [files EXCEPT ![k] = IF rows[k] = None THEN @ ELSE None]
  /\ UNCHANGED <<old, cap, crashed>>

\* The upstream has no cover, or does not answer.
FetchFails(f) ==
  /\ fetching[f] # None
  /\ fetching' = [fetching EXCEPT ![f] = None]
  /\ UNCHANGED <<rows, files, old, cap, crashed>>

\* Mutant: a conflicting row keeps its type and size.
KeepRow(k, c) == [rows EXCEPT ![k] = IF @ = None THEN c ELSE @]

Upsert(k, c) == [rows EXCEPT ![k] = c]

\* Mutant: room is made before the cover is counted.
VictimsBefore(k, c) == VictimSets(rows, cap, {k})

VictimsOf(k, c) == VictimSets(Upsert(k, c), cap, {k})

\* The cover arrives; put() stores it, whatever another request has stored
\* under its key meanwhile, and evicts others.
Put(f, c) ==
  LET k == fetching[f]
  IN /\ k # None
     /\ \E V \in VictimsOf(k, c) :
          /\ rows' = Without(Upsert(k, c), V)
          /\ files' = Without([files EXCEPT ![k] = c], V)
     /\ old' = old \ {k}
     /\ fetching' = [fetching EXCEPT ![f] = None]
     /\ UNCHANGED <<cap, crashed>>

-----------------------------------------------------------------------------
(* Crashes.  The next boot finds what was written.                         *)

Die == crashed' = TRUE /\ fetching' = [f \in Fetcher |-> None] /\ UNCHANGED <<old, cap>>

\* In put(), while or after the file is written.
DieWriting(f) ==
  /\ fetching[f] # None
  /\ files' = [files EXCEPT ![fetching[f]] = Torn]
  /\ UNCHANGED rows
  /\ Die

\* In put(), after the row and with part of the eviction done: an entry's
\* file goes before its row.
DieEvicting(f, c) ==
  LET k == fetching[f]
  IN /\ k # None
     /\ \E V \in VictimsOf(k, c) : \E done, unlinked \in SUBSET V :
          /\ done \subseteq unlinked /\ Cardinality(unlinked \ done) <= 1
          /\ rows' = Without(Upsert(k, c), done)
          /\ files' = Without([files EXCEPT ![k] = c], unlinked)
     /\ Die

\* In clear(), or in delete(): the rows go last.
DieClearing(S) ==
  /\ S # {} /\ S \subseteq Indexed(rows)
  /\ files' = Without(files, S)
  /\ UNCHANGED rows
  /\ Die

-----------------------------------------------------------------------------
Next ==
  \/ \E m \in Cap : SetCap(m)
  \/ Clear
  \/ Tick
  \/ \E k \in Key : Hit(k)
  \/ \E f \in Fetcher :
       \/ \E k \in Key : Miss(f, k)
       \/ FetchFails(f)
       \/ DieWriting(f)
       \/ \E c \in Cover : Put(f, c) \/ DieEvicting(f, c)
  \/ \E S \in SUBSET Key : DieClearing(S)

Spec == Init /\ [][Next]_artVars

-----------------------------------------------------------------------------
(* Properties.                                                             *)

TypeOK ==
  /\ rows \in [Key -> Cover \cup Poison \cup {None}]
  /\ files \in [Key -> Cover \cup Poison \cup {Torn, None}]
  /\ old \subseteq Key
  /\ cap \in Cap
  /\ fetching \in [Fetcher -> Key \cup {None}]
  /\ crashed \in BOOLEAN

\* The bytes on disk, which only the index counts, stay under the cap or are
\* one cover that exceeds it alone, however fetches of the same key cross.
\* A crash may leave files the index does not know, and they stay.
DiskWithinCap ==
  ~crashed => Total(files) <= cap \/ Cardinality(Indexed(files)) = 1

\* What a hit serves is what the index says it is, even after crashes that
\* took files or rows away.  The exception is a file that a crash left half
\* rewritten while its row stood: a second fetch of the same key.
HitsAreTrue ==
  \A k \in Key : Servable(k) => files[k] = rows[k] \/ (crashed /\ files[k] = Torn)
=============================================================================
