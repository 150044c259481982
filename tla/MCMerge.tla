------------------------------ MODULE MCMerge ------------------------------
EXTENDS MergePipeline

\* The hub's own library holds two tracks whose titles a tag edit can swap or
\* make equal, of a guest, an artist no row is of; a client may keep the guest's id
\* from before. A peer, yet to be synced, has the same album under the guest, with
\* an MBID for it, and a near copy of one track. Its album without its artist
\* makes the merge throw.
Artist(k, i, n, m) == [key |-> k, instance |-> i, name |-> n, mbid |-> m]
Album(k, i, a) == [key |-> k, instance |-> i, artist |-> a,
                   name |-> "Moon", group |-> "g1", mbid |-> "m1", count |-> 2]
Track(k, i, b, title, artist, d) ==
  [key |-> k, instance |-> i, album |-> b, title |-> title, artist |-> artist,
   mbid |-> None, number |-> 1, disc |-> 1, duration |-> d]

MCNormal == [n \in {"Air", "Bo", "Moon", "La", "la", "Si"} |->
               IF n = "la" THEN "La" ELSE n]

MCRowOrder == [artists |-> <<"aL", "aP">>, albums |-> <<"bL", "bP">>,
               tracks |-> <<"t1", "t2", "u1">>]

MCRows ==
  [k \in {"aL", "aP", "bL", "bP", "t1", "t2", "u1"} |->
     CASE k = "aL" -> {Artist("aL", "local", "Air", None)}
       [] k = "aP" -> {Artist("aP", "p", "Bo", "bo1")}
       [] k = "bL" -> {Album("bL", "local", "aL")}
       [] k = "bP" -> {Album("bP", "p", "aP")}
       [] k = "t1" -> {Track("t1", "local", "bL", t, "Bo", 10) : t \in {"La", "Si"}}
       [] k = "t2" -> {Track("t2", "local", "bL", t, "Bo", 10) : t \in {"la", "Si"}}
       [] k = "u1" -> {Track("u1", "p", "bP", "La", None, 11)}]

MCFirstRows ==
  [k \in DOMAIN MCRows |->
     CASE k \in {"aP", "bP", "u1"} -> None
       [] k = "t1" -> Track("t1", "local", "bL", "La", "Bo", 10)
       [] k = "t2" -> Track("t2", "local", "bL", "Si", "Bo", 10)
       [] OTHER -> CHOOSE r \in MCRows[k] : TRUE]

MCStray == {<<"artist", <<"artist", "Bo">>>>}

\* A behaviour is about what is starred of one kind, as no step relates stars of
\* two, and then one caller is enough; or it is about the queue of many callers,
\* and then nothing is starred and the hub's own rows stay as they are.
VARIABLE about

Bound ==
  /\ \A s \in stars : s[1] = about
  /\ about # "queue" => Waiting \subseteq {"c1"}
  /\ about = "queue" => \A k \in {"aL", "bL", "t1", "t2"} : rows[k] = FirstRows[k]

boundedVars == <<vars, about>>

BoundedInit == Init /\ about \in StarKinds \cup {"queue"}

BoundedNext == Next /\ UNCHANGED about /\ Bound'

BoundedSpec == BoundedInit /\ [][BoundedNext]_boundedVars /\ Fairness
=============================================================================
