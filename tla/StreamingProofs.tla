--------------------------- MODULE StreamingProofs ---------------------------
(***************************************************************************)
(* Proofs about module Streaming, for any number of requests, sources and  *)
(* rows: its types, that the log matches the answers, that a refusal       *)
(* follows a full walk, and that the walk, the breaker and the log         *)
(* implement the promise of StreamService.                                 *)
(*                                                                         *)
(* The invariant says what a request has at each point of its walk, that   *)
(* no two requests ever got the same row, and that the running rows are    *)
(* exactly those the tracking service holds as active.                     *)
(***************************************************************************)
EXTENDS Streaming, FiniteOrders, FunctionTheorems, FiniteSetTheorems, TLAPS

-----------------------------------------------------------------------------
(* The inductive invariant.                                                *)

Refusals == {404, 502}
Attempts == [source : Source, status : Refusals]
Told == [source : Source \cup {None}, status : {200, 404, 502}]

Walks == [pc : {"new", "next", "waiting", "piping", "done"}, todo : Seq(Source),
          failed : Seq(Attempts), ranked : Seq(Source), told : Told \cup {None}]

LogRows == [second : Nat, source : Source \cup {None},
            ended : {"absent", "no", "ok", "error", "interrupted"}]

TypeOK ==
  /\ inactive \subseteq Peer
  /\ suspect \subseteq Source
  /\ walk \in [Client -> Walks]
  /\ gone \subseteq Client
  /\ proxy \in [Proxy -> {"new", "waiting", "refused", "piping", "served", "dropped"}]

Sources(failed) == {failed[i].source : i \in DOMAIN failed}

\* A walk under way has tried failed, in full, and has todo left, both from ranked.
Walking(w) ==
  /\ w.told = None
  /\ w.todo # <<>>
  /\ Len(w.failed) + Len(w.todo) = Len(w.ranked)
  /\ Range(w.ranked) = Sources(w.failed) \cup Range(w.todo)

\* What a client was told, and when.
WalkOK(w) ==
  /\ w.pc = "new" => w.told = None /\ w.failed = <<>>
  /\ w.pc \in {"next", "waiting"} => Walking(w)
  /\ w.pc = "piping" => w.told # None /\ w.told.status = 200
  /\ w.told # None /\ w.told.status = 200 => w.told.source \in Source

\* A client has a row only once it was told something, a peer once it is piped to.
RowIsLate ==
  /\ \A c \in Client : row[c] # None => walk[c].told # None
  /\ \A p \in Proxy : row[p] # None => proxy[p] \in {"piping", "served"}

\* No two requests were ever given the same row.
RowsAreApart == \A r, q \in Stream : row[r] = row[q] /\ row[r] # None => r = q

RowsAreOwned == \A i \in RowId : rows[i].ended # "absent" => \E r \in Stream : row[r] = i

\* The map of the tracking service holds the rows without an end.
ActiveIsOpen == active = {i \in RowId : rows[i].ended = "no"}

AbsentIsNoRow == \A i \in RowId : rows[i].ended = "absent" => rows[i] = NoRow

LogTypes ==
  /\ row \in [Stream -> RowId \cup {None}]
  /\ rows \in [RowId -> LogRows]
  /\ active \subseteq RowId
  /\ maxRows \in Retention
  /\ second \in Nat

LogInv == LogTypes /\ RowsAreApart /\ RowsAreOwned /\ ActiveIsOpen /\ AbsentIsNoRow

Inv ==
  /\ TypeOK
  /\ \A c \in Client : WalkOK(walk[c])
  /\ RowIsLate
  /\ LogInv
  /\ LogMatchesAnswer

-----------------------------------------------------------------------------
(* Operators on sequences and rows.                                        *)

\* worstFailure is one of the failures, and none has a higher status.
LEMMA WorstIsWorst ==
  ASSUME NEW failed \in Seq(Attempts), failed # <<>>
  PROVE  \E k \in DOMAIN failed :
           /\ Worst(failed) = failed[k]
           /\ \A j \in DOMAIN failed : failed[j].status <= failed[k].status
  <1> DEFINE D == DOMAIN failed
             Outranks(i, j) == failed[i].status > failed[j].status
                               \/ (failed[i].status = failed[j].status /\ i >= j)
             R == {q \in D \X D : ~Outranks(q[1], q[2])}
  <1>1. D = 1 .. Len(failed) /\ Len(failed) \in Nat /\ Len(failed) # 0
    OBVIOUS
  <1>2. IsFiniteSet(D) /\ D # {}
    <2>1. IsFiniteSet(1 .. Len(failed))
      BY <1>1, FS_Interval
    <2> QED
      BY <1>1, <2>1
  <1>3. \A i \in D : failed[i].status \in {404, 502} /\ i \in Nat
    <2>1. \A i \in D : failed[i] \in Attempts /\ i \in Nat
      BY <1>1
    <2> QED
      BY <2>1 DEF Refusals, Attempts
  <1>4. \A x \in D : <<x, x>> \notin R
    BY <1>3
  <1>5. ASSUME NEW x \in D, NEW y \in D, NEW z \in D, <<x, y>> \in R, <<y, z>> \in R
        PROVE  <<x, z>> \in R
    <2>1. ~Outranks(x, y) /\ ~Outranks(y, z)
      BY <1>5
    <2>2. ~Outranks(x, z)
      BY <1>3, <2>1
    <2> QED
      BY <2>2
  <1>6. \E x \in D : \A y \in D : <<x, y>> \notin R
    <2> HIDE DEF D, R
    <2> QED
      BY <1>2, <1>4, <1>5, MaximalElement
  <1>7. \E i \in D : \A j \in D : Outranks(i, j)
    BY <1>6
  <1>8. PICK k \in D : /\ k = CHOOSE i \in D : \A j \in D : Outranks(i, j)
                       /\ \A j \in D : Outranks(k, j)
    BY <1>7
  <1>9. Worst(failed) = failed[k]
    BY <1>8 DEF Worst
  <1>10. ASSUME NEW j \in D
         PROVE  failed[j].status <= failed[k].status
    <2>1. Outranks(k, j)
      BY <1>8
    <2>2. failed[j].status \in Int /\ failed[k].status \in Int
      BY <1>3
    <2> QED
      BY <2>1, <2>2
  <1> QED
    BY <1>9, <1>10

\* order leaves the candidates what they are, and as many.
LEMMA OrderKeepsCandidates ==
  ASSUME NEW ranked \in Seq(Source), NEW order \in Orders(ranked)
  PROVE  order \in Seq(Source) /\ Len(order) = Len(ranked) /\ Range(order) = Range(ranked)
  <1> DEFINE Rank == DOMAIN ranked
  <1>1. PICK p \in Bijection(Rank, Rank) : order = [i \in Rank |-> ranked[p[i]]]
    BY DEF Orders
  <1>2. p \in [Rank -> Rank] /\ \A j \in Rank : \E i \in Rank : p[i] = j
    BY <1>1 DEF Bijection, Injection, Surjection
  <1>3. Rank = 1 .. Len(ranked) /\ Len(ranked) \in Nat
    OBVIOUS
  <1>4. order \in [1 .. Len(ranked) -> Source]
    BY <1>1, <1>2, <1>3
  <1>5. order \in Seq(Source) /\ Len(order) = Len(ranked)
    BY <1>3, <1>4
  <1>6. Range(order) = Range(ranked)
    BY <1>1, <1>2 DEF Range
  <1> QED
    BY <1>5, <1>6

\* Retention takes rows that have ended, whole, and touches no other.
LEMMA PrunedRows ==
  ASSUME NEW rs \in [RowId -> LogRows], NEW max
  PROVE  /\ Pruned(rs, max) \in [RowId -> LogRows]
         /\ \A i \in RowId : \/ Pruned(rs, max)[i] = rs[i]
                             \/ rs[i].ended # "no" /\ Pruned(rs, max)[i] = NoRow
  <1>1. NoRow \in LogRows
    BY DEF NoRow, LogRows
  <1> QED
    BY <1>1 DEF Pruned

-----------------------------------------------------------------------------
(* What the operations of the log do to the rows of the requests.          *)

\* The row of q is as it was, or it had ended and retention took it.
Kept(q) ==
  /\ row'[q] = row[q]
  /\ row[q] # None =>
       \/ rows'[row[q]] = rows[row[q]]
       \/ rows[row[q]].ended # "no" /\ rows'[row[q]] = NoRow

LEMMA UnchangedLog ==
  ASSUME LogInv, UNCHANGED <<log, maxRows, second>>
  PROVE  LogInv' /\ \A q \in Stream : Kept(q)
  BY DEF LogInv, LogTypes, RowsAreApart, RowsAreOwned, ActiveIsOpen, AbsentIsNoRow, log, Kept

LEMMA StartAdds ==
  ASSUME LogInv, NEW r \in Stream, row[r] = None, NEW s \in Source, Start(r, s),
         UNCHANGED <<maxRows, second>>
  PROVE  /\ LogInv'
         /\ \A q \in Stream \ {r} : Kept(q) /\ (row[q] # None => rows'[row[q]] = rows[row[q]])
         /\ row'[r] \in RowId
         /\ rows'[row'[r]] = [second |-> second, source |-> s, ended |-> "no"]
  <1> DEFINE new == [second |-> second, source |-> s, ended |-> "no"]
  <1>t. LogTypes
    BY DEF LogInv
  <1>n. new \in LogRows /\ new.ended = "no"
    BY <1>t DEF LogRows, LogTypes
  <1>1. PICK id \in FreshRow : /\ row' = [row EXCEPT ![r] = id]
                               /\ rows' = [rows EXCEPT ![id] = new]
                               /\ active' = active \cup {id}
    BY DEF Start, Started
  <1>2. id \in RowId /\ id # None /\ \A q \in Stream : row[q] # id
    BY RowAssumption DEF FreshRow
  <1>3. row'[r] = id /\ \A q \in Stream \ {r} : row'[q] = row[q]
    BY <1>1, <1>t DEF LogTypes
  <1>4. rows'[id] = new /\ \A i \in RowId \ {id} : rows'[i] = rows[i]
    BY <1>1, <1>2, <1>t DEF LogTypes
  <1>5. LogTypes'
    BY <1>t, <1>n, <1>1, <1>2 DEF LogTypes
  <1>6. RowsAreApart'
    BY <1>2, <1>3 DEF LogInv, RowsAreApart
  <1>o. RowsAreOwned'
    <2> SUFFICES ASSUME NEW i \in RowId, rows'[i].ended # "absent"
                 PROVE  \E q \in Stream : row'[q] = i
      BY DEF RowsAreOwned
    <2>1. CASE i = id
      BY <1>3, <2>1
    <2>2. CASE i # id
      <3>1. PICK q \in Stream : row[q] = i
        BY <1>4, <2>2 DEF LogInv, RowsAreOwned
      <3>2. q # r
        BY <3>1, RowAssumption
      <3> QED
        BY <1>3, <3>1, <3>2
    <2> QED
      BY <2>1, <2>2
  <1>7. ActiveIsOpen'
    BY <1>1, <1>2, <1>4, <1>n DEF LogInv, ActiveIsOpen
  <1>8. AbsentIsNoRow'
    BY <1>2, <1>4, <1>n DEF LogInv, AbsentIsNoRow
  <1>9. \A q \in Stream \ {r} : Kept(q) /\ (row[q] # None => rows'[row[q]] = rows[row[q]])
    BY <1>2, <1>3, <1>4, <1>t DEF Kept, LogTypes
  <1> QED
    BY <1>2, <1>3, <1>4, <1>5, <1>6, <1>o, <1>7, <1>8, <1>9 DEF LogInv

\* A pruned table keeps what LogInv says of the table it is made from.
LEMMA PruningKeeps ==
  ASSUME NEW rs \in [RowId -> LogRows], NEW max,
         \A i \in RowId : rs[i].ended = "absent" => rs[i] = NoRow
  PROVE  /\ \A i \in RowId : Pruned(rs, max)[i].ended = "absent" => Pruned(rs, max)[i] = NoRow
         /\ {i \in RowId : Pruned(rs, max)[i].ended = "no"} = {i \in RowId : rs[i].ended = "no"}
  <1>1. NoRow.ended = "absent"
    BY DEF NoRow
  <1> QED
    BY <1>1, PrunedRows

LEMMA StartAndFinishAdds ==
  ASSUME LogInv, NEW r \in Stream, row[r] = None, NEW s \in Source, StartAndFinish(r, s),
         UNCHANGED <<maxRows, second>>
  PROVE  /\ LogInv'
         /\ \A q \in Stream \ {r} : Kept(q)
         /\ row'[r] \in RowId
         /\ \/ rows'[row'[r]] = [second |-> second, source |-> s, ended |-> "error"]
            \/ rows'[row'[r]] = NoRow
  <1> DEFINE new == [second |-> second, source |-> s, ended |-> "error"]
  <1>t. LogTypes
    BY DEF LogInv
  <1>n. new \in LogRows /\ new.ended = "error"
    BY <1>t DEF LogRows, LogTypes
  <1>1. PICK id \in FreshRow : /\ row' = [row EXCEPT ![r] = id]
                               /\ rows' = Ended(Started(id, s), id, "error")
                               /\ active' = active
    BY DEF StartAndFinish
  <1> DEFINE rs == [rows EXCEPT ![id] = new]
  <1>2. id \in RowId /\ id # None /\ \A q \in Stream : row[q] # id
    BY <1>1, RowAssumption DEF FreshRow
  <1>3. row'[r] = id /\ \A q \in Stream \ {r} : row'[q] = row[q]
    BY <1>1, <1>t DEF LogTypes
  <1>4. rs \in [RowId -> LogRows] /\ rs[id] = new /\ \A i \in RowId \ {id} : rs[i] = rows[i]
    BY <1>2, <1>n, <1>t DEF LogTypes
  <1>f. rows[id].ended # "no"
    BY <1>2, RowAssumption DEF LogInv, RowsAreOwned
  <1>a. NoRow.ended = "absent"
    BY DEF NoRow
  <1>5. rows' = Pruned(rs, maxRows)
    <2>1. [Started(id, s) EXCEPT ![id].ended = "error"] = rs
      BY <1>2, <1>t DEF Started, LogTypes
    <2> QED
      BY <1>1, <2>1 DEF Ended
  <1>6. /\ rows' \in [RowId -> LogRows]
        /\ \A i \in RowId : rows'[i] = rs[i] \/ (rs[i].ended # "no" /\ rows'[i] = NoRow)
    <2> HIDE DEF rs
    <2> QED
      BY <1>4, <1>5, PrunedRows
  <1>7. LogTypes'
    BY <1>t, <1>1, <1>2, <1>6 DEF LogTypes
  <1>8. RowsAreApart'
    BY <1>2, <1>3 DEF LogInv, RowsAreApart
  <1>9. \A i \in RowId : rs[i].ended = "absent" => rs[i] = NoRow
    BY <1>4, <1>n DEF LogInv, AbsentIsNoRow
  <1>10. AbsentIsNoRow' /\ {i \in RowId : rows'[i].ended = "no"} = {i \in RowId : rs[i].ended = "no"}
    <2> HIDE DEF rs
    <2> QED
      BY <1>4, <1>5, <1>9, PruningKeeps DEF AbsentIsNoRow
  <1>o. RowsAreOwned'
    <2> SUFFICES ASSUME NEW i \in RowId, rows'[i].ended # "absent"
                 PROVE  \E q \in Stream : row'[q] = i
      BY DEF RowsAreOwned
    <2>1. CASE i = id
      BY <1>3, <2>1
    <2>2. CASE i # id
      <3>1. PICK q \in Stream : row[q] = i
        BY <1>4, <1>6, <1>a, <2>2 DEF LogInv, RowsAreOwned
      <3>2. q # r
        BY <3>1, RowAssumption
      <3> QED
        BY <1>3, <3>1, <3>2
    <2> QED
      BY <2>1, <2>2
  <1>11. {i \in RowId : rs[i].ended = "no"} = active
    <2>1. \A i \in active : i # id
      BY <1>2, <1>f DEF LogInv, ActiveIsOpen
    <2> QED
      BY <1>4, <1>n, <2>1 DEF LogInv, ActiveIsOpen
  <1>12. ActiveIsOpen'
    BY <1>1, <1>10, <1>11 DEF ActiveIsOpen
  <1>13. \A q \in Stream \ {r} : Kept(q)
    BY <1>2, <1>3, <1>4, <1>6, <1>t DEF Kept, LogTypes
  <1>14. rows'[id] = new \/ rows'[id] = NoRow
    BY <1>2, <1>4, <1>6
  <1> QED
    BY <1>2, <1>3, <1>7, <1>8, <1>o, <1>10, <1>12, <1>13, <1>14 DEF LogInv

\* A table in which rows that had ended may have gone, and no other row changed.
LEMMA TrimmedLog ==
  ASSUME LogInv, UNCHANGED <<row, active>>, maxRows' \in Retention, second' \in Nat,
         NEW max, rows' = Pruned(rows, max)
  PROVE  LogInv' /\ \A q \in Stream : Kept(q)
  <1>t. LogTypes
    BY DEF LogInv
  <1>0. NoRow.ended = "absent"
    BY DEF NoRow
  <1>1. /\ rows' \in [RowId -> LogRows]
        /\ \A i \in RowId : rows'[i] = rows[i] \/ (rows[i].ended # "no" /\ rows'[i] = NoRow)
    BY <1>t, PrunedRows DEF LogTypes
  <1>2. AbsentIsNoRow' /\ ActiveIsOpen'
    BY <1>t, PruningKeeps DEF LogInv, LogTypes, AbsentIsNoRow, ActiveIsOpen
  <1>3. LogTypes'
    BY <1>t, <1>1 DEF LogTypes
  <1>4. RowsAreApart' /\ RowsAreOwned'
    BY <1>0, <1>1 DEF LogInv, RowsAreApart, RowsAreOwned
  <1>5. \A q \in Stream : Kept(q)
    BY <1>t, <1>1 DEF Kept, LogTypes
  <1> QED
    BY <1>2, <1>3, <1>4, <1>5 DEF LogInv

LEMMA FinishEnds ==
  ASSUME LogInv, NEW r \in Stream, NEW how \in {"ok", "error"}, Finish(r, how),
         UNCHANGED <<maxRows, second>>
  PROVE  /\ LogInv'
         /\ row' = row
         /\ \A q \in Stream \ {r} : Kept(q)
         /\ row[r] \in active =>
              \/ rows'[row[r]] = [rows[row[r]] EXCEPT !.ended = how]
              \/ rows'[row[r]] = NoRow
         /\ row[r] \notin active => rows' = rows
  <1>t. LogTypes
    BY DEF LogInv
  <1>0. NoRow.ended = "absent"
    BY DEF NoRow
  <1>1. CASE row[r] \notin active
    <2>1. rows' = rows /\ active' = active /\ row' = row
      BY <1>1 DEF Finish
    <2>2. UNCHANGED <<log, maxRows, second>>
      BY <2>1 DEF log
    <2> QED
      BY <1>1, <2>1, <2>2, UnchangedLog
  <1>2. CASE row[r] \in active
    <2> DEFINE id == row[r]
               new == [rows[id] EXCEPT !.ended = how]
               rs == [rows EXCEPT ![id] = new]
    <2>1. /\ id \in RowId /\ id # None /\ rows[id].ended = "no" /\ rows[id] \in LogRows
          /\ \A q \in Stream \ {r} : row[q] # id
      BY <1>2, <1>t, RowAssumption DEF LogTypes, LogInv, ActiveIsOpen, RowsAreApart
    <2>2. new \in LogRows /\ new.ended = how
      BY <2>1 DEF LogRows
    <2>3. rs \in [RowId -> LogRows] /\ rs[id] = new /\ \A i \in RowId \ {id} : rs[i] = rows[i]
      BY <2>1, <2>2, <1>t DEF LogTypes
    <2>4. rows' = Pruned(rs, maxRows) /\ active' = active \ {id} /\ row' = row
      <3>1. [rows EXCEPT ![id].ended = how] = rs
        BY <2>1, <1>t DEF LogTypes
      <3> QED
        BY <1>2, <3>1 DEF Finish, Ended
    <2>5. \A i \in RowId : rs[i].ended = "absent" => rs[i] = NoRow
      BY <2>2, <2>3 DEF LogInv, AbsentIsNoRow
    <2>6. {i \in RowId : rs[i].ended = "no"} = active \ {id}
      BY <2>2, <2>3 DEF LogInv, ActiveIsOpen
    <2>7. /\ rows' \in [RowId -> LogRows]
          /\ \A i \in RowId : rows'[i] = rs[i] \/ (rs[i].ended # "no" /\ rows'[i] = NoRow)
          /\ AbsentIsNoRow' /\ {i \in RowId : rows'[i].ended = "no"} = active \ {id}
      <3> HIDE DEF rs
      <3> QED
        BY <2>3, <2>4, <2>5, <2>6, PrunedRows, PruningKeeps DEF AbsentIsNoRow
    <2>8. LogTypes' /\ ActiveIsOpen'
      BY <1>t, <2>4, <2>7 DEF LogTypes, ActiveIsOpen
    <2>9. RowsAreApart'
      BY <2>4 DEF LogInv, RowsAreApart
    <2>10. RowsAreOwned'
      BY <1>0, <2>1, <2>3, <2>4, <2>7 DEF LogInv, RowsAreOwned
    <2>11. ASSUME NEW q \in Stream \ {r}, row[q] # None
           PROVE  Kept(q)
      <3>1. row[q] \in RowId /\ row[q] # id
        BY <1>t, <2>1, <2>11 DEF LogTypes
      <3>2. rs[row[q]] = rows[row[q]]
        BY <2>3, <3>1
      <3>3. rows'[row[q]] = rs[row[q]] \/ (rs[row[q]].ended # "no" /\ rows'[row[q]] = NoRow)
        BY <2>7, <3>1
      <3> HIDE DEF rs
      <3> QED
        BY <2>4, <3>2, <3>3 DEF Kept
    <2>12. rows'[id] = new \/ rows'[id] = NoRow
      BY <2>1, <2>3, <2>7
    <2> QED
      BY <1>2, <2>4, <2>7, <2>8, <2>9, <2>10, <2>11, <2>12 DEF LogInv, Kept
  <1> QED
    BY <1>1, <1>2

\* A boot closes the rows it finds open, and trims.
LEMMA RestartCloses ==
  ASSUME LogInv, Restart
  PROVE  /\ LogInv'
         /\ row' = row
         /\ \A q \in Stream : row[q] # None =>
              \/ /\ rows[row[q]].ended = "no"
                 /\ \/ rows'[row[q]] = [rows[row[q]] EXCEPT !.ended = "interrupted"]
                    \/ rows'[row[q]] = NoRow
              \/ rows[row[q]].ended # "no" /\ Kept(q)
  <1>t. LogTypes
    BY DEF LogInv
  <1>0. NoRow.ended = "absent"
    BY DEF NoRow
  <1> DEFINE rs == [i \in RowId |->
                IF rows[i].ended = "no" THEN [rows[i] EXCEPT !.ended = "interrupted"] ELSE rows[i]]
  <1>1. rows' = Pruned(rs, maxRows) /\ active' = {} /\ row' = row /\ UNCHANGED <<maxRows, second>>
    BY DEF Restart
  <1>2. \A i \in RowId : [rows[i] EXCEPT !.ended = "interrupted"] \in LogRows
    BY <1>t DEF LogTypes, LogRows
  <1>3. rs \in [RowId -> LogRows]
    BY <1>2, <1>t DEF LogTypes
  <1>4. \A i \in RowId : /\ rs[i].ended = "absent" => rs[i] = NoRow
                         /\ rs[i].ended # "no"
                         /\ rows[i].ended = "absent" => rs[i].ended = "absent"
    <2> TAKE i \in RowId
    <2>1. CASE rows[i].ended = "no"
      <3>1. rs[i].ended = "interrupted"
        BY <2>1, <1>t DEF LogTypes, LogRows
      <3> QED
        BY <2>1, <3>1
    <2>2. CASE rows[i].ended # "no"
      BY <2>2 DEF LogInv, AbsentIsNoRow
    <2> QED
      BY <2>1, <2>2
  <1>5. /\ rows' \in [RowId -> LogRows]
        /\ \A i \in RowId : rows'[i] = rs[i] \/ (rs[i].ended # "no" /\ rows'[i] = NoRow)
        /\ AbsentIsNoRow' /\ {i \in RowId : rows'[i].ended = "no"} = {i \in RowId : rs[i].ended = "no"}
    <2> HIDE DEF rs
    <2> QED
      BY <1>1, <1>3, <1>4, PrunedRows, PruningKeeps DEF AbsentIsNoRow
  <1>6. LogTypes' /\ ActiveIsOpen'
    <2> HIDE DEF rs
    <2> QED
      BY <1>t, <1>1, <1>4, <1>5 DEF LogTypes, ActiveIsOpen
  <1>7. RowsAreApart' /\ RowsAreOwned'
    <2>1. \A i \in RowId : rows'[i].ended # "absent" => rows[i].ended # "absent"
      <3> HIDE DEF rs
      <3> QED
        BY <1>0, <1>4, <1>5
    <2> QED
      BY <1>1, <2>1 DEF LogInv, RowsAreApart, RowsAreOwned
  <1>8. ASSUME NEW q \in Stream, row[q] # None
        PROVE  \/ /\ rows[row[q]].ended = "no"
                  /\ \/ rows'[row[q]] = [rows[row[q]] EXCEPT !.ended = "interrupted"]
                     \/ rows'[row[q]] = NoRow
               \/ rows[row[q]].ended # "no" /\ Kept(q)
    <2>1. row[q] \in RowId
      BY <1>8, <1>t DEF LogTypes
    <2>2. CASE rows[row[q]].ended = "no"
      BY <1>5, <2>1, <2>2
    <2>3. CASE rows[row[q]].ended # "no"
      BY <1>1, <1>5, <2>1, <2>3 DEF Kept
    <2> QED
      BY <2>2, <2>3
  <1> QED
    BY <1>1, <1>5, <1>6, <1>7, <1>8 DEF LogInv

LEMMA ClearEmpties ==
  ASSUME LogInv, ClearAll
  PROVE  /\ LogInv'
         /\ row' = row
         /\ \A q \in Stream : row[q] # None => rows'[row[q]] = NoRow
  <1>0. NoRow.ended = "absent" /\ NoRow \in LogRows
    BY DEF NoRow, LogRows
  <1>1. /\ rows' = [i \in RowId |-> NoRow]
        /\ active' = {} /\ row' = row /\ UNCHANGED <<maxRows, second>>
    BY DEF ClearAll
  <1>2. LogInv'
    BY <1>0, <1>1 DEF LogInv, LogTypes, RowsAreApart, RowsAreOwned, ActiveIsOpen, AbsentIsNoRow
  <1> QED
    BY <1>1, <1>2 DEF LogInv, LogTypes

-----------------------------------------------------------------------------
(* The invariant, step by step.                                            *)

\* What LogMatchesAnswer says of one client.
Matches(c) ==
  (row[c] # None /\ rows[row[c]] # NoRow) =>
    /\ rows[row[c]].source = walk[c].told.source
    /\ walk[c].told.status # 200 => rows[row[c]].ended = "error"

LEMMA StillMatches ==
  ASSUME NEW c \in Client, Matches(c), Kept(c),
         row[c] # None => walk'[c].told = walk[c].told
  PROVE  Matches(c)'
  BY DEF Matches, Kept

\* A step of one client: its own walk, and the log with everyone's rows kept.
LEMMA ClientSteps ==
  ASSUME Inv, NEW c \in Client, NEW w \in Walks, walk' = [walk EXCEPT ![c] = w],
         WalkOK(w), UNCHANGED <<inactive, gone, proxy>>, suspect' \subseteq Source,
         LogInv', \A q \in Stream \ {c} : Kept(q),
         row'[c] # None => w.told # None, Matches(c)'
  PROVE  Inv'
  <1>1. walk'[c] = w /\ \A d \in Client \ {c} : walk'[d] = walk[d]
    BY DEF Inv, TypeOK
  <1>2. TypeOK'
    BY DEF Inv, TypeOK
  <1>3. \A d \in Client : WalkOK(walk'[d])
    BY <1>1 DEF Inv
  <1>4. \A d \in Client \ {c} : d \in Stream \ {c} /\ row'[d] = row[d]
    BY DEF Stream, Kept
  <1>5. \A p \in Proxy : p \in Stream \ {c} /\ row'[p] = row[p]
    BY StreamAssumption DEF Stream, Kept
  <1>6. RowIsLate'
    BY <1>1, <1>4, <1>5 DEF Inv, RowIsLate
  <1>7. \A d \in Client : Matches(d)'
    <2> TAKE d \in Client
    <2>1. CASE d = c
      BY <2>1
    <2>2. CASE d # c
      BY <1>1, <1>4, <2>2, StillMatches DEF Inv, LogMatchesAnswer, Matches
    <2> QED
      BY <2>1, <2>2
  <1>8. LogMatchesAnswer'
    BY <1>7 DEF LogMatchesAnswer, Matches
  <1> QED
    BY <1>2, <1>3, <1>6, <1>8 DEF Inv

\* A step of one peer request.
LEMMA ProxySteps ==
  ASSUME Inv, NEW p \in Proxy, NEW v, proxy' = [proxy EXCEPT ![p] = v],
         v \in {"new", "waiting", "refused", "piping", "served", "dropped"},
         UNCHANGED <<inactive, suspect, walk, gone>>,
         LogInv', \A q \in Stream \ {p} : Kept(q),
         row'[p] # None => v \in {"piping", "served"}
  PROVE  Inv'
  <1>1. proxy'[p] = v /\ \A q \in Proxy \ {p} : proxy'[q] = proxy[q]
    BY DEF Inv, TypeOK
  <1>2. TypeOK'
    BY DEF Inv, TypeOK
  <1>3. \A c \in Client : c \in Stream \ {p}
    BY StreamAssumption DEF Stream
  <1>4. \A q \in Proxy \ {p} : row'[q] = row[q]
    BY DEF Stream, Kept
  <1>5. RowIsLate'
    BY <1>1, <1>3, <1>4 DEF Inv, RowIsLate, Kept
  <1>6. \A c \in Client : Matches(c)'
    BY <1>3, StillMatches DEF Inv, LogMatchesAnswer, Matches
  <1>7. LogMatchesAnswer'
    BY <1>6 DEF LogMatchesAnswer, Matches
  <1>8. \A c \in Client : WalkOK(walk'[c])
    BY DEF Inv
  <1> QED
    BY <1>2, <1>5, <1>7, <1>8 DEF Inv

\* A step that leaves the requests alone and keeps everyone's rows.
LEMMA OtherSteps ==
  ASSUME Inv, UNCHANGED <<walk, proxy>>, inactive' \subseteq Peer, suspect' \subseteq Source,
         gone' \subseteq Client, LogInv', \A q \in Stream : Kept(q)
  PROVE  Inv'
  <1>1. TypeOK'
    BY DEF Inv, TypeOK
  <1>2. RowIsLate'
    BY DEF Inv, RowIsLate, Kept, Stream
  <1>3. \A c \in Client : Matches(c)'
    BY StillMatches DEF Inv, LogMatchesAnswer, Matches, Stream
  <1>4. LogMatchesAnswer'
    BY <1>3 DEF LogMatchesAnswer, Matches
  <1>5. \A c \in Client : WalkOK(walk'[c])
    BY DEF Inv
  <1> QED
    BY <1>1, <1>2, <1>4, <1>5 DEF Inv

\* The states Init allows.
LEMMA InvInit == Init => Inv
  <1> SUFFICES ASSUME Init PROVE Inv
    OBVIOUS
  <1>1. \A told \in Told \cup {None} : At("new", told) \in Walks
    BY DEF At, Walks
  <1>2. TypeOK
    BY <1>1 DEF Init, TypeOK
  <1>3. \A c \in Client : WalkOK(walk[c])
    BY DEF Init, WalkOK, At
  <1>4. NoRow \in LogRows /\ NoRow.ended = "absent"
    BY DEF NoRow, LogRows
  <1>5. LogInv
    BY <1>4 DEF Init, LogInv, LogTypes, RowsAreApart, RowsAreOwned, ActiveIsOpen, AbsentIsNoRow, Stream
  <1> QED
    BY <1>2, <1>3, <1>5 DEF Init, Inv, RowIsLate, LogMatchesAnswer, Stream

LEMMA ArriveKeepsInv ==
  ASSUME Inv, NEW c \in Client, Arrive(c)
  PROVE  Inv'
  <1>1. LogInv' /\ \A q \in Stream : Kept(q)
    BY UnchangedLog DEF Inv, Arrive
  <1>2. walk[c] \in Walks /\ walk[c].pc = "new" /\ walk[c].told = None /\ row[c] = None
    BY DEF Inv, Arrive, TypeOK, WalkOK, RowIsLate
  <1>3. row'[c] = None /\ Matches(c)'
    BY <1>1, <1>2 DEF Kept, Matches, Stream
  <1>4. PICK ranked \in Ranking :
          \/ /\ ranked = <<>>
             /\ walk' = [walk EXCEPT ![c] = At("done", [source |-> None, status |-> 404])]
          \/ /\ ranked # <<>>
             /\ \E order \in Orders(ranked) :
                  walk' = [walk EXCEPT ![c].pc = "next", ![c].todo = order, ![c].ranked = ranked]
    BY DEF Arrive
  <1>5. CASE ranked = <<>>
    <2> DEFINE w == At("done", [source |-> None, status |-> 404])
    <2>1. w \in Walks /\ WalkOK(w)
      BY DEF At, Walks, Told, WalkOK
    <2>2. walk' = [walk EXCEPT ![c] = w]
      BY <1>4, <1>5
    <2> HIDE DEF w
    <2> QED
      BY <1>1, <1>3, <2>1, <2>2, ClientSteps DEF Inv, Arrive, TypeOK
  <1>6. CASE ranked # <<>>
    <2>1. PICK order \in Orders(ranked) :
            walk' = [walk EXCEPT ![c].pc = "next", ![c].todo = order, ![c].ranked = ranked]
      BY <1>4, <1>6
    <2>2. ranked \in Seq(Source)
      BY RankingAssumption
    <2>3. order \in Seq(Source) /\ Len(order) = Len(ranked) /\ Range(order) = Range(ranked)
      BY <2>2, OrderKeepsCandidates
    <2> DEFINE w == [walk[c] EXCEPT !.pc = "next", !.todo = order, !.ranked = ranked]
    <2>4. w \in Walks /\ w.told = None /\ w.pc = "next" /\ w.failed = <<>> /\ w.todo = order
          /\ w.ranked = ranked
      BY <1>2, <2>2, <2>3 DEF Inv, WalkOK, Walks
    <2>5. order # <<>>
      BY <1>6, <2>2, <2>3
    <2>6. WalkOK(w)
      <3> HIDE DEF w
      <3>1. DOMAIN w.failed = {} /\ Len(w.failed) = 0
        BY <2>4
      <3> QED
        BY <2>2, <2>3, <2>4, <2>5, <3>1 DEF WalkOK, Walking, Sources
    <2>7. walk' = [walk EXCEPT ![c] = w]
      BY <2>1 DEF Inv, TypeOK
    <2> HIDE DEF w
    <2> QED
      BY <1>1, <1>3, <2>4, <2>6, <2>7, ClientSteps DEF Inv, Arrive, TypeOK
  <1> QED
    BY <1>5, <1>6

Tried(w, status) == Append(w.failed, [source |-> Head(w.todo), status |-> status])

\* A walk one attempt on: what is left is shorter by the attempt that joins the others.
LEMMA NextAttempt ==
  ASSUME NEW w \in Walks, Walking(w), NEW status \in Refusals
  PROVE  /\ Head(w.todo) \in Source /\ Tail(w.todo) \in Seq(Source)
         /\ Tried(w, status) \in Seq(Attempts) /\ Tried(w, status) # <<>>
         /\ Len(Tried(w, status)) + Len(Tail(w.todo)) = Len(w.ranked)
         /\ Range(w.ranked) = Sources(Tried(w, status)) \cup Range(Tail(w.todo))
  <1> DEFINE a == [source |-> Head(w.todo), status |-> status]
             failed == Append(w.failed, a)
             rest == Tail(w.todo)
  <1>1. w.todo \in Seq(Source) /\ w.failed \in Seq(Attempts) /\ w.ranked \in Seq(Source)
        /\ w.todo # <<>>
    BY DEF Walks, Walking
  <1>2. Head(w.todo) \in Source
    BY <1>1
  <1>3. a \in Attempts
    BY <1>2 DEF Attempts
  <1>4. /\ failed \in Seq(Attempts) /\ failed # <<>> /\ Len(failed) = Len(w.failed) + 1
        /\ rest \in Seq(Source) /\ Len(rest) = Len(w.todo) - 1
    <2>1. failed \in Seq(Attempts) /\ failed # <<>> /\ Len(failed) = Len(w.failed) + 1
      <3> HIDE DEF a
      <3> QED
        BY <1>1, <1>3
    <2>2. rest \in Seq(Source) /\ Len(rest) = Len(w.todo) - 1
      BY <1>1
    <2> QED
      BY <2>1, <2>2
  <1>5. Len(failed) + Len(rest) = Len(w.ranked)
    <2> DEFINE m == Len(w.failed)
               n == Len(w.todo)
               k == Len(w.ranked)
               tried == Len(failed)
               left == Len(rest)
    <2>1. m \in Nat /\ n \in Nat /\ k \in Nat
      BY <1>1
    <2>2. m + n = k
      BY DEF Walking
    <2>3. tried = m + 1 /\ left = n - 1
      BY <1>4
    <2> HIDE DEF m, n, k, tried, left
    <2>4. tried + left = k
      BY <2>1, <2>2, <2>3
    <2> QED
      BY <2>4 DEF tried, left, k
  <1>6. Range(w.todo) = {Head(w.todo)} \cup Range(rest)
    <2>1. \A i \in DOMAIN rest : rest[i] = w.todo[i + 1] /\ i + 1 \in DOMAIN w.todo
      BY <1>1
    <2>2. \A i \in DOMAIN w.todo : i = 1 \/ (i - 1 \in DOMAIN rest /\ rest[i - 1] = w.todo[i])
      BY <1>1
    <2>3. Head(w.todo) = w.todo[1] /\ 1 \in DOMAIN w.todo
      BY <1>1
    <2> HIDE DEF rest
    <2> QED
      BY <2>1, <2>2, <2>3 DEF Range
  <1>7. Sources(failed) = Sources(w.failed) \cup {Head(w.todo)}
    <2>1. \A i \in DOMAIN w.failed : i \in DOMAIN failed /\ failed[i] = w.failed[i]
      BY <1>1, <1>3
    <2>2. \A i \in DOMAIN failed : i \in DOMAIN w.failed \/ failed[i] = a
      BY <1>1, <1>3
    <2>3. Len(failed) \in DOMAIN failed /\ failed[Len(failed)] = a
      BY <1>1, <1>3
    <2>4. a.source = Head(w.todo)
      OBVIOUS
    <2> HIDE DEF failed, a
    <2> QED
      BY <2>1, <2>2, <2>3, <2>4 DEF Sources
  <1>8. Range(w.ranked) = Sources(failed) \cup Range(rest)
    BY <1>6, <1>7 DEF Walking
  <1>9. failed = Tried(w, status)
    BY DEF Tried
  <1> HIDE DEF failed
  <1> QED
    BY <1>2, <1>4, <1>5, <1>8, <1>9

LEMMA FailKeepsInv ==
  ASSUME Inv, NEW c \in Client, walk[c].pc \in {"next", "waiting"},
         NEW failure \in Failure, Fail(c, failure)
  PROVE  Inv'
  <1> DEFINE w == walk[c]
             source == Head(w.todo)
             rest == Tail(w.todo)
             failed == Append(w.failed, [source |-> source, status |-> failure.status])
  <1>1. w \in Walks /\ Walking(w) /\ w.told = None /\ row[c] = None
    BY DEF Inv, TypeOK, WalkOK, Walking, RowIsLate
  <1>2. failure.status \in Refusals
    BY DEF Refusals, Failure, HttpFailure, EnvelopeFailure
  <1>3. /\ source \in Source /\ failed \in Seq(Attempts) /\ rest \in Seq(Source) /\ failed # <<>>
        /\ Len(failed) + Len(rest) = Len(w.ranked)
        /\ Range(w.ranked) = Sources(failed) \cup Range(rest)
    <2>1. failed = Tried(w, failure.status)
      BY DEF Tried
    <2> HIDE DEF w, failed
    <2>2. \A status \in Refusals :
            /\ Head(w.todo) \in Source /\ Tail(w.todo) \in Seq(Source)
            /\ Tried(w, status) \in Seq(Attempts) /\ Tried(w, status) # <<>>
            /\ Len(Tried(w, status)) + Len(Tail(w.todo)) = Len(w.ranked)
            /\ Range(w.ranked) = Sources(Tried(w, status)) \cup Range(Tail(w.todo))
      BY <1>1, NextAttempt, Zenon
    <2> QED
      BY <1>2, <2>1, <2>2, Zenon
  <1>4. /\ suspect' \subseteq Source /\ UNCHANGED <<inactive, gone, proxy, maxRows, second>>
        /\ \/ /\ rest # <<>>
              /\ walk' = [walk EXCEPT ![c].pc = "next", ![c].todo = rest, ![c].failed = failed]
              /\ UNCHANGED log
           \/ /\ rest = <<>>
              /\ walk' = [walk EXCEPT ![c] = At("done", Worst(failed))]
              /\ StartAndFinish(c, Worst(failed).source)
    <2>1. suspect \subseteq Source
      BY DEF Inv, TypeOK
    <2> QED
      BY <1>3, <2>1 DEF Fail
  <1> HIDE DEF failed, rest
  <1>5. CASE rest # <<>>
    <2> DEFINE v == [w EXCEPT !.pc = "next", !.todo = rest, !.failed = failed]
    <2>1. /\ v \in Walks /\ v.told = None /\ v.pc = "next" /\ v.todo = rest
          /\ v.failed = failed /\ v.ranked = w.ranked
      BY <1>1, <1>3 DEF Walks
    <2>2. walk' = [walk EXCEPT ![c] = v]
      BY <1>4, <1>5 DEF Inv, TypeOK
    <2> HIDE DEF v, w
    <2>3. WalkOK(v)
      BY <1>3, <1>5, <2>1 DEF WalkOK, Walking
    <2>4. LogInv' /\ \A q \in Stream : Kept(q)
      BY <1>4, <1>5, UnchangedLog DEF Inv
    <2>5. row'[c] = None /\ Matches(c)'
      BY <1>1, <2>4 DEF Kept, Matches, Stream
    <2> QED
      BY <1>4, <2>1, <2>2, <2>3, <2>4, <2>5, ClientSteps
  <1>6. CASE rest = <<>>
    <2> DEFINE told == Worst(failed)
               v == At("done", told)
    <2>1. /\ told \in Attempts
      <3>1. \A k \in DOMAIN failed : failed[k] \in Attempts
        BY <1>3
      <3> QED
        BY <1>3, <3>1, WorstIsWorst
    <2>2. told \in Told /\ told.status # 200 /\ told.source \in Source /\ told # None
      BY <2>1, NoneAssumption DEF Refusals, Attempts, Told
    <2> HIDE DEF told
    <2>3. v \in Walks /\ WalkOK(v) /\ v.told = told
      BY <2>2 DEF At, Walks, WalkOK
    <2>4. walk' = [walk EXCEPT ![c] = v] /\ StartAndFinish(c, told.source)
      BY <1>4, <1>6 DEF told
    <2> HIDE DEF v
    <2>5. /\ LogInv'
          /\ \A q \in Stream \ {c} : Kept(q)
          /\ row'[c] \in RowId
          /\ \/ rows'[row'[c]] = [second |-> second, source |-> told.source, ended |-> "error"]
             \/ rows'[row'[c]] = NoRow
      BY <1>1, <1>4, <2>2, <2>4, StartAndFinishAdds DEF Inv, Stream
    <2>6. walk'[c] = v
      BY <2>4 DEF Inv, TypeOK
    <2>7. Matches(c)'
      BY <2>3, <2>5, <2>6 DEF Matches
    <2> QED
      BY <1>4, <2>2, <2>3, <2>4, <2>5, <2>7, ClientSteps
  <1> QED
    BY <1>5, <1>6

LEMMA WalkKeepsInv ==
  ASSUME Inv, NEW c \in Client,
         GiveUp(c) \/ SkipInactive(c) \/ Ask(c) \/ SourceFails(c) \/ Disconnect(c)
  PROVE  Inv'
  <1>1. walk[c] \in Walks /\ WalkOK(walk[c])
    BY DEF Inv, TypeOK
  <1>2. CASE GiveUp(c)
    <2> DEFINE w == At("done", None)
    <2>1. w \in Walks /\ WalkOK(w) /\ walk' = [walk EXCEPT ![c] = w]
      BY <1>2 DEF At, Walks, WalkOK, GiveUp
    <2>2. LogInv' /\ \A q \in Stream : Kept(q)
      BY <1>2, UnchangedLog DEF Inv, GiveUp
    <2>3. row'[c] = None /\ Matches(c)'
      BY <1>1, <1>2, <2>2 DEF Inv, RowIsLate, WalkOK, Walking, GiveUp, Kept, Matches, Stream
    <2> HIDE DEF w
    <2> QED
      BY <1>2, <2>1, <2>2, <2>3, ClientSteps DEF Inv, TypeOK, GiveUp
  <1>3. CASE SkipInactive(c)
    BY <1>3, FailKeepsInv DEF SkipInactive, Unavailable, Failure, EnvelopeFailure
  <1>4. CASE Ask(c)
    <2> DEFINE w == [walk[c] EXCEPT !.pc = "waiting"]
    <2>1. /\ w \in Walks /\ w.pc = "waiting" /\ w.told = walk[c].told /\ w.todo = walk[c].todo
          /\ w.failed = walk[c].failed /\ w.ranked = walk[c].ranked
      BY <1>1 DEF Walks
    <2>2. walk' = [walk EXCEPT ![c] = w]
      BY <1>4 DEF Ask
    <2> HIDE DEF w
    <2>3. WalkOK(w)
      BY <1>1, <1>4, <2>1 DEF WalkOK, Walking, Ask
    <2>4. LogInv' /\ \A q \in Stream : Kept(q)
      BY <1>4, UnchangedLog DEF Inv, Ask
    <2>5. row'[c] = None /\ Matches(c)'
      BY <1>1, <1>4, <2>4 DEF Inv, RowIsLate, WalkOK, Walking, Ask, Kept, Matches, Stream
    <2> QED
      BY <1>4, <2>1, <2>2, <2>3, <2>4, <2>5, ClientSteps DEF Inv, TypeOK, Ask
  <1>5. CASE SourceFails(c)
    BY <1>5, FailKeepsInv DEF SourceFails
  <1>6. CASE Disconnect(c)
    BY <1>6, OtherSteps, UnchangedLog DEF Inv, TypeOK, Disconnect
  <1> QED
    BY <1>2, <1>3, <1>4, <1>5, <1>6

LEMMA SourceServesKeepsInv ==
  ASSUME Inv, NEW c \in Client, SourceServes(c)
  PROVE  Inv'
  <1> DEFINE source == Head(walk[c].todo)
             told == [source |-> source, status |-> 200]
             w == At("piping", told)
  <1>1. walk[c] \in Walks /\ Walking(walk[c]) /\ row[c] = None
    BY DEF Inv, TypeOK, WalkOK, Walking, RowIsLate, SourceServes
  <1>2. source \in Source
    BY <1>1 DEF Walks, Walking
  <1>3. /\ suspect' \subseteq Source /\ walk' = [walk EXCEPT ![c] = w] /\ Start(c, source)
        /\ UNCHANGED <<inactive, gone, proxy, maxRows, second>>
    BY DEF Inv, TypeOK, SourceServes
  <1> HIDE DEF source
  <1>4. told \in Told /\ told # None /\ told.status = 200 /\ told.source = source
    BY <1>2, NoneAssumption DEF Told
  <1> HIDE DEF told
  <1>5. w \in Walks /\ WalkOK(w) /\ w.told = told
    BY <1>2, <1>4 DEF At, Walks, WalkOK
  <1> HIDE DEF w
  <1>6. /\ LogInv'
        /\ \A q \in Stream \ {c} : Kept(q)
        /\ row'[c] \in RowId
        /\ rows'[row'[c]] = [second |-> second, source |-> source, ended |-> "no"]
    BY <1>1, <1>2, <1>3, StartAdds DEF Inv, Stream
  <1>7. walk'[c] = w
    BY <1>3 DEF Inv, TypeOK
  <1>8. Matches(c)'
    BY <1>4, <1>5, <1>6, <1>7 DEF Matches
  <1> QED
    BY <1>3, <1>4, <1>5, <1>6, <1>8, ClientSteps

LEMMA PipeEndsKeepsInv ==
  ASSUME Inv, NEW c \in Client, PipeEnds(c)
  PROVE  Inv'
  <1> DEFINE w == [walk[c] EXCEPT !.pc = "done"]
  <1>1. /\ walk[c] \in Walks /\ WalkOK(walk[c]) /\ walk[c].pc = "piping"
        /\ walk[c].told # None /\ walk[c].told.status = 200
    BY DEF Inv, TypeOK, WalkOK, PipeEnds
  <1>2. w \in Walks /\ w.pc = "done" /\ w.told = walk[c].told
    BY <1>1 DEF Walks
  <1>3. walk' = [walk EXCEPT ![c] = w]
    BY DEF PipeEnds
  <1> HIDE DEF w
  <1>4. WalkOK(w)
    BY <1>1, <1>2 DEF WalkOK
  <1>5. PICK how \in {"ok", "error"} : Finish(c, how)
    BY DEF PipeEnds
  <1>6. UNCHANGED <<inactive, suspect, gone, proxy, maxRows, second>>
    BY DEF PipeEnds
  <1>7. /\ LogInv'
        /\ row' = row
        /\ \A q \in Stream \ {c} : Kept(q)
        /\ row[c] \in active =>
             \/ rows'[row[c]] = [rows[row[c]] EXCEPT !.ended = how]
             \/ rows'[row[c]] = NoRow
        /\ row[c] \notin active => rows' = rows
    BY <1>5, <1>6, FinishEnds DEF Inv, Stream
  <1>8. walk'[c].told = walk[c].told
    BY <1>2, <1>3 DEF Inv, TypeOK
  <1>9. Matches(c)
    BY DEF Inv, LogMatchesAnswer, Matches
  <1>10. Matches(c)'
    <2>1. CASE row[c] \in active
      <3>1. /\ row[c] \in RowId /\ rows[row[c]] \in LogRows /\ rows[row[c]].ended = "no"
        BY <2>1 DEF Inv, LogInv, LogTypes, ActiveIsOpen
      <3>2. rows[row[c]] # NoRow
        BY <3>1 DEF NoRow
      <3>3. [rows[row[c]] EXCEPT !.ended = how].source = rows[row[c]].source
        BY <3>1 DEF LogRows
      <3>4. row[c] # None /\ rows[row[c]].source = walk[c].told.source
        BY <1>9, <3>1, <3>2, RowAssumption DEF Matches
      <3>5. rows'[row[c]] = NoRow \/ rows'[row[c]].source = walk[c].told.source
        BY <1>7, <2>1, <3>3, <3>4
      <3> QED
        BY <1>1, <1>7, <1>8, <3>5 DEF Matches
    <2>2. CASE row[c] \notin active
      BY <1>7, <1>8, <1>9, <2>2 DEF Matches
    <2> QED
      BY <2>1, <2>2
  <1> QED
    BY <1>1, <1>2, <1>3, <1>4, <1>6, <1>7, <1>10, ClientSteps DEF Inv, TypeOK

LEMMA ProxyKeepsInv ==
  ASSUME Inv, NEW p \in Proxy, ProxyArrive(p) \/ ProxyAnswered(p) \/ ProxyEnds(p)
  PROVE  Inv'
  <1>0. p \in Stream /\ suspect \subseteq Source
    BY DEF Inv, TypeOK, Stream
  <1>1. CASE ProxyArrive(p)
    <2>1. LogInv' /\ \A q \in Stream : Kept(q)
      BY <1>1, UnchangedLog DEF Inv, ProxyArrive
    <2>2. row'[p] = None
      BY <1>0, <1>1, <2>1 DEF Inv, RowIsLate, Kept, ProxyArrive
    <2> QED
      BY <1>1, <2>1, <2>2, ProxySteps DEF ProxyArrive
  <1>2. CASE ProxyAnswered(p)
    <2>1. row[p] = None
      BY <1>2 DEF Inv, RowIsLate, ProxyAnswered
    <2>2. CASE UNCHANGED log
      <3>1. LogInv' /\ \A q \in Stream : Kept(q)
        BY <1>2, <2>2, UnchangedLog DEF Inv, ProxyAnswered
      <3>2. row'[p] = None
        BY <1>0, <2>1, <3>1 DEF Kept
      <3>3. PICK v \in {"refused", "piping"} : proxy' = [proxy EXCEPT ![p] = v]
        BY <1>2 DEF ProxyAnswered
      <3> QED
        BY <1>2, <3>1, <3>2, <3>3, ProxySteps DEF ProxyAnswered
    <2>3. CASE Start(p, Local) /\ proxy' = [proxy EXCEPT ![p] = "piping"]
      <3>1. LogInv' /\ \A q \in Stream \ {p} : Kept(q)
        BY <1>0, <1>2, <2>1, <2>3, StartAdds DEF Inv, ProxyAnswered, Source
      <3> QED
        BY <1>2, <2>3, <3>1, ProxySteps DEF ProxyAnswered
    <2> QED
      BY <1>2, <2>2, <2>3 DEF ProxyAnswered
  <1>3. CASE ProxyEnds(p)
    <2>1. PICK how \in {"ok", "error"} : Finish(p, how)
      BY <1>3 DEF ProxyEnds
    <2>2. LogInv' /\ \A q \in Stream \ {p} : Kept(q)
      BY <1>0, <1>3, <2>1, FinishEnds DEF Inv, ProxyEnds
    <2> QED
      BY <1>3, <2>2, ProxySteps DEF ProxyEnds
  <1> QED
    BY <1>1, <1>2, <1>3

LEMMA EnvironmentKeepsInv ==
  ASSUME Inv,
         \/ \E n \in Retention : SetMaxRows(n)
         \/ Tick
         \/ \E s \in Source : Cool(s)
         \/ \E p \in Peer : SetLifecycle(p)
         \/ UNCHANGED vars
  PROVE  Inv'
  <1>t. TypeOK /\ LogInv /\ second + 1 \in Nat
    BY DEF Inv, LogInv, LogTypes
  <1>1. CASE \E n \in Retention : SetMaxRows(n)
    <2>1. PICK n \in Retention : SetMaxRows(n)
      BY <1>1
    <2>2. LogInv' /\ \A q \in Stream : Kept(q)
      BY <1>t, <2>1, TrimmedLog DEF LogInv, LogTypes, SetMaxRows
    <2> QED
      BY <1>t, <2>1, <2>2, OtherSteps DEF TypeOK, SetMaxRows
  <1>2. CASE Tick
    <2>1. LogInv' /\ \A q \in Stream : Kept(q)
      BY <1>t, <1>2 DEF Tick, LogInv, LogTypes, RowsAreApart, RowsAreOwned, ActiveIsOpen,
                        AbsentIsNoRow, log, Kept
    <2> QED
      BY <1>t, <1>2, <2>1, OtherSteps DEF TypeOK, Tick
  <1>3. CASE \E s \in Source : Cool(s)
    BY <1>t, <1>3, OtherSteps, UnchangedLog DEF TypeOK, Cool
  <1>4. CASE \E p \in Peer : SetLifecycle(p)
    BY <1>t, <1>4, OtherSteps, UnchangedLog DEF TypeOK, SetLifecycle
  <1>5. CASE UNCHANGED vars
    BY <1>t, <1>5, OtherSteps, UnchangedLog DEF TypeOK, vars
  <1> QED
    BY <1>1, <1>2, <1>3, <1>4, <1>5

LEMMA ClearKeepsInv ==
  ASSUME Inv, ClearAll
  PROVE  Inv'
  <1>1. LogInv' /\ row' = row /\ \A q \in Stream : row[q] # None => rows'[row[q]] = NoRow
    BY ClearEmpties DEF Inv
  <1>2. TypeOK' /\ RowIsLate' /\ \A c \in Client : WalkOK(walk'[c])
    BY DEF Inv, TypeOK, RowIsLate, ClearAll
  <1>3. LogMatchesAnswer'
    BY <1>1 DEF LogMatchesAnswer, Stream
  <1> QED
    BY <1>1, <1>2, <1>3 DEF Inv

\* What a boot leaves of a walk, and of a peer request.
LEMMA RestartEnds ==
  ASSUME Inv, Restart
  PROVE  /\ \A c \in Client : /\ walk'[c] \in Walks /\ walk'[c].told = walk[c].told
                              /\ WalkOK(walk'[c])
                              /\ walk[c].pc = "new" => walk'[c] = walk[c]
                              /\ walk[c].pc # "new" => walk'[c].pc = "done"
         /\ \A p \in Proxy :
              \/ proxy'[p] = proxy[p] /\ proxy[p] \notin {"waiting", "piping"}
              \/ proxy[p] = "waiting" /\ proxy'[p] = "dropped"
              \/ proxy[p] = "piping" /\ proxy'[p] = "served"
         /\ DOMAIN walk' = Client /\ DOMAIN proxy' = Proxy
  <1>1. ASSUME NEW c \in Client
        PROVE  /\ walk'[c] \in Walks /\ walk'[c].told = walk[c].told
               /\ WalkOK(walk'[c])
               /\ walk[c].pc = "new" => walk'[c] = walk[c]
               /\ walk[c].pc # "new" => walk'[c].pc = "done"
    <2>1. walk[c] \in Walks /\ WalkOK(walk[c])
      BY DEF Inv, TypeOK
    <2>2. CASE walk[c].pc = "new"
      <3>1. walk'[c] = walk[c]
        BY <2>2 DEF Restart
      <3> QED
        BY <2>1, <2>2, <3>1
    <2>3. CASE walk[c].pc # "new"
      <3> DEFINE w == At("done", walk[c].told)
      <3>1. walk'[c] = w
        BY <2>3 DEF Restart
      <3>2. walk[c].told \in Told \cup {None}
        BY <2>1 DEF Walks
      <3>3. w \in Walks /\ w.told = walk[c].told /\ w.pc = "done"
        BY <3>2 DEF At, Walks
      <3> HIDE DEF w
      <3>4. WalkOK(w)
        BY <2>1, <3>3 DEF WalkOK
      <3> QED
        BY <2>3, <3>1, <3>3, <3>4
    <2> QED
      BY <2>2, <2>3
  <1>2. \A p \in Proxy :
          \/ proxy'[p] = proxy[p] /\ proxy[p] \notin {"waiting", "piping"}
          \/ proxy[p] = "waiting" /\ proxy'[p] = "dropped"
          \/ proxy[p] = "piping" /\ proxy'[p] = "served"
    BY DEF Restart
  <1> QED
    BY <1>1, <1>2 DEF Restart

LEMMA RestartKeepsInv ==
  ASSUME Inv, Restart
  PROVE  Inv'
  <1>1. /\ LogInv'
        /\ row' = row
        /\ \A q \in Stream : row[q] # None =>
             \/ /\ rows[row[q]].ended = "no"
                /\ \/ rows'[row[q]] = [rows[row[q]] EXCEPT !.ended = "interrupted"]
                   \/ rows'[row[q]] = NoRow
             \/ rows[row[q]].ended # "no" /\ Kept(q)
    BY RestartCloses DEF Inv
  <1>2. /\ inactive' \subseteq Peer /\ suspect' \subseteq Source /\ gone' \subseteq Client
        /\ \A p \in Proxy :
             proxy'[p] \in {"new", "waiting", "refused", "piping", "served", "dropped"}
    BY RestartEnds DEF Inv, TypeOK, Restart
  <1>3. TypeOK' /\ \A c \in Client : WalkOK(walk'[c])
    BY <1>2, RestartEnds DEF TypeOK, Restart
  <1>4. RowIsLate'
    BY <1>1, RestartEnds DEF Inv, RowIsLate
  <1>5. ASSUME NEW c \in Client
        PROVE  Matches(c)'
    <2>1. Matches(c) /\ c \in Stream /\ walk'[c].told = walk[c].told
      BY RestartEnds DEF Inv, LogMatchesAnswer, Matches, Stream
    <2>2. CASE row[c] = None
      BY <1>1, <2>2 DEF Matches
    <2>3. CASE row[c] # None /\ rows[row[c]].ended = "no"
      <3>1. row[c] \in RowId /\ rows[row[c]] \in LogRows
        BY <2>1, <2>3 DEF Inv, LogInv, LogTypes
      <3>2. rows[row[c]] # NoRow
        BY <2>3 DEF NoRow
      <3>3. /\ rows[row[c]].source = walk[c].told.source
            /\ walk[c].told.status # 200 => rows[row[c]].ended = "error"
        BY <2>1, <2>3, <3>2 DEF Matches
      <3>4. [rows[row[c]] EXCEPT !.ended = "interrupted"].source = rows[row[c]].source
        BY <3>1 DEF LogRows
      <3>5. rows'[row[c]] = NoRow \/ rows'[row[c]].source = walk[c].told.source
        BY <1>1, <2>1, <2>3, <3>3, <3>4 DEF Kept
      <3> QED
        BY <1>1, <2>1, <2>3, <3>3, <3>5 DEF Matches
    <2>4. CASE row[c] # None /\ rows[row[c]].ended # "no"
      BY <1>1, <2>1, <2>4, StillMatches
    <2> QED
      BY <2>2, <2>3, <2>4
  <1>6. LogMatchesAnswer'
    BY <1>5 DEF LogMatchesAnswer, Matches
  <1> QED
    BY <1>1, <1>3, <1>4, <1>6 DEF Inv

LEMMA NextKeepsInv == Inv /\ [Next]_vars => Inv'
  <1> SUFFICES ASSUME Inv, [Next]_vars
               PROVE  Inv'
    OBVIOUS
  <1>1. ASSUME NEW c \in Client,
               \/ Arrive(c) \/ GiveUp(c) \/ SkipInactive(c) \/ Ask(c) \/ SourceFails(c)
               \/ SourceServes(c) \/ Disconnect(c) \/ PipeEnds(c)
        PROVE  Inv'
    BY <1>1, ArriveKeepsInv, WalkKeepsInv, SourceServesKeepsInv, PipeEndsKeepsInv
  <1>2. ASSUME NEW p \in Proxy, ProxyArrive(p) \/ ProxyAnswered(p) \/ ProxyEnds(p)
        PROVE  Inv'
    BY <1>2, ProxyKeepsInv
  <1>3. CASE ClearAll
    BY <1>3, ClearKeepsInv
  <1>4. CASE Restart
    BY <1>4, RestartKeepsInv
  <1>5. CASE \/ \E n \in Retention : SetMaxRows(n)
             \/ Tick
             \/ \E s \in Source : Cool(s)
             \/ \E p \in Peer : SetLifecycle(p)
             \/ UNCHANGED vars
    BY <1>5, EnvironmentKeepsInv
  <1> QED
    BY <1>1, <1>2, <1>3, <1>4, <1>5 DEF Next

\* What the walk, the log and the peer requests are made of, in every reachable
\* state, and what relates them: no row is shared, the tracking service's map holds
\* the rows without an end, and a walk under way splits the ranked sources into the
\* tried and the untried (handleStream, StreamTrackingService).
THEOREM StreamingInvariant == Spec => []Inv
  <1>1. Init => Inv
    BY InvInit
  <1>2. Inv /\ [Next]_vars => Inv'
    BY NextKeepsInv
  <1> QED
    BY <1>1, <1>2, PTL DEF Spec

\* The row of a request names the source its client was served by, or the one
\* whose failure it was told, and an error stays an error (stream.ts, finish).
THEOREM LogIsTrue == Spec => []LogMatchesAnswer
  <1>1. Inv => LogMatchesAnswer
    BY DEF Inv
  <1> QED
    BY <1>1, StreamingInvariant, PTL

-----------------------------------------------------------------------------
(* Refusals.                                                               *)

\* What RefusedAfterAll says of one client in one step.
RefusedOK(c) ==
  (walk[c].pc \in {"next", "waiting"} /\ walk'[c].told # None /\ walk'[c].told.status # 200) =>
    LET before == walk[c].failed
        Attempt(i) == before[i].source
    IN /\ Range(walk[c].ranked) = {Attempt(i) : i \in DOMAIN before} \cup {Head(walk[c].todo)}
       /\ Len(before) + 1 = Len(walk[c].ranked)
       /\ walk'[c].told.status = 404 => \A i \in DOMAIN before : before[i].status = 404

\* The attempt that uses up the candidates is the only one that refuses.
LEMMA LastFailureRefuses ==
  ASSUME Inv, NEW c \in Client, walk[c].pc \in {"next", "waiting"},
         NEW failure \in Failure, Fail(c, failure)
  PROVE  RefusedOK(c)
  <1> DEFINE w == walk[c]
             rest == Tail(w.todo)
             failed == Tried(w, failure.status)
  <1>1. w \in Walks /\ Walking(w) /\ w.told = None
    BY DEF Inv, TypeOK, WalkOK, Walking
  <1>2. failure.status \in Refusals
    BY DEF Refusals, Failure, HttpFailure, EnvelopeFailure
  <1>3. w.todo \in Seq(Source) /\ w.failed \in Seq(Attempts) /\ w.ranked \in Seq(Source)
        /\ w.todo # <<>>
    BY <1>1 DEF Walks, Walking
  <1>4. CASE rest # <<>>
    <2>1. walk' = [walk EXCEPT ![c].pc = "next", ![c].todo = rest, ![c].failed = failed]
      BY <1>4 DEF Fail, Tried
    <2>2. walk'[c].told = None
      BY <1>1, <2>1 DEF Inv, TypeOK, Walks
    <2> QED
      BY <2>2 DEF RefusedOK
  <1>5. CASE rest = <<>>
    <2>1. walk' = [walk EXCEPT ![c] = At("done", Worst(failed))]
      BY <1>5 DEF Fail, Tried
    <2>2. walk'[c].told = Worst(failed)
      BY <2>1 DEF Inv, TypeOK, At
    <2>3. Len(w.todo) = 1
      <3> DEFINE todo == w.todo
                 n == Len(todo)
      <3>1. todo \in Seq(Source) /\ todo # <<>> /\ Tail(todo) = <<>>
        BY <1>3, <1>5
      <3> HIDE DEF todo
      <3>2. n \in Nat /\ n # 0
        BY <3>1
      <3>3. Len(Tail(todo)) = n - 1
        BY <3>1
      <3>4. n - 1 = 0
        BY <3>1, <3>3
      <3> QED
        BY <3>2, <3>4 DEF todo
    <2>4. Range(w.todo) = {Head(w.todo)}
      BY <1>3, <2>3 DEF Range
    <2>5. Range(w.ranked) = {w.failed[i].source : i \in DOMAIN w.failed} \cup {Head(w.todo)}
      BY <1>1, <2>4 DEF Walking, Sources
    <2>6. Len(w.failed) + 1 = Len(w.ranked)
      BY <1>1, <2>3 DEF Walking
    <2>7. failed \in Seq(Attempts) /\ failed # <<>>
      <3> HIDE DEF w
      <3> QED
        BY <1>1, <1>2, NextAttempt, Zenon
    <2>8. \A i \in DOMAIN w.failed : i \in DOMAIN failed /\ failed[i] = w.failed[i]
      BY <1>3 DEF Tried
    <2>9. PICK k \in DOMAIN failed :
            /\ Worst(failed) = failed[k]
            /\ \A j \in DOMAIN failed : failed[j].status <= failed[k].status
      <3> HIDE DEF failed
      <3> QED
        BY <2>7, WorstIsWorst
    <2>10. \A j \in DOMAIN failed : failed[j].status \in {404, 502}
      <3>1. \A j \in DOMAIN failed : failed[j] \in Attempts
        BY <2>7
      <3> QED
        BY <3>1 DEF Attempts, Refusals
    <2>11. Worst(failed).status = 404 => \A i \in DOMAIN w.failed : w.failed[i].status = 404
      <3> HIDE DEF failed
      <3> QED
        BY <2>8, <2>9, <2>10
    <2> HIDE DEF failed
    <2> QED
      BY <2>2, <2>5, <2>6, <2>11 DEF RefusedOK
  <1> QED
    BY <1>4, <1>5

\* A step that tells a walking client nothing but what it was told, or that it is served.
LEMMA ToldNothing ==
  ASSUME Inv, NEW c \in Client,
         walk'[c].told = walk[c].told \/ walk'[c].told = None \/ walk'[c].told.status = 200
  PROVE  RefusedOK(c)
  <1>1. walk[c].pc \in {"next", "waiting"} => walk[c].told = None
    BY DEF Inv, WalkOK, Walking
  <1>2. ~(walk[c].pc \in {"next", "waiting"} /\ walk'[c].told # None /\ walk'[c].told.status # 200)
    BY <1>1
  <1> QED
    BY <1>2, Zenon DEF RefusedOK

LEMMA NextRefusesAfterAll ==
  ASSUME Inv, [Next]_vars, NEW c \in Client
  PROVE  RefusedOK(c)
  <1>w. walk \in [Client -> Walks]
    BY DEF Inv, TypeOK
  <1>1. ASSUME NEW d \in Client, d # c,
               \/ Arrive(d) \/ GiveUp(d) \/ SkipInactive(d) \/ Ask(d) \/ SourceFails(d)
               \/ SourceServes(d) \/ Disconnect(d) \/ PipeEnds(d)
        PROVE  RefusedOK(c)
    <2>1. walk'[c] = walk[c]
      BY <1>1, <1>w DEF Arrive, GiveUp, SkipInactive, Ask, SourceFails, Fail, SourceServes,
                        Disconnect, PipeEnds
    <2> QED
      BY <2>1, ToldNothing
  <1>2. CASE Arrive(c) \/ PipeEnds(c)
    BY <1>2 DEF Arrive, PipeEnds, RefusedOK
  <1>3. CASE GiveUp(c)
    <2>1. walk'[c].told = None
      BY <1>3, <1>w DEF GiveUp, At
    <2> QED
      BY <2>1, ToldNothing
  <1>4. CASE SkipInactive(c)
    BY <1>4, LastFailureRefuses DEF SkipInactive, Unavailable, Failure, EnvelopeFailure
  <1>5. CASE SourceFails(c)
    BY <1>5, LastFailureRefuses DEF SourceFails
  <1>6. CASE Ask(c)
    <2>1. walk'[c].told = walk[c].told
      BY <1>6, <1>w DEF Ask, Walks
    <2> QED
      BY <2>1, ToldNothing
  <1>7. CASE SourceServes(c)
    <2>1. walk'[c].told.status = 200
      BY <1>7, <1>w DEF SourceServes, At
    <2> QED
      BY <2>1, ToldNothing
  <1>8. CASE walk' = walk
    BY <1>8, ToldNothing
  <1>9. CASE Restart
    BY <1>9, RestartEnds, ToldNothing
  <1>10. \/ \E p \in Proxy : ProxyArrive(p) \/ ProxyAnswered(p) \/ ProxyEnds(p)
         \/ \E n \in Retention : SetMaxRows(n)
         \/ ClearAll \/ Tick
         \/ \E s \in Source : Cool(s)
         \/ \E p \in Peer : SetLifecycle(p)
         \/ UNCHANGED vars
         \/ Disconnect(c)
         => walk' = walk
    BY DEF ProxyArrive, ProxyAnswered, ProxyEnds, SetMaxRows, ClearAll, Tick, Cool, SetLifecycle,
           vars, Disconnect
  <1> QED
    BY <1>1, <1>2, <1>3, <1>4, <1>5, <1>6, <1>7, <1>8, <1>9, <1>10 DEF Next

\* A client is refused only after every ranked source was tried, and is told "not
\* found" only when every one said so (handleStream, worstFailure).
THEOREM RefusalsAreThorough == Spec => RefusedAfterAll
  <1>1. Inv /\ [Next]_vars => \A c \in Client : RefusedOK(c)
    BY NextRefusesAfterAll
  <1>2. Inv /\ [Next]_vars =>
          [\A c \in Client :
             (walk[c].pc \in {"next", "waiting"} /\ walk'[c].told # None
              /\ walk'[c].told.status # 200) =>
               LET before == walk[c].failed
                   Attempt(i) == before[i].source
               IN /\ Range(walk[c].ranked)
                       = {Attempt(i) : i \in DOMAIN before} \cup {Head(walk[c].todo)}
                  /\ Len(before) + 1 = Len(walk[c].ranked)
                  /\ walk'[c].told.status = 404
                       => \A i \in DOMAIN before : before[i].status = 404]_vars
    BY <1>1 DEF RefusedOK
  <1> QED
    BY <1>2, StreamingInvariant, PTL DEF Spec, RefusedAfterAll

-----------------------------------------------------------------------------
(* The walk and the log implement StreamService.  The mapping is pointwise,  *)
(* so each action of the promise is stated on Answer and Entry.              *)

SameAnswer(r) == Answer(r)' = Answer(r)
SameEntry(r) == Entry(r)' = Entry(r)
Trimmed(r) == SameEntry(r) \/ (Entry(r) = "closed" /\ Entry(r)' = "forgotten")

LEMMA ServeMaps ==
  ASSUME NEW r \in Stream, NEW s \in Source, Answer(r) = None, Answer(r)' = s,
         \A q \in Stream \ {r} : SameAnswer(q) /\ SameEntry(q),
         Entry(r)' = "open" \/ SameEntry(r)
  PROVE  Service!Next
  <1>1. Service!Serve(r, s)
    BY DEF Service!Serve, SameAnswer, SameEntry
  <1> QED
    BY <1>1 DEF Service!Next

LEMMA RefuseMaps ==
  ASSUME NEW r \in Stream, Answer(r) = None, Answer(r)' = "refused",
         \A q \in Stream \ {r} : SameAnswer(q),
         \/ \A q \in Stream : SameEntry(q)
         \/ /\ Entry(r)' \in {"closed", "forgotten"}
            /\ \A q \in Stream \ {r} : Trimmed(q)
  PROVE  Service!Next
  <1>1. Service!Refuse(r)
    BY DEF Service!Refuse, Service!Trims, SameAnswer, SameEntry, Trimmed
  <1> QED
    BY <1>1 DEF Service!Next

LEMMA DropMaps ==
  ASSUME NEW r \in Stream, Answer(r) = None, Answer(r)' = "dropped",
         \A q \in Stream \ {r} : SameAnswer(q), \A q \in Stream : SameEntry(q)
  PROVE  Service!Next
  <1>1. Service!Drop(r)
    BY DEF Service!Drop, SameAnswer, SameEntry
  <1> QED
    BY <1>1 DEF Service!Next

LEMMA EndMaps ==
  ASSUME NEW r \in Stream, Answer(r) \in Source, Entry(r) = "open",
         \A q \in Stream : SameAnswer(q),
         Entry(r)' \in {"closed", "forgotten"}, \A q \in Stream \ {r} : Trimmed(q)
  PROVE  Service!Next
  <1>1. Service!End(r)
    BY DEF Service!End, Service!Trims, SameAnswer, SameEntry, Trimmed
  <1> QED
    BY <1>1 DEF Service!Next

LEMMA TrimMaps ==
  ASSUME \A q \in Stream : SameAnswer(q) /\ Trimmed(q)
  PROVE  Service!Next
  <1>1. Service!Trim
    BY DEF Service!Trim, Service!Trims, SameAnswer, SameEntry, Trimmed
  <1> QED
    BY <1>1 DEF Service!Next

LEMMA StutterMaps ==
  ASSUME \A q \in Stream : SameAnswer(q) /\ SameEntry(q)
  PROVE  UNCHANGED Service!vars
  BY DEF Service!vars, SameAnswer, SameEntry

LEMMA ClearMaps ==
  ASSUME \A q \in Stream : SameAnswer(q),
         \A q \in Stream : Entry(q)' = IF Entry(q) = "none" THEN "none" ELSE "forgotten"
  PROVE  Service!Next
  <1>1. Service!Clear
    BY DEF Service!Clear, SameAnswer
  <1> QED
    BY <1>1 DEF Service!Next

LEMMA CrashMaps ==
  ASSUME \A q \in Stream : SameAnswer(q) \/ (Answer(q) = None /\ Answer(q)' = "dropped"),
         \A q \in Stream : \/ Entry(q) = "open" /\ Entry(q)' \in {"closed", "forgotten"}
                           \/ Entry(q) # "open" /\ Trimmed(q)
  PROVE  Service!Next
  <1>1. Service!Crash
    BY DEF Service!Crash, Service!Trims, SameAnswer, SameEntry, Trimmed
  <1> QED
    BY <1>1 DEF Service!Next

\* A row that is kept is an entry that is the same or trimmed.
LEMMA KeptIsTrimmed ==
  ASSUME NEW q \in Stream, Kept(q)
  PROVE  /\ Trimmed(q)
         /\ row[q] = None \/ rows'[row[q]] = rows[row[q]] => SameEntry(q)
  BY DEF Kept, Trimmed, SameEntry, Entry, NoRow

\* Answer looks at the walk of a client and at the state of a peer request.
ClientAnswer(w) ==
  IF w.told = None THEN IF w.pc = "done" THEN "dropped" ELSE None
  ELSE IF w.told.status = 200 THEN w.told.source ELSE "refused"

ProxyAnswer(v) ==
  CASE v \in {"piping", "served"} -> Local
    [] v \in {"new", "waiting"} -> None
    [] OTHER -> v

LEMMA AnswerOfClient ==
  ASSUME NEW c \in Client
  PROVE  c \in Stream /\ Answer(c) = ClientAnswer(walk[c]) /\ Answer(c)' = ClientAnswer(walk'[c])
  BY DEF Answer, ClientAnswer, Stream

LEMMA AnswerOfProxy ==
  ASSUME NEW p \in Proxy
  PROVE  p \in Stream /\ Answer(p) = ProxyAnswer(proxy[p]) /\ Answer(p)' = ProxyAnswer(proxy'[p])
  BY StreamAssumption DEF Answer, ProxyAnswer, Stream

\* A request whose walk or state is as it was has the answer it had.
LEMMA OthersKeepAnswers ==
  /\ \A c \in Client : walk'[c] = walk[c] => SameAnswer(c)
  /\ \A p \in Proxy : proxy'[p] = proxy[p] => SameAnswer(p)
  BY AnswerOfClient, AnswerOfProxy DEF SameAnswer

LEMMA InitMaps == Init => Service!Init
  <1> SUFFICES ASSUME Init PROVE Service!Init
    OBVIOUS
  <1>1. \A c \in Client : Answer(c) = None
    <2> TAKE c \in Client
    <2>1. ClientAnswer(walk[c]) = None
      BY DEF Init, At, ClientAnswer
    <2> QED
      BY <2>1, AnswerOfClient
  <1>2. \A p \in Proxy : Answer(p) = None
    <2> TAKE p \in Proxy
    <2>1. ProxyAnswer(proxy[p]) = None
      BY DEF Init, ProxyAnswer
    <2> QED
      BY <2>1, AnswerOfProxy
  <1>3. \A r \in Stream : Answer(r) = None /\ Entry(r) = "none"
    BY <1>1, <1>2 DEF Init, Stream, Entry
  <1> QED
    BY <1>3 DEF Service!Init

\* A step of client c alone leaves the answers of the others.
LEMMA ClientAlone ==
  ASSUME NEW c \in Client, NEW w, walk' = [walk EXCEPT ![c] = w], UNCHANGED proxy
  PROVE  \A q \in Stream \ {c} : SameAnswer(q)
  BY OthersKeepAnswers DEF Stream

LEMMA ProxyAlone ==
  ASSUME NEW p \in Proxy, NEW v, proxy' = [proxy EXCEPT ![p] = v], UNCHANGED walk
  PROVE  \A q \in Stream \ {p} : SameAnswer(q)
  BY OthersKeepAnswers DEF Stream

LEMMA SameLogSameEntries ==
  ASSUME UNCHANGED log
  PROVE  \A q \in Stream : SameEntry(q)
  BY DEF log, SameEntry, Entry

\* A failed attempt tells nothing, or refuses and leaves a closed entry.
LEMMA FailMaps ==
  ASSUME Inv, NEW c \in Client, walk[c].pc \in {"next", "waiting"},
         NEW failure \in Failure, Fail(c, failure)
  PROVE  Service!Next \/ UNCHANGED Service!vars
  <1> DEFINE w == walk[c]
             rest == Tail(w.todo)
             failed == Tried(w, failure.status)
  <1>1. w \in Walks /\ Walking(w) /\ w.told = None /\ row[c] = None
    BY DEF Inv, TypeOK, WalkOK, Walking, RowIsLate
  <1>2. failure.status \in Refusals
    BY DEF Refusals, Failure, HttpFailure, EnvelopeFailure
  <1>3. Answer(c) = None /\ c \in Stream
    BY <1>1, AnswerOfClient DEF ClientAnswer
  <1>4. CASE rest # <<>>
    <2> DEFINE v == [w EXCEPT !.pc = "next", !.todo = rest, !.failed = failed]
    <2>1. walk' = [walk EXCEPT ![c] = v] /\ UNCHANGED <<log, proxy>>
      BY <1>4 DEF Inv, TypeOK, Fail, Tried
    <2>2. v.told = None /\ v.pc = "next"
      BY <1>1 DEF Walks
    <2> HIDE DEF v
    <2>3. walk'[c] = v
      BY <2>1 DEF Inv, TypeOK
    <2>4. Answer(c)' = None
      BY <2>2, <2>3, AnswerOfClient DEF ClientAnswer
    <2> QED
      BY <1>3, <2>1, <2>4, ClientAlone, SameLogSameEntries, StutterMaps DEF SameAnswer
  <1>5. CASE rest = <<>>
    <2> DEFINE told == Worst(failed)
    <2>1. /\ walk' = [walk EXCEPT ![c] = At("done", told)] /\ StartAndFinish(c, told.source)
          /\ UNCHANGED <<proxy, maxRows, second>>
      BY <1>5 DEF Fail, Tried
    <2>2. failed \in Seq(Attempts) /\ failed # <<>>
      <3> HIDE DEF w
      <3> QED
        BY <1>1, <1>2, NextAttempt, Zenon
    <2>3. told \in Attempts
      <3>1. \A k \in DOMAIN failed : failed[k] \in Attempts
        BY <2>2
      <3> HIDE DEF failed
      <3> QED
        BY <2>2, <3>1, WorstIsWorst
    <2> HIDE DEF told
    <2>4. told # None /\ told.status # 200 /\ told.source \in Source
      BY <2>3, NoneAssumption DEF Attempts, Refusals
    <2>5. walk'[c] = At("done", told)
      BY <2>1 DEF Inv, TypeOK
    <2>6. Answer(c)' = "refused"
      BY <2>4, <2>5, AnswerOfClient DEF ClientAnswer, At
    <2>7. /\ \A q \in Stream \ {c} : Kept(q)
          /\ row'[c] \in RowId
          /\ \/ rows'[row'[c]] = [second |-> second, source |-> told.source, ended |-> "error"]
             \/ rows'[row'[c]] = NoRow
      BY <1>1, <1>3, <2>1, <2>4, StartAndFinishAdds DEF Inv
    <2>8. Entry(c)' \in {"closed", "forgotten"}
      BY <2>7, RowAssumption DEF Entry, NoRow
    <2>9. \A q \in Stream \ {c} : SameAnswer(q)
      BY <2>1, ClientAlone
    <2> QED
      BY <1>3, <2>6, <2>7, <2>8, <2>9, KeptIsTrimmed, RefuseMaps
  <1> QED
    BY <1>4, <1>5

LEMMA WalkMaps ==
  ASSUME Inv, NEW c \in Client,
         Arrive(c) \/ GiveUp(c) \/ SkipInactive(c) \/ Ask(c) \/ SourceFails(c) \/ Disconnect(c)
  PROVE  Service!Next \/ UNCHANGED Service!vars
  <1>1. walk[c] \in Walks /\ WalkOK(walk[c]) /\ walk \in [Client -> Walks]
    BY DEF Inv, TypeOK
  <1>2. walk[c].pc \in {"new", "next", "waiting"} => walk[c].told = None /\ Answer(c) = None
    BY <1>1, AnswerOfClient DEF WalkOK, Walking, ClientAnswer
  <1>3. CASE Arrive(c)
    <2>1. \A q \in Stream : SameEntry(q)
      BY <1>3, SameLogSameEntries DEF Arrive
    <2>2. CASE walk' = [walk EXCEPT ![c] = At("done", [source |-> None, status |-> 404])]
      <3>1. walk'[c] = At("done", [source |-> None, status |-> 404])
        BY <1>1, <2>2
      <3>2. [source |-> None, status |-> 404] # None
        BY NoneAssumption
      <3>3. Answer(c)' = "refused"
        BY <3>1, <3>2, AnswerOfClient DEF ClientAnswer, At
      <3>4. Answer(c) = None
        BY <1>2, <1>3 DEF Arrive
      <3> QED
        BY <1>3, <2>1, <2>2, <3>3, <3>4, ClientAlone, AnswerOfClient, RefuseMaps DEF Arrive
    <2>3. CASE \E ranked \in Ranking : \E order \in Orders(ranked) :
                 walk' = [walk EXCEPT ![c].pc = "next", ![c].todo = order, ![c].ranked = ranked]
      <3>1. PICK ranked \in Ranking : \E order \in Orders(ranked) :
              walk' = [walk EXCEPT ![c].pc = "next", ![c].todo = order, ![c].ranked = ranked]
        BY <2>3
      <3>2. PICK order \in Orders(ranked) :
              walk' = [walk EXCEPT ![c].pc = "next", ![c].todo = order, ![c].ranked = ranked]
        BY <3>1
      <3> DEFINE w == [walk[c] EXCEPT !.pc = "next", !.todo = order, !.ranked = ranked]
      <3>3. walk' = [walk EXCEPT ![c] = w]
        BY <1>1, <3>2
      <3>4. w.told = walk[c].told /\ w.pc = "next"
        BY <1>1 DEF Walks
      <3> HIDE DEF w
      <3>5. walk'[c] = w
        BY <1>1, <3>3
      <3>6. Answer(c)' = None /\ Answer(c) = None
        BY <1>2, <1>3, <3>4, <3>5, AnswerOfClient DEF ClientAnswer, Arrive
      <3> QED
        BY <1>3, <2>1, <3>3, <3>6, ClientAlone, StutterMaps DEF Arrive, SameAnswer
    <2> QED
      BY <1>3, <2>2, <2>3 DEF Arrive
  <1>4. CASE GiveUp(c)
    <2>1. walk' = [walk EXCEPT ![c] = At("done", None)] /\ walk'[c] = At("done", None)
      BY <1>1, <1>4 DEF GiveUp
    <2>2. Answer(c)' = "dropped" /\ Answer(c) = None
      BY <1>2, <1>4, <2>1, AnswerOfClient DEF ClientAnswer, At, GiveUp
    <2> QED
      BY <1>4, <2>1, <2>2, ClientAlone, SameLogSameEntries, AnswerOfClient, DropMaps DEF GiveUp
  <1>5. CASE SkipInactive(c)
    BY <1>5, FailMaps DEF SkipInactive, Unavailable, Failure, EnvelopeFailure
  <1>6. CASE Ask(c)
    <2> DEFINE w == [walk[c] EXCEPT !.pc = "waiting"]
    <2>1. walk' = [walk EXCEPT ![c] = w]
      BY <1>6 DEF Ask
    <2>2. w.told = walk[c].told /\ w.pc = "waiting"
      BY <1>1 DEF Walks
    <2> HIDE DEF w
    <2>3. walk'[c] = w
      BY <1>1, <2>1
    <2>4. Answer(c)' = None /\ Answer(c) = None
      BY <1>2, <1>6, <2>2, <2>3, AnswerOfClient DEF ClientAnswer, Ask
    <2> QED
      BY <1>6, <2>1, <2>4, ClientAlone, SameLogSameEntries, StutterMaps DEF Ask, SameAnswer
  <1>7. CASE SourceFails(c)
    BY <1>7, FailMaps DEF SourceFails
  <1>8. CASE Disconnect(c)
    BY <1>8, OthersKeepAnswers, SameLogSameEntries, StutterMaps DEF Disconnect, Stream
  <1> QED
    BY <1>3, <1>4, <1>5, <1>6, <1>7, <1>8

LEMMA SourceServesMaps ==
  ASSUME Inv, NEW c \in Client, SourceServes(c)
  PROVE  Service!Next
  <1> DEFINE source == Head(walk[c].todo)
             told == [source |-> source, status |-> 200]
             w == At("piping", told)
  <1>1. walk[c] \in Walks /\ Walking(walk[c]) /\ walk[c].told = None /\ row[c] = None
    BY DEF Inv, TypeOK, WalkOK, Walking, RowIsLate, SourceServes
  <1>2. source \in Source
    BY <1>1 DEF Walks, Walking
  <1>3. /\ walk' = [walk EXCEPT ![c] = w] /\ walk'[c] = w /\ Start(c, source)
        /\ UNCHANGED <<proxy, maxRows, second>>
    BY DEF Inv, TypeOK, SourceServes
  <1>4. Answer(c) = None
    BY <1>1, AnswerOfClient DEF ClientAnswer, SourceServes
  <1> HIDE DEF source
  <1>5. told # None
    BY <1>2, NoneAssumption
  <1>6. Answer(c)' = source
    BY <1>3, <1>5, AnswerOfClient DEF ClientAnswer, At
  <1> HIDE DEF told, w
  <1>7. /\ \A q \in Stream \ {c} : Kept(q) /\ (row[q] # None => rows'[row[q]] = rows[row[q]])
        /\ row'[c] \in RowId
        /\ rows'[row'[c]] = [second |-> second, source |-> source, ended |-> "no"]
    BY <1>1, <1>2, <1>3, StartAdds DEF Inv, Stream
  <1>8. Entry(c)' = "open"
    BY <1>7, RowAssumption DEF Entry
  <1>9. \A q \in Stream \ {c} : SameEntry(q)
    BY <1>7, KeptIsTrimmed
  <1>10. \A q \in Stream \ {c} : SameAnswer(q)
    BY <1>3, ClientAlone
  <1> QED
    BY <1>2, <1>4, <1>6, <1>8, <1>9, <1>10, AnswerOfClient, ServeMaps

\* The end of a transfer closes the entry of its request, if it has one open.
LEMMA FinishMaps ==
  ASSUME Inv, NEW r \in Stream, NEW how \in {"ok", "error"}, Finish(r, how),
         UNCHANGED <<maxRows, second>>, Answer(r) \in Source, \A q \in Stream : SameAnswer(q)
  PROVE  Service!Next \/ UNCHANGED Service!vars
  <1>1. /\ row' = row
        /\ \A q \in Stream \ {r} : Kept(q)
        /\ row[r] \in active =>
             \/ rows'[row[r]] = [rows[row[r]] EXCEPT !.ended = how]
             \/ rows'[row[r]] = NoRow
        /\ row[r] \notin active => rows' = rows
    BY FinishEnds DEF Inv
  <1>2. CASE row[r] \in active
    <2>1. row[r] \in RowId /\ rows[row[r]] \in LogRows /\ rows[row[r]].ended = "no"
      BY <1>2 DEF Inv, LogInv, LogTypes, ActiveIsOpen
    <2>2. row[r] # None /\ [rows[row[r]] EXCEPT !.ended = how].ended = how
      BY <2>1, RowAssumption DEF LogRows
    <2>3. Entry(r) = "open"
      BY <2>1, <2>2 DEF Entry
    <2>4. rows'[row[r]].ended = how \/ rows'[row[r]].ended = "absent"
      <3>1. rows'[row[r]] = [rows[row[r]] EXCEPT !.ended = how] \/ rows'[row[r]] = NoRow
        BY <1>1, <1>2
      <3>2. NoRow.ended = "absent"
        BY DEF NoRow
      <3> QED
        BY <2>2, <3>1, <3>2, Zenon
    <2>5. Entry(r)' \in {"closed", "forgotten"}
      BY <1>1, <2>2, <2>4 DEF Entry
    <2> QED
      BY <1>1, <2>3, <2>5, KeptIsTrimmed, EndMaps
  <1>3. CASE row[r] \notin active
    BY <1>1, <1>3, StutterMaps DEF SameEntry, Entry
  <1> QED
    BY <1>2, <1>3

LEMMA PipeEndsMaps ==
  ASSUME Inv, NEW c \in Client, PipeEnds(c)
  PROVE  Service!Next \/ UNCHANGED Service!vars
  <1> DEFINE w == [walk[c] EXCEPT !.pc = "done"]
  <1>1. /\ walk[c] \in Walks /\ WalkOK(walk[c]) /\ walk[c].pc = "piping"
        /\ walk[c].told # None /\ walk[c].told.status = 200 /\ walk[c].told.source \in Source
    BY DEF Inv, TypeOK, WalkOK, PipeEnds
  <1>2. walk' = [walk EXCEPT ![c] = w] /\ walk'[c] = w /\ UNCHANGED proxy
    BY DEF Inv, TypeOK, PipeEnds
  <1>3. w.told = walk[c].told
    BY <1>1 DEF Walks
  <1> HIDE DEF w
  <1>4. Answer(c) \in Source /\ Answer(c)' = Answer(c)
    BY <1>1, <1>2, <1>3, AnswerOfClient DEF ClientAnswer
  <1>5. \A q \in Stream : SameAnswer(q)
    BY <1>2, <1>4, ClientAlone DEF SameAnswer
  <1> QED
    BY <1>4, <1>5, FinishMaps, AnswerOfClient DEF PipeEnds

LEMMA ProxyMaps ==
  ASSUME Inv, NEW p \in Proxy, ProxyArrive(p) \/ ProxyAnswered(p) \/ ProxyEnds(p)
  PROVE  Service!Next \/ UNCHANGED Service!vars
  <1>0. proxy \in [Proxy -> {"new", "waiting", "refused", "piping", "served", "dropped"}]
    BY DEF Inv, TypeOK
  <1>1. CASE ProxyArrive(p)
    <2>1. proxy' = [proxy EXCEPT ![p] = "waiting"] /\ proxy'[p] = "waiting" /\ proxy[p] = "new"
      BY <1>0, <1>1 DEF ProxyArrive
    <2>2. SameAnswer(p)
      BY <2>1, AnswerOfProxy DEF SameAnswer, ProxyAnswer
    <2> QED
      BY <1>1, <2>1, <2>2, ProxyAlone, SameLogSameEntries, StutterMaps DEF ProxyArrive
  <1>2. CASE ProxyAnswered(p)
    <2>1. row[p] = None /\ Answer(p) = None /\ p \in Stream /\ walk' = walk
      BY <1>2, AnswerOfProxy DEF Inv, RowIsLate, ProxyAnswered, ProxyAnswer
    <2>2. CASE proxy' = [proxy EXCEPT ![p] = "refused"] /\ UNCHANGED log
      <3>1. proxy'[p] = "refused"
        BY <1>0, <2>2
      <3>2. Answer(p)' = "refused"
        BY <3>1, AnswerOfProxy DEF ProxyAnswer
      <3> QED
        BY <2>1, <2>2, <3>2, ProxyAlone, SameLogSameEntries, RefuseMaps
    <2>3. CASE proxy' = [proxy EXCEPT ![p] = "piping"]
      <3>1. proxy'[p] = "piping"
        BY <1>0, <2>3
      <3>2. Answer(p)' = Local /\ Local \in Source
        BY <3>1, AnswerOfProxy DEF ProxyAnswer, Source
      <3>3. \A q \in Stream \ {p} : SameAnswer(q)
        BY <2>1, <2>3, ProxyAlone
      <3>4. CASE UNCHANGED log
        BY <2>1, <3>2, <3>3, <3>4, SameLogSameEntries, ServeMaps
      <3>5. CASE Start(p, Local)
        <4>1. /\ \A q \in Stream \ {p} : Kept(q) /\ (row[q] # None => rows'[row[q]] = rows[row[q]])
              /\ row'[p] \in RowId
              /\ rows'[row'[p]] = [second |-> second, source |-> Local, ended |-> "no"]
          BY <1>2, <2>1, <3>2, <3>5, StartAdds DEF Inv, ProxyAnswered
        <4>2. Entry(p)' = "open"
          BY <4>1, RowAssumption DEF Entry
        <4>3. \A q \in Stream \ {p} : SameEntry(q)
          BY <4>1, KeptIsTrimmed
        <4> QED
          BY <2>1, <3>2, <3>3, <4>2, <4>3, ServeMaps
      <3> QED
        BY <1>2, <3>4, <3>5 DEF ProxyAnswered
    <2> QED
      BY <1>2, <2>2, <2>3 DEF ProxyAnswered
  <1>3. CASE ProxyEnds(p)
    <2>1. /\ proxy' = [proxy EXCEPT ![p] = "served"] /\ proxy'[p] = "served"
          /\ proxy[p] = "piping" /\ walk' = walk
      BY <1>0, <1>3 DEF ProxyEnds
    <2>2. Answer(p) = Local /\ Answer(p)' = Local /\ Local \in Source
      BY <2>1, AnswerOfProxy DEF ProxyAnswer, Source
    <2>3. \A q \in Stream : SameAnswer(q)
      BY <2>1, <2>2, ProxyAlone DEF SameAnswer
    <2> QED
      BY <1>3, <2>2, <2>3, FinishMaps, AnswerOfProxy DEF ProxyEnds
  <1> QED
    BY <1>1, <1>2, <1>3

LEMMA EnvironmentMaps ==
  ASSUME Inv,
         \/ \E n \in Retention : SetMaxRows(n)
         \/ ClearAll
         \/ Tick
         \/ \E s \in Source : Cool(s)
         \/ \E p \in Peer : SetLifecycle(p)
         \/ UNCHANGED vars
  PROVE  Service!Next \/ UNCHANGED Service!vars
  <1>1. walk' = walk /\ proxy' = proxy
    BY DEF SetMaxRows, ClearAll, Tick, Cool, SetLifecycle, vars
  <1>2. \A q \in Stream : SameAnswer(q)
    BY <1>1, OthersKeepAnswers DEF Stream
  <1>3. CASE \E n \in Retention : SetMaxRows(n)
    <2>1. \A q \in Stream : Kept(q)
      BY <1>3, TrimmedLog DEF Inv, LogInv, LogTypes, SetMaxRows
    <2> QED
      BY <1>2, <2>1, KeptIsTrimmed, TrimMaps
  <1>4. CASE ClearAll
    <2>1. row' = row /\ \A q \in Stream : row[q] # None => rows'[row[q]] = NoRow
      BY <1>4, ClearEmpties DEF Inv
    <2>2. \A q \in Stream : Entry(q)' = IF Entry(q) = "none" THEN "none" ELSE "forgotten"
      BY <2>1 DEF Entry, NoRow
    <2> QED
      BY <1>2, <2>2, ClearMaps
  <1>5. CASE UNCHANGED log
    BY <1>2, <1>5, SameLogSameEntries, StutterMaps
  <1>6. Tick \/ (\E s \in Source : Cool(s)) \/ (\E p \in Peer : SetLifecycle(p)) \/ UNCHANGED vars
          => UNCHANGED log
    BY DEF Tick, Cool, SetLifecycle, vars
  <1> QED
    BY <1>3, <1>4, <1>5, <1>6

LEMMA RestartMaps ==
  ASSUME Inv, Restart
  PROVE  Service!Next
  <1>1. ASSUME NEW c \in Client
        PROVE  SameAnswer(c) \/ (Answer(c) = None /\ Answer(c)' = "dropped")
    BY RestartEnds, AnswerOfClient DEF ClientAnswer, SameAnswer
  <1>2. ASSUME NEW p \in Proxy
        PROVE  SameAnswer(p) \/ (Answer(p) = None /\ Answer(p)' = "dropped")
    <2>1. CASE proxy'[p] = proxy[p]
      BY <2>1, OthersKeepAnswers
    <2>2. CASE proxy[p] = "waiting" /\ proxy'[p] = "dropped"
      BY <2>2, AnswerOfProxy DEF ProxyAnswer
    <2>3. CASE proxy[p] = "piping" /\ proxy'[p] = "served"
      BY <2>3, AnswerOfProxy DEF ProxyAnswer, SameAnswer
    <2> QED
      BY <2>1, <2>2, <2>3, RestartEnds
  <1>3. /\ row' = row
        /\ \A q \in Stream : row[q] # None =>
             \/ /\ rows[row[q]].ended = "no"
                /\ \/ rows'[row[q]] = [rows[row[q]] EXCEPT !.ended = "interrupted"]
                   \/ rows'[row[q]] = NoRow
             \/ rows[row[q]].ended # "no" /\ Kept(q)
    BY RestartCloses DEF Inv
  <1>4. ASSUME NEW q \in Stream
        PROVE  \/ Entry(q) = "open" /\ Entry(q)' \in {"closed", "forgotten"}
               \/ Entry(q) # "open" /\ Trimmed(q)
    <2>1. CASE row[q] = None
      BY <1>3, <2>1 DEF Entry, Trimmed, SameEntry
    <2>2. CASE row[q] # None /\ rows[row[q]].ended = "no"
      <3>1. row[q] \in RowId /\ rows[row[q]] \in LogRows
        BY <2>2 DEF Inv, LogInv, LogTypes
      <3>2. [rows[row[q]] EXCEPT !.ended = "interrupted"].ended = "interrupted"
        BY <3>1 DEF LogRows
      <3>3. Entry(q) = "open"
        BY <2>2 DEF Entry
      <3>4. rows'[row[q]].ended \in {"interrupted", "absent"}
        <4>1. \/ rows'[row[q]] = [rows[row[q]] EXCEPT !.ended = "interrupted"]
              \/ rows'[row[q]] = NoRow
          BY <1>3, <2>2
        <4>2. NoRow.ended = "absent"
          BY DEF NoRow
        <4> QED
          BY <3>2, <4>1, <4>2, Zenon
      <3>5. Entry(q)' \in {"closed", "forgotten"}
        BY <1>3, <2>2, <3>4 DEF Entry
      <3> QED
        BY <3>3, <3>5
    <2>3. CASE row[q] # None /\ rows[row[q]].ended # "no"
      BY <1>3, <2>3, KeptIsTrimmed DEF Entry
    <2> QED
      BY <2>1, <2>2, <2>3
  <1> QED
    BY <1>1, <1>2, <1>4, CrashMaps DEF Stream

\* Every step of the hub is a step of the promise, or none.
LEMMA NextMaps == Inv /\ [Next]_vars => [Service!Next]_(Service!vars)
  <1> SUFFICES ASSUME Inv, [Next]_vars
               PROVE  Service!Next \/ UNCHANGED Service!vars
    OBVIOUS
  <1>1. ASSUME NEW c \in Client,
               \/ Arrive(c) \/ GiveUp(c) \/ SkipInactive(c) \/ Ask(c) \/ SourceFails(c)
               \/ SourceServes(c) \/ Disconnect(c) \/ PipeEnds(c)
        PROVE  Service!Next \/ UNCHANGED Service!vars
    BY <1>1, WalkMaps, SourceServesMaps, PipeEndsMaps
  <1>2. ASSUME NEW p \in Proxy, ProxyArrive(p) \/ ProxyAnswered(p) \/ ProxyEnds(p)
        PROVE  Service!Next \/ UNCHANGED Service!vars
    BY <1>2, ProxyMaps
  <1>3. CASE Restart
    BY <1>3, RestartMaps
  <1>4. CASE \/ \E n \in Retention : SetMaxRows(n)
             \/ ClearAll
             \/ Tick
             \/ \E s \in Source : Cool(s)
             \/ \E p \in Peer : SetLifecycle(p)
             \/ UNCHANGED vars
    BY <1>4, EnvironmentMaps
  <1> QED
    BY <1>1, <1>2, <1>3, <1>4 DEF Next

\* The walk over sources, the breaker, the row ids and the retention keep the
\* promise of StreamService: one answer per request, and at most one entry of it in
\* the log, opened when it is served, closed once, and forgotten only when closed.
THEOREM StreamingImplementsService == Spec => ImplementsService
  <1>1. Init => Service!Init
    BY InitMaps
  <1>2. Inv /\ [Next]_vars => [Service!Next]_(Service!vars)
    BY NextMaps
  <1> QED
    BY <1>1, <1>2, StreamingInvariant, PTL DEF Spec, ImplementsService, Service!Spec

=============================================================================
