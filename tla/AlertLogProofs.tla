--------------------------- MODULE AlertLogProofs ---------------------------
(***************************************************************************)
(* Safety of the alert log export, for any databases, numbers of records   *)
(* and untimely events, with a shared file or one for each database.       *)
(***************************************************************************)
EXTENDS AlertLog, SequenceTheorems, FiniteSetTheorems, WellFoundedInduction, TLAPS

-----------------------------------------------------------------------------
(* The inductive invariant, in named parts                                 *)

\* Timestamps never decrease, and are not larger than the number of records.
ViewInv ==
  \A d \in Databases :
    /\ \A i \in DOMAIN view[d] : view[d][i] <= i
    /\ \A i, j \in DOMAIN view[d] : i <= j => view[d][i] <= view[d][j]

\* Lines are of records that were logged, and are in the file of their database.
LinesInv ==
  \A f \in Files :
    /\ ~ended[f] => lines[f] # <<>>
    /\ \A k \in DOMAIN lines[f] : \A d \in Databases :
         lines[f][k].db = d => FileOf(d) = f /\ lines[f][k].record \in DOMAIN view[d]

\* An update is that of a database, and writes what its view has.
UpdateInv ==
  /\ pc # "wait" => current \in Databases
  /\ pc = "write" => rows \subseteq DOMAIN view[current]

\* The lines of a database are in the order of its records.
Increasing ==
  \A f \in Files : \A k, l \in DOMAIN lines[f] : \A d \in Databases :
    k < l /\ lines[f][k].db = d /\ lines[f][l].db = d =>
      lines[f][k].record < lines[f][l].record

\* No record in the file is later than the one the scan has found...
SinceInv ==
  pc = "query" =>
    \A k \in DOMAIN lines[File] :
      lines[File][k].db = current => view[current][lines[File][k].record] <= since

\* ... and the rows to be written come after all of them.
RowsInv ==
  pc = "write" =>
    \A r \in rows : \A k \in DOMAIN lines[File] :
      lines[File][k].db = current => lines[File][k].record < r

OrderInv == "order" \notin upsets => Increasing /\ SinceInv /\ RowsInv

ExportInv == TypeOK /\ ViewInv /\ LinesInv /\ UpdateInv /\ OrderInv

-----------------------------------------------------------------------------
(* What the helpers return                                                 *)

\* A set of positions that is not empty has a last one.
LEMMA LastExists ==
  ASSUME NEW n \in Nat, NEW S \in SUBSET (0 .. n), S # {}
  PROVE  Max(S) \in S /\ \A x \in S : x <= Max(S)
<1> DEFINE Above(x) == (x + 1) .. n
           T == {Above(x) : x \in S}
<1>1. IsFiniteSet(0 .. n)
  BY FS_Interval
<1>2. FiniteSubsetsOf(0 .. n) = SUBSET (0 .. n)
  BY <1>1, FS_FiniteSubsetsOfFinite
<1>3. IsWellFoundedOn(StrictSubsetOrdering(0 .. n), SUBSET (0 .. n))
  BY <1>2, FS_StrictSubsetOrderingWellFounded
<1>4. T \subseteq SUBSET (0 .. n) /\ T # {}
  <2>1. ASSUME NEW x \in S PROVE Above(x) \subseteq 0 .. n
    OBVIOUS
  <2> HIDE DEF Above
  <2> QED
    BY <2>1
<1>5. PICK least \in T : \A t \in T : ~(<<t, least>> \in StrictSubsetOrdering(0 .. n))
  <2> HIDE DEF T
  <2> QED
    BY <1>3, <1>4, WFMin
<1>6. PICK m \in S : least = Above(m)
  OBVIOUS
<1>7. ASSUME NEW x \in S, x > m PROVE FALSE
  <2>1. Above(x) \subseteq Above(m)
    BY <1>7
  <2>2. x \in Above(m) /\ x \notin Above(x)
    BY <1>7
  <2>3. Above(x) # Above(m)
    BY <2>2
  <2>4. Above(x) \in T /\ Above(m) \in T
    OBVIOUS
  <2>5. <<Above(x), Above(m)>> \in StrictSubsetOrdering(0 .. n)
    <3>1. Above(x) \in SUBSET (0 .. n) /\ Above(m) \in SUBSET (0 .. n)
      BY <1>4, <2>4
    <3> HIDE DEF Above
    <3> QED
      BY <2>1, <2>3, <3>1 DEF StrictSubsetOrdering
  <2> QED
    BY <1>5, <1>6, <2>4, <2>5
<1>8. m \in S /\ \A x \in S : m >= x
  BY <1>7
<1> QED
  BY <1>8 DEF Max

\* Lines are records, and the garbage line is of no database.
LEMMA LineTypes ==
  /\ \A d \in Databases : FileOf(d) \in Files
  /\ \A d \in Databases, r \in Records : Line(d, r) \in Lines
  /\ Garbage \in Lines
  /\ \A line \in Lines : line # Garbage => line.db \in Databases /\ line.record \in Records
  /\ \A line \in Lines : line = Line(line.db, line.record)
  /\ \A d \in Databases : Garbage.db # d
BY DatabasesAssumption DEF FileOf, Files, Lines, Line, Garbage

\* Appending leaves every line alone but the last one it may spoil, and adds its own.
LEMMA AppendedLine ==
  ASSUME NEW f \in Files, NEW line \in Lines, lines \in [Files -> Seq(Lines)],
         ~ended[f] => lines[f] # <<>>
  PROVE  LET new == Appended(f, line)
         IN /\ new \in Seq(Lines)
            /\ new # <<>>
            /\ \A k \in DOMAIN new :
                 \/ k \in DOMAIN lines[f] /\ new[k] = lines[f][k]
                 \/ new[k] = Garbage
                 \/ new[k] = line /\ \A l \in DOMAIN new : l <= k
<1> DEFINE old == lines[f]
<1>1. old \in Seq(Lines) /\ Garbage \in Lines
  BY LineTypes
<1>2. CASE ended[f]
  BY <1>1, <1>2 DEF Appended
<1>3. CASE ~ended[f]
  <2>1. Len(old) \in 1 .. Len(old)
    BY <1>1, <1>3, EmptySeq, LenProperties
  <2>2. Appended(f, line) = [old EXCEPT ![Len(old)] = Garbage]
    BY <1>3 DEF Appended
  <2> HIDE DEF old
  <2> QED
    BY <1>1, <2>1, <2>2, ExceptSeq, LenProperties DEF old
<1> QED
  BY <1>2, <1>3

\* The scan finds the last line of the database, and with it the latest of its records.
LEMMA ScanFindsLatest ==
  ASSUME ExportInv, pc = "read", ~Unparsed(current)
  PROVE  /\ LastTimestamp(current) \in Nat
         /\ \A k \in DOMAIN lines[File] :
              lines[File][k].db = current =>
                /\ LastMatching(current) \in DOMAIN lines[File]
                /\ lines[File][LastMatching(current)].db = current
                /\ k <= LastMatching(current)
         /\ LastMatching(current) = 0 => LastTimestamp(current) = 0
         /\ LastMatching(current) # 0 =>
              /\ LastMatching(current) \in DOMAIN lines[File]
              /\ lines[File][LastMatching(current)].db = current
              /\ LastTimestamp(current) =
                   view[current][lines[File][LastMatching(current)].record]
<1> DEFINE d == current
           last == LastMatching(d)
           old == lines[File]
<1>1. d \in Databases /\ File \in Files /\ File = FileOf(d)
  BY LineTypes DEF ExportInv, UpdateInv, File
<1>2. old \in Seq(Lines) /\ view[d] \in Seq(Records)
  BY <1>1 DEF ExportInv, TypeOK
<1>3. Len(old) \in Nat /\ DOMAIN old = 1 .. Len(old) /\ Matching(d) \subseteq 1 .. Len(old)
  BY <1>1, <1>2, LenProperties DEF Matching
<1>4. last \in {0} \cup Matching(d) /\ \A k \in Matching(d) : k <= last
  <2> DEFINE S == {0} \cup Matching(d)
  <2>1. S \in SUBSET (0 .. Len(old)) /\ S # {}
    BY <1>3
  <2>2. Max(S) \in S /\ \A x \in S : x <= Max(S)
    <3> HIDE DEF S
    <3> QED
      BY <1>3, <2>1, LastExists
  <2> QED
    BY <2>2 DEF LastMatching
<1>5. \A k \in DOMAIN old : old[k].db = d => k \in Matching(d)
  BY <1>1 DEF Matching, StopsAt
<1>6. CASE last = 0
  <2>1. Matching(d) = {}
    BY <1>3, <1>4, <1>6
  <2> QED
    BY <1>5, <1>6, <2>1 DEF LastTimestamp, Oldest
<1>7. CASE last # 0
  <2>1. last \in DOMAIN old /\ StopsAt(d, old[last]) /\ last > 0
    BY <1>1, <1>3, <1>4, <1>7 DEF Matching
  <2>2. old[last] # Garbage
    BY <1>1, <2>1 DEF Unparsed
  <2>3. old[last] \in Lines
    BY <1>2, <1>3, <2>1, ElementOfSeq
  <2>4. old[last].db \in Databases /\ FileOf(old[last].db) = File
    BY <1>1, <2>1, <2>2, <2>3, LineTypes DEF ExportInv, LinesInv
  <2>5. old[last].db = d
    BY <1>1, <2>1, <2>2, <2>4 DEF StopsAt, FileOf
  <2>6. LastTimestamp(d) = view[d][old[last].record]
    BY <1>1, <1>7, <2>2, <2>5 DEF LastTimestamp
  <2>7. old[last].record \in DOMAIN view[d]
    BY <1>1, <2>1, <2>5 DEF ExportInv, LinesInv
  <2>8. view[d][old[last].record] \in Records
    BY <1>2, <2>7, ElementOfSeq, LenProperties
  <2>9. LastTimestamp(d) \in Nat
    BY <2>6, <2>8 DEF Records
  <2> QED
    BY <1>4, <1>5, <1>7, <2>1, <2>5, <2>6, <2>9
<1> QED
  BY <1>6, <1>7

-----------------------------------------------------------------------------
(* The invariant                                                           *)

LEMMA InitExport == Init => ExportInv
<1> SUFFICES ASSUME Init PROVE ExportInv
  OBVIOUS
<1> USE MaxRecordsAssumption DEF Init
<1>1. TypeOK
  BY EmptySeq DEF TypeOK, Oldest
<1>2. ViewInv /\ LinesInv /\ UpdateInv
  BY DEF ViewInv, LinesInv, UpdateInv
<1>3. OrderInv
  BY DEF OrderInv, Increasing, SinceInv, RowsInv
<1> QED
  BY <1>1, <1>2, <1>3 DEF ExportInv

\* Steps that write to neither file nor view: what changes is who is updated, and what it
\* has found.
LEMMA QuietSteps ==
  ASSUME ExportInv,
         \/ Tick \/ ReadFails \/ Read \/ Query \/ Done \/ OpenFails \/ Fails \/ Restart
         \/ \E d \in Databases : Skip(d) \/ Start(d) \/ BackoffEnds(d)
         \/ UNCHANGED vars
  PROVE  ExportInv'
<1>1. UNCHANGED <<upsets, view, files>>
  BY DEF Tick, ReadFails, Read, Query, Done, OpenFails, Fails, Restart, Skip, Start,
         BackoffEnds, vars, files
<1>2. ViewInv' /\ LinesInv' /\ (Increasing => Increasing')
  BY <1>1 DEF ExportInv, ViewInv, LinesInv, Increasing, files
<1>3. CASE Read
  <2>1. since' \in Nat
    BY <1>3, ScanFindsLatest DEF Read
  <2>2. TypeOK' /\ UpdateInv'
    BY <1>3, <2>1 DEF Read, ExportInv, TypeOK, UpdateInv, files
  <2>3. ASSUME "order" \notin upsets PROVE SinceInv'
    <3> SUFFICES ASSUME NEW k \in DOMAIN lines[File], lines[File][k].db = current
                 PROVE  view[current][lines[File][k].record] <= LastTimestamp(current)
      BY <1>3 DEF Read, SinceInv, files, File
    <3> DEFINE last == LastMatching(current)
               r == lines[File][k].record
               s == lines[File][last].record
    <3>1. /\ last \in DOMAIN lines[File]
          /\ lines[File][last].db = current
          /\ k <= last
          /\ last # 0 => LastTimestamp(current) = view[current][s]
      BY <1>3, ScanFindsLatest DEF Read
    <3>2. current \in Databases /\ File \in Files
      BY <1>3, LineTypes DEF Read, ExportInv, UpdateInv, File
    <3>3. lines[File] \in Seq(Lines) /\ view[current] \in Seq(Records)
      BY <3>2 DEF ExportInv, TypeOK
    <3>4. k \in Nat /\ last \in Nat \ {0}
      BY <3>1, <3>3, LenProperties
    <3>5. r \in DOMAIN view[current] /\ s \in DOMAIN view[current]
      BY <3>1, <3>2 DEF ExportInv, LinesInv
    <3>6. r \in Nat /\ s \in Nat
      BY <3>3, <3>5, LenProperties
    <3>7. r <= s
      BY <2>3, <3>1, <3>2, <3>4, <3>6 DEF ExportInv, OrderInv, Increasing
    <3> QED
      BY <3>1, <3>2, <3>4, <3>5, <3>7 DEF ExportInv, ViewInv
  <2>4. RowsInv'
    BY <1>3 DEF Read, RowsInv
  <2> QED
    BY <1>1, <1>2, <2>2, <2>3, <2>4 DEF ExportInv, OrderInv
<1>4. CASE Query
  <2>1. current \in Databases /\ File \in Files /\ view[current] \in Seq(Records)
    BY <1>4, LineTypes DEF Query, ExportInv, UpdateInv, TypeOK, File
  <2>2. rows' \subseteq DOMAIN view[current] /\ DOMAIN view[current] \subseteq Records
    BY <1>4, <2>1, LenProperties, MaxRecordsAssumption
    DEF Query, Selected, ExportInv, TypeOK, Records
  <2>3. TypeOK' /\ UpdateInv'
    BY <1>4, <2>1, <2>2 DEF Query, ExportInv, TypeOK, UpdateInv, files
  <2>4. ASSUME "order" \notin upsets PROVE RowsInv'
    <3> SUFFICES ASSUME NEW r \in Selected(current), NEW k \in DOMAIN lines[File],
                        lines[File][k].db = current
                 PROVE  lines[File][k].record < r
      BY <1>4 DEF Query, RowsInv, files, File
    <3> DEFINE s == lines[File][k].record
    <3>1. r \in DOMAIN view[current] /\ view[current][r] > since
      BY DEF Selected
    <3>2. s \in DOMAIN view[current]
      BY <2>1 DEF ExportInv, LinesInv
    <3>3. view[current][s] <= since
      BY <1>4, <2>4 DEF Query, ExportInv, OrderInv, SinceInv
    <3>4. /\ r \in Nat /\ s \in Nat /\ since \in Nat
          /\ view[current][r] \in Nat /\ view[current][s] \in Nat
      <4>1. r \in 1 .. Len(view[current]) /\ s \in 1 .. Len(view[current])
        BY <2>1, <3>1, <3>2, LenProperties
      <4>2. view[current][r] \in Records /\ view[current][s] \in Records
        BY <2>1, <4>1, ElementOfSeq
      <4> HIDE DEF s
      <4> QED
        BY <4>1, <4>2 DEF Records, ExportInv, TypeOK
    <3>5. r <= s => view[current][r] <= view[current][s]
      BY <2>1, <3>1, <3>2 DEF ExportInv, ViewInv
    <3> QED
      BY <3>1, <3>3, <3>4, <3>5
  <2>5. SinceInv'
    BY <1>4 DEF Query, SinceInv
  <2> QED
    BY <1>1, <1>2, <2>3, <2>4, <2>5 DEF ExportInv, OrderInv
<1>5. CASE pc' \in {"wait", "read"} /\ ~Read /\ ~Query
  <2>1. TypeOK' /\ UpdateInv'
    BY <1>5 DEF Tick, ReadFails, Done, OpenFails, Fails, Restart, Skip, Start, BackoffEnds,
                vars, files, update, Return, ExportInv, TypeOK, UpdateInv, Oldest
  <2>2. SinceInv' /\ RowsInv'
    BY <1>5 DEF SinceInv, RowsInv
  <2> QED
    BY <1>1, <1>2, <2>1, <2>2 DEF ExportInv, OrderInv
<1>6. CASE pc' \notin {"wait", "read"} /\ ~Read /\ ~Query
  <2>1. UNCHANGED <<pc, update>>
    BY <1>6 DEF Tick, ReadFails, Done, OpenFails, Fails, Restart, Skip, Start, BackoffEnds,
                vars, Return, update
  <2>2. todo' \subseteq Databases /\ waiting' \subseteq Databases
    BY <1>6 DEF Tick, ReadFails, Done, OpenFails, Fails, Restart, Skip, Start, BackoffEnds,
                vars, Return, ExportInv, TypeOK
  <2>3. TypeOK' /\ UpdateInv'
    BY <1>1, <2>1, <2>2 DEF ExportInv, TypeOK, UpdateInv, update, files
  <2>4. (SinceInv => SinceInv') /\ (RowsInv => RowsInv')
    BY <1>1, <2>1 DEF SinceInv, RowsInv, update, files, File
  <2> QED
    BY <1>1, <1>2, <2>3, <2>4 DEF ExportInv, OrderInv
<1> QED
  BY <1>3, <1>4, <1>5, <1>6

\* A line is appended, whole or torn, after which the next row comes or the update is over.
LEMMA AppendSteps ==
  ASSUME ExportInv, pc = "write",
         NEW r \in NextRows, NEW line \in {Garbage, Line(current, r)},
         lines' = [lines EXCEPT ![File] = Appended(File, line)],
         \E b \in BOOLEAN : ended' = [ended EXCEPT ![File] = b],
         UNCHANGED <<upsets, view>>,
         todo' \subseteq Databases, waiting' \subseteq Databases,
         \/ pc' = pc /\ rows' = rows \ {r} /\ UNCHANGED <<current, since>>
         \/ Return
  PROVE  ExportInv'
<1> DEFINE d == current
           new == Appended(File, line)
<1>1. d \in Databases /\ File \in Files /\ File = FileOf(d)
  BY LineTypes DEF ExportInv, UpdateInv, File
<1>2. r \in rows /\ r \in Records /\ r \in DOMAIN view[d]
  BY DEF NextRows, ExportInv, TypeOK, UpdateInv
<1>3. /\ line \in Lines
      /\ \A e \in Databases : line.db = e => e = d /\ line.record = r
  BY <1>1, <1>2, LineTypes DEF Line
<1>4. /\ new \in Seq(Lines)
      /\ new # <<>>
      /\ \A k \in DOMAIN new :
           \/ k \in DOMAIN lines[File] /\ new[k] = lines[File][k]
           \/ new[k] = Garbage
           \/ new[k] = line /\ \A l \in DOMAIN new : l <= k
  BY <1>1, <1>3, AppendedLine DEF ExportInv, TypeOK, LinesInv
<1>5. lines' \in [Files -> Seq(Lines)] /\ lines'[File] = new
      /\ \A f \in Files : f # File => lines'[f] = lines[f]
  <2> HIDE DEF new
  <2>1. lines' = [lines EXCEPT ![File] = new]
    BY DEF new
  <2> QED
    BY <1>1, <1>4, <2>1 DEF ExportInv, TypeOK
<1> HIDE DEF new
<1>6. TypeOK' /\ UpdateInv'
  BY <1>5 DEF ExportInv, TypeOK, UpdateInv, Return, Oldest
<1>7. ViewInv'
  BY DEF ExportInv, ViewInv
<1>8. LinesInv'
  <2> SUFFICES ASSUME NEW f \in Files
               PROVE  /\ ~ended'[f] => lines'[f] # <<>>
                      /\ \A k \in DOMAIN lines'[f] : \A e \in Databases :
                           lines'[f][k].db = e =>
                             FileOf(e) = f /\ lines'[f][k].record \in DOMAIN view[e]
    BY DEF LinesInv
  <2>1. CASE f # File
    BY <1>5, <2>1 DEF ExportInv, LinesInv, TypeOK
  <2>2. CASE f = File
    BY <1>1, <1>2, <1>3, <1>4, <1>5, <2>2, LineTypes DEF ExportInv, LinesInv
  <2> QED
    BY <2>1, <2>2
<1>9. ASSUME "order" \notin upsets PROVE Increasing' /\ RowsInv'
  <2>1. \A k \in DOMAIN lines[File] : lines[File][k].db = d => lines[File][k].record < r
    BY <1>2, <1>9 DEF ExportInv, OrderInv, RowsInv
  <2>2. Increasing'
    <3> SUFFICES ASSUME NEW f \in Files, NEW k \in DOMAIN lines'[f], NEW l \in DOMAIN lines'[f],
                        NEW e \in Databases,
                        k < l, lines'[f][k].db = e, lines'[f][l].db = e
                 PROVE  lines'[f][k].record < lines'[f][l].record
      BY DEF Increasing
    <3>1. CASE f # File
      BY <1>5, <1>9, <3>1 DEF ExportInv, OrderInv, Increasing
    <3>2. CASE f = File
      <4>1. k \in Nat /\ l \in Nat
        BY <1>4, <1>5, <3>2, LenProperties
      <4>2. new[k] # Garbage /\ new[l] # Garbage
        BY <1>5, <3>2, LineTypes
      <4>3. k \in DOMAIN lines[File] /\ new[k] = lines[File][k]
        BY <1>4, <1>5, <3>2, <4>1, <4>2
      <4> QED
        BY <1>1, <1>3, <1>4, <1>5, <1>9, <2>1, <3>2, <4>2, <4>3
        DEF ExportInv, OrderInv, Increasing
    <3> QED
      BY <3>1, <3>2
  <2>3. RowsInv'
    <3> SUFFICES ASSUME pc' = "write", NEW q \in rows', NEW k \in DOMAIN lines'[File'],
                        lines'[File'][k].db = current'
                 PROVE  lines'[File'][k].record < q
      BY DEF RowsInv
    <3>1. rows' = rows \ {r} /\ current' = d /\ File' = File
      BY DEF Return, File
    <3>2. q \in rows /\ q # r /\ r <= q /\ q \in Nat /\ r \in Nat
      BY <1>2, <1>9, <3>1 DEF NextRows, ExportInv, TypeOK, Records
    <3>3. new[k] # Garbage /\ k \in DOMAIN new
      BY <1>1, <1>5, <3>1, LineTypes
    <3>4. CASE k \in DOMAIN lines[File] /\ new[k] = lines[File][k]
      BY <1>5, <1>9, <3>1, <3>2, <3>4 DEF ExportInv, OrderInv, RowsInv
    <3>5. CASE new[k] = line
      BY <1>1, <1>3, <1>5, <3>1, <3>2, <3>5
    <3> QED
      BY <1>4, <3>3, <3>4, <3>5
  <2> QED
    BY <2>2, <2>3
<1>10. SinceInv'
  BY DEF SinceInv, Return
<1> QED
  BY <1>6, <1>7, <1>8, <1>9, <1>10 DEF ExportInv, OrderInv

\* A record is logged: a position is added to a view, and the others stay what they are.
LEMMA LoggedRecord ==
  ASSUME TypeOK, ViewInv, NEW d \in Databases, Log(d)
  PROVE  /\ UNCHANGED <<upsets, files, pc, todo, update, waiting>>
         /\ \E time \in Records :
              /\ view' = [view EXCEPT ![d] = Append(view[d], time)]
              /\ upsets = {} /\ (\A i \in DOMAIN view[d] : view[d][i] = i) =>
                   time = Len(view[d]) + 1
         /\ ViewInv'
         /\ \A e \in Databases :
              /\ view'[e] \in Seq(Records)
              /\ Len(view'[e]) <= MaxRecords
              /\ DOMAIN view[e] \subseteq DOMAIN view'[e]
              /\ \A i \in DOMAIN view[e] : view'[e][i] = view[e][i]
<1> DEFINE old == view[d]
           n == Len(old)
           last == IF old = <<>> THEN Oldest ELSE old[n]
<1>1. /\ old \in Seq(Records) /\ n \in Nat /\ n < MaxRecords /\ DOMAIN old = 1 .. n
      /\ view \in [Databases -> Seq(Records)]
  BY LenProperties DEF Log, TypeOK
<1>2. /\ last \in Nat /\ last <= n
      /\ \A i \in 1 .. n : old[i] \in Nat /\ old[i] <= last
      /\ last # Oldest => last \in Records
  <2>1. CASE n = 0
    BY <1>1, <2>1, EmptySeq DEF Oldest
  <2>2. CASE n # 0
    <3>1. \A i \in 1 .. n : old[i] \in Records
      BY <1>1, ElementOfSeq
    <3>2. old # <<>> /\ n \in 1 .. n
      BY <1>1, <2>2
    <3>3. last = old[n]
      BY <3>2
    <3>4. \A i \in 1 .. n : old[i] <= old[n]
      BY <1>1, <3>2 DEF ViewInv
    <3>5. old[n] <= n
      BY <1>1, <3>2 DEF ViewInv
    <3> HIDE DEF last, n, old
    <3> QED
      BY <3>1, <3>2, <3>3, <3>4, <3>5 DEF Records, Oldest
  <2> QED
    BY <2>1, <2>2, <1>1
<1>3. PICK time \in {last, last + 1} :
        /\ view' = [view EXCEPT ![d] = Append(old, time)]
        /\ time = last => last # Oldest /\ "tie" \in upsets
  BY <1>2 DEF Log
<1>4. time \in Records /\ last <= time /\ time <= n + 1
  <2> HIDE DEF last, n
  <2> QED
    BY <1>1, <1>2, <1>3, MaxRecordsAssumption DEF Records, Oldest
<1>5. UNCHANGED <<upsets, files, pc, todo, update, waiting>>
  BY DEF Log
<1>6. upsets = {} /\ (\A i \in DOMAIN old : old[i] = i) => time = n + 1
  <2> SUFFICES ASSUME upsets = {}, \A i \in DOMAIN old : old[i] = i PROVE time = n + 1
    OBVIOUS
  <2>1. time = last + 1
    BY <1>3
  <2>2. last = n
    BY <1>1, EmptySeq DEF Oldest
  <2> QED
    BY <2>1, <2>2
<1> DEFINE grown == Append(old, time)
<1>7. /\ grown \in Seq(Records) /\ Len(grown) = n + 1 /\ DOMAIN grown = 1 .. (n + 1)
      /\ \A i \in 1 .. n : grown[i] = old[i]
      /\ grown[n + 1] = time
  <2> HIDE DEF old
  <2> QED
    BY <1>1, <1>4, AppendProperties, LenProperties
<1>8. view'[d] = grown /\ \A e \in Databases : e # d => view'[e] = view[e]
  BY <1>1, <1>3
<1> HIDE DEF grown, last
<1>9. \A e \in Databases :
        /\ view'[e] \in Seq(Records)
        /\ Len(view'[e]) <= MaxRecords
        /\ DOMAIN view[e] \subseteq DOMAIN view'[e]
        /\ \A i \in DOMAIN view[e] : view'[e][i] = view[e][i]
  <2> TAKE e \in Databases
  <2>1. CASE e # d
    BY <1>8, <2>1 DEF TypeOK
  <2>2. CASE e = d
    BY <1>1, <1>7, <1>8, <2>2, MaxRecordsAssumption
  <2> QED
    BY <2>1, <2>2
<1>10. ViewInv'
  <2> SUFFICES ASSUME NEW e \in Databases
               PROVE  /\ \A i \in DOMAIN view'[e] : view'[e][i] <= i
                      /\ \A i, j \in DOMAIN view'[e] : i <= j => view'[e][i] <= view'[e][j]
    BY DEF ViewInv
  <2>1. CASE e # d
    BY <1>8, <2>1 DEF ViewInv
  <2>2. CASE e = d
    <3>1. \A i \in 1 .. n : old[i] <= i
      BY <1>1 DEF ViewInv
    <3>2. \A i, j \in 1 .. n : i <= j => old[i] <= old[j]
      BY <1>1 DEF ViewInv
    <3>3. \A i \in 1 .. (n + 1) : i \in 1 .. n \/ i = n + 1
      BY <1>1
    <3>4. \A i \in 1 .. n : grown[i] <= time
      BY <1>2, <1>4, <1>7, <1>1 DEF Records
    <3>5. \A i \in 1 .. (n + 1) : grown[i] <= i
      BY <1>4, <1>7, <3>1, <3>3
    <3>6. \A i, j \in 1 .. (n + 1) : i <= j => grown[i] <= grown[j]
      <4> TAKE i, j \in 1 .. (n + 1)
      <4>1. CASE j = n + 1
        BY <1>4, <1>7, <3>3, <3>4, <4>1 DEF Records
      <4>2. CASE j \in 1 .. n
        <5>1. i <= j => i \in 1 .. n
          BY <1>1, <4>2
        <5> QED
          BY <1>7, <3>2, <4>2, <5>1
      <4> QED
        BY <3>3, <4>1, <4>2
    <3> QED
      BY <1>7, <1>8, <2>2, <3>5, <3>6
  <2> QED
    BY <2>1, <2>2
<1> QED
  BY <1>3, <1>4, <1>5, <1>6, <1>9, <1>10

\* What a file has does not depend on the records that are added.
LEMMA LogStep ==
  ASSUME ExportInv, NEW d \in Databases, Log(d)
  PROVE  ExportInv'
<1>1. /\ UNCHANGED <<upsets, files, pc, todo, update, waiting>>
      /\ ViewInv'
      /\ \A e \in Databases :
           /\ view'[e] \in Seq(Records)
           /\ Len(view'[e]) <= MaxRecords
           /\ DOMAIN view[e] \subseteq DOMAIN view'[e]
           /\ \A i \in DOMAIN view[e] : view'[e][i] = view[e][i]
  BY LoggedRecord DEF ExportInv
<1>2. TypeOK'
  <2>1. view' \in [Databases -> Seq(Records)]
    BY <1>1 DEF Log, ExportInv, TypeOK
  <2> QED
    BY <1>1, <2>1 DEF ExportInv, TypeOK, files, update
<1>3. LinesInv'
  BY <1>1 DEF ExportInv, LinesInv, files
<1>4. UpdateInv'
  <2>1. pc = "write" => current \in Databases
    BY DEF ExportInv, UpdateInv
  <2> QED
    BY <1>1, <2>1 DEF ExportInv, UpdateInv, update
<1>5. ASSUME "order" \notin upsets PROVE Increasing' /\ SinceInv' /\ RowsInv'
  <2>1. Increasing' /\ RowsInv'
    BY <1>1, <1>5 DEF ExportInv, OrderInv, Increasing, RowsInv, files, update, File
  <2>2. SinceInv'
    <3> SUFFICES ASSUME pc = "query", NEW k \in DOMAIN lines[File], lines[File][k].db = current
                 PROVE  view'[current][lines[File][k].record] <= since
      BY <1>1 DEF SinceInv, files, update, File
    <3>1. current \in Databases /\ File \in Files
      BY LineTypes DEF ExportInv, UpdateInv, File
    <3>2. lines[File][k].record \in DOMAIN view[current]
      BY <3>1 DEF ExportInv, LinesInv
    <3>3. view[current][lines[File][k].record] <= since
      BY <1>5 DEF ExportInv, OrderInv, SinceInv
    <3> QED
      BY <1>1, <3>1, <3>2, <3>3
  <2> QED
    BY <2>1, <2>2
<1> QED
  BY <1>1, <1>2, <1>3, <1>4, <1>5 DEF ExportInv, OrderInv

\* What WriteLine, WriteFails and Crash write is one line.
LEMMA WriteSteps ==
  ASSUME ExportInv, WriteLine \/ WriteFails \/ Crash
  PROVE  ExportInv'
<1>1. CASE WriteLine
  <2>1. PICK r \in NextRows :
          /\ lines' = [lines EXCEPT ![File] = Appended(File, Line(current, r))]
          /\ rows' = rows \ {r}
    BY <1>1 DEF WriteLine
  <2>2. /\ \E b \in BOOLEAN : ended' = [ended EXCEPT ![File] = b]
        /\ pc = "write" /\ pc' = pc
        /\ UNCHANGED <<upsets, view, current, since>>
        /\ todo' \subseteq Databases /\ waiting' \subseteq Databases
    BY <1>1 DEF WriteLine, ExportInv, TypeOK
  <2> QED
    BY <2>1, <2>2, AppendSteps
<1>2. CASE WriteFails \/ Crash
  <2>1. PICK r \in NextRows : \E left \in {Garbage, Line(current, r)} :
          lines' = [lines EXCEPT ![File] = Appended(File, left)]
    BY <1>2 DEF WriteFails, Crash, Torn
  <2>2. /\ \E b \in BOOLEAN : ended' = [ended EXCEPT ![File] = b]
        /\ pc = "write" /\ Return
        /\ UNCHANGED <<upsets, view>>
        /\ todo' \subseteq Databases /\ waiting' \subseteq Databases
    BY <1>2 DEF WriteFails, Crash, Torn, ExportInv, TypeOK, UpdateInv
  <2> QED
    BY <2>1, <2>2, AppendSteps
<1> QED
  BY <1>1, <1>2

LEMMA NextExport == ExportInv /\ [Next]_vars => ExportInv'
<1> SUFFICES ASSUME ExportInv, [Next]_vars PROVE ExportInv'
  OBVIOUS
<1>1. CASE WriteLine \/ WriteFails \/ Crash
  BY <1>1, WriteSteps
<1>2. CASE \E d \in Databases : Log(d)
  BY <1>2, LogStep
<1>3. CASE \/ Tick \/ ReadFails \/ Read \/ Query \/ Done \/ OpenFails \/ Fails \/ Restart
           \/ \E d \in Databases : Skip(d) \/ Start(d) \/ BackoffEnds(d)
           \/ UNCHANGED vars
  BY <1>3, QuietSteps
<1> QED
  BY <1>1, <1>2, <1>3 DEF Next, UpdateNext, WriteNext

LEMMA ExportCorrect == Spec => []ExportInv
BY InitExport, NextExport, PTL DEF Spec

-----------------------------------------------------------------------------
(* The theorems                                                            *)

\* The variables keep their types; what is remembered of a database is a timestamp, never
\* that of a line that does not parse.
THEOREM TypeCorrect == Spec => []TypeOK
<1>1. ExportInv => TypeOK
  BY DEF ExportInv
<1> QED
  BY <1>1, ExportCorrect, PTL

\* With rows in order no record is exported twice, however often records have equal
\* timestamps, lines are torn and updates fail or are cut short by a restart.
THEOREM NoRecordTwice == Spec => []NoDuplicates
<1>1. ASSUME ExportInv PROVE NoDuplicates
  <2> SUFFICES ASSUME "order" \notin upsets, NEW f \in Files,
                      NEW k \in DOMAIN lines[f], NEW l \in DOMAIN lines[f],
                      lines[f][k] = lines[f][l], lines[f][k] # Garbage
               PROVE  k = l
    BY DEF NoDuplicates
  <2>1. lines[f] \in Seq(Lines)
    BY <1>1 DEF ExportInv, TypeOK
  <2>2. k \in Nat /\ l \in Nat /\ lines[f][k] \in Lines
    BY <2>1, LenProperties, ElementOfSeq
  <2>3. lines[f][k].db \in Databases /\ lines[f][k].record \in Nat
    BY <2>2, LineTypes DEF Records
  <2>4. ~(k < l) /\ ~(l < k)
    BY <1>1, <2>3 DEF ExportInv, OrderInv, Increasing
  <2> QED
    BY <2>2, <2>4
<1> QED
  BY <1>1, ExportCorrect, PTL

-----------------------------------------------------------------------------
(* The refinement                                                          *)

\* As long as things come in order the timestamps are the positions, no line is spoilt,
\* what a file has of a database is a beginning of its view, and an update knows where it
\* ends: the query asks for what is after it, and what is left of the result starts there.
OrderlyInv ==
  upsets = {} =>
    /\ \A d \in Databases : \A i \in DOMAIN view[d] : view[d][i] = i
    /\ \A f \in Files : ended[f] /\ \A k \in DOMAIN lines[f] : lines[f][k] # Garbage
    /\ \A d \in Databases : \E n \in Nat : Exported(d) = 1 .. n
    /\ pc = "query" => Exported(current) = 1 .. since
    /\ pc = "write" =>
         \E n, m \in Nat : Exported(current) = 1 .. n /\ rows = (n + 1) .. m

RefinementInv == ExportInv /\ OrderlyInv

\* Both specifications mean the same by what was exported.
LEMMA ExportedRecords ==
  ASSUME ExportInv, NEW d \in Databases
  PROVE  Abstract!Exported(d) = Exported(d)
<1>1. FileOf(d) \in Files /\ view[d] \in Seq(Records)
  BY LineTypes DEF ExportInv, TypeOK
<1>2. DOMAIN view[d] \subseteq Records
  BY <1>1, LenProperties, MaxRecordsAssumption DEF ExportInv, TypeOK, Records
<1>3. ASSUME NEW r \in Records, NEW k \in DOMAIN lines[FileOf(d)],
             lines[FileOf(d)][k] = Line(d, r)
      PROVE  r \in DOMAIN view[d]
  BY <1>1, <1>3 DEF Line, ExportInv, LinesInv
<1> QED
  BY <1>2, <1>3 DEF Abstract!Exported, Exported

\* The timestamp found is the number of records exported.
LEMMA ScanFindsEnd ==
  ASSUME RefinementInv, upsets = {}, pc = "read", ~Unparsed(current)
  PROVE  Exported(current) = 1 .. LastTimestamp(current)
<1> DEFINE d == current
           last == LastMatching(d)
           s == lines[File][last].record
<1>1. d \in Databases /\ File \in Files /\ File = FileOf(d)
  BY LineTypes DEF RefinementInv, ExportInv, UpdateInv, File
<1>2. PICK n \in Nat : Exported(d) = 1 .. n
  BY <1>1 DEF RefinementInv, OrderlyInv
<1>3. /\ \A k \in DOMAIN lines[File] : lines[File][k].db = d =>
           last \in DOMAIN lines[File] /\ lines[File][last].db = d /\ k <= last
      /\ last = 0 => LastTimestamp(d) = 0
      /\ last # 0 =>
           /\ last \in DOMAIN lines[File]
           /\ lines[File][last].db = d
           /\ LastTimestamp(d) = view[d][s]
  BY ScanFindsLatest DEF RefinementInv
<1>4. lines[File] \in Seq(Lines) /\ view[d] \in Seq(Records)
  BY <1>1 DEF RefinementInv, ExportInv, TypeOK
<1>5. \A r \in Exported(d) : \E k \in DOMAIN lines[File] :
        lines[File][k].db = d /\ lines[File][k].record = r
  BY <1>1 DEF Exported, Line
<1>6. CASE last = 0
  <2>1. 0 \notin DOMAIN lines[File]
    BY <1>4, LenProperties
  <2>2. Exported(d) = {}
    BY <1>3, <1>5, <1>6, <2>1
  <2>3. 1 .. LastTimestamp(d) = {}
    BY <1>3, <1>6
  <2> QED
    BY <2>2, <2>3
<1>7. CASE last # 0
  <2>1. last \in DOMAIN lines[File] /\ lines[File][last].db = d
    BY <1>3, <1>7
  <2>2. s \in DOMAIN view[d]
    BY <1>1, <2>1 DEF RefinementInv, ExportInv, LinesInv
  <2>3. LastTimestamp(d) = s
    BY <1>1, <1>3, <1>7, <2>2 DEF RefinementInv, OrderlyInv
  <2>4. s \in Records
    BY <1>4, <2>2, LenProperties, MaxRecordsAssumption, <1>1
    DEF RefinementInv, ExportInv, TypeOK, Records
  <2>5. s \in Exported(d)
    <3>1. lines[File][last] \in Lines
      BY <1>4, <2>1, ElementOfSeq, LenProperties
    <3>2. lines[File][last] = Line(d, s)
      BY <2>1, <3>1, LineTypes
    <3> QED
      BY <1>1, <2>1, <2>4, <3>2 DEF Exported
  <2>6. \A r \in Exported(d) : r <= s
    <3> SUFFICES ASSUME NEW r \in Exported(d) PROVE r <= s
      OBVIOUS
    <3>1. PICK k \in DOMAIN lines[File] : lines[File][k].db = d /\ lines[File][k].record = r
      BY <1>5
    <3>2. k <= last /\ k \in Nat /\ last \in Nat
      BY <1>3, <1>4, <2>1, <3>1, LenProperties
    <3>3. k < last => r < s
      BY <1>1, <2>1, <3>1 DEF RefinementInv, ExportInv, OrderInv, Increasing
    <3>4. r \in Nat /\ s \in Nat
      BY <1>2, <2>4 DEF Records
    <3> HIDE DEF s, last
    <3>5. CASE k < last
      BY <3>3, <3>4, <3>5
    <3>6. CASE k = last
      BY <3>1, <3>4, <3>6 DEF s
    <3> QED
      BY <3>2, <3>5, <3>6
  <2>7. n = s
    <3>1. s \in 1 .. n
      BY <1>2, <2>5
    <3>2. n \in Exported(d)
      BY <1>2, <3>1
    <3> HIDE DEF s
    <3> QED
      BY <1>2, <2>6, <3>1, <3>2
  <2> QED
    BY <1>2, <2>3, <2>7
<1> QED
  BY <1>6, <1>7

\* A row is written: it is the next one, and nothing but its line is added.
LEMMA WrittenLine ==
  ASSUME RefinementInv, upsets = {}, WriteLine
  PROVE  \E n, m \in Nat :
           /\ n + 1 \in 1 .. m
           /\ Exported(current) = 1 .. n
           /\ n + 1 \in rows
           /\ rows' = (n + 2) .. m
           /\ lines[File] \in Seq(Lines)
           /\ Line(current, n + 1) \in Lines
           /\ lines' = [lines EXCEPT ![File] = Append(lines[File], Line(current, n + 1))]
<1>1. PICK n, m \in Nat : Exported(current) = 1 .. n /\ rows = (n + 1) .. m
  BY DEF WriteLine, RefinementInv, OrderlyInv
<1>2. PICK r \in NextRows :
        /\ lines' = [lines EXCEPT ![File] = Appended(File, Line(current, r))]
        /\ rows' = rows \ {r}
  BY DEF WriteLine
<1>3. r \in rows /\ \A q \in rows : r <= q
  BY <1>2 DEF NextRows
<1>4. r = n + 1 /\ n + 1 <= m
  <2>1. n + 1 \in rows
    BY <1>1, <1>3
  <2> QED
    BY <1>1, <1>3, <2>1
<1>5. rows' = (n + 2) .. m
  BY <1>1, <1>2, <1>4
<1>6. current \in Databases /\ File \in Files /\ r \in Records
  BY <1>3, LineTypes DEF WriteLine, RefinementInv, ExportInv, TypeOK, UpdateInv, File
<1>7. lines[File] \in Seq(Lines) /\ ended[File]
  BY <1>6 DEF RefinementInv, ExportInv, TypeOK, OrderlyInv
<1>8. Line(current, n + 1) \in Lines
  BY <1>4, <1>6, LineTypes
<1>9. lines' = [lines EXCEPT ![File] = Append(lines[File], Line(current, n + 1))]
  BY <1>2, <1>4, <1>7 DEF Appended
<1>10. n + 1 \in 1 .. m /\ n + 1 \in rows
  BY <1>3, <1>4
<1> QED
  BY <1>1, <1>5, <1>7, <1>8, <1>9, <1>10

LEMMA InitOrderly == Init => OrderlyInv
<1> SUFFICES ASSUME Init PROVE OrderlyInv
  OBVIOUS
<1>1. \A d \in Databases : Exported(d) = {}
  BY LineTypes DEF Init, Exported
<1>2. \A d \in Databases : Exported(d) = 1 .. 0
  BY <1>1
<1>3. \A d \in Databases : \E n \in Nat : Exported(d) = 1 .. n
  BY <1>2
<1> QED
  BY <1>3 DEF Init, OrderlyInv

LEMMA NextOrderly == RefinementInv /\ [Next]_vars => OrderlyInv'
<1> SUFFICES ASSUME RefinementInv, [Next]_vars, upsets' = {} PROVE OrderlyInv'
  BY DEF OrderlyInv
<1>1. upsets = {}
  BY DEF Next, UpdateNext, WriteNext, Tick, ReadFails, Read, Query, WriteLine, Done, OpenFails,
         Fails, WriteFails, Crash, Restart, Skip, Start, BackoffEnds, Log, vars
<1>2. ~WriteFails /\ ~Crash
  BY <1>1 DEF WriteFails, Crash, Torn
<1> USE DEF RefinementInv
<1>3. CASE WriteLine
  <2>1. PICK n \in Nat, m \in Nat :
          /\ n + 1 \in rows
          /\ Exported(current) = 1 .. n
          /\ rows' = (n + 2) .. m
          /\ lines[File] \in Seq(Lines)
          /\ Line(current, n + 1) \in Lines
          /\ lines' = [lines EXCEPT ![File] = Append(lines[File], Line(current, n + 1))]
    BY <1>1, <1>3, WrittenLine
  <2>2. /\ current \in Databases /\ File \in Files /\ File = FileOf(current)
        /\ lines \in [Files -> Seq(Lines)]
    BY <1>3, LineTypes DEF WriteLine, ExportInv, TypeOK, UpdateInv, File
  <2> DEFINE old == lines[File]
             line == Line(current, n + 1)
             new == Append(old, line)
  <2>3. lines'[File] = new /\ \A f \in Files : f # File => lines'[f] = lines[f]
    BY <2>1, <2>2
  <2>4. /\ DOMAIN new = DOMAIN old \cup {Len(old) + 1}
        /\ \A k \in DOMAIN old : new[k] = old[k]
        /\ new[Len(old) + 1] = line
    <3>1. Len(old) \in Nat /\ DOMAIN old = 1 .. Len(old)
      BY <2>1, LenProperties
    <3>2. /\ DOMAIN new = 1 .. (Len(old) + 1)
          /\ \A k \in 1 .. Len(old) : new[k] = old[k]
          /\ new[Len(old) + 1] = line
      <4> HIDE DEF old, line
      <4> QED
        BY <2>1, AppendProperties, LenProperties DEF old, line
    <3> HIDE DEF old, new
    <3> QED
      BY <3>1, <3>2
  <2> HIDE DEF new
  <2>5. n + 1 \in Records
    BY <2>1 DEF ExportInv, TypeOK
  <2>6. Exported(current)' = Exported(current) \cup {n + 1}
    <3>1. File' = File /\ current' = current
      BY <1>3 DEF WriteLine, File
    <3>2. \A r \in Records : Line(current, r) = line => r = n + 1
      BY DEF Line
    <3> QED
      BY <2>2, <2>3, <2>4, <2>5, <3>1, <3>2 DEF Exported
  <2>7. \A d \in Databases : d # current => Exported(d)' = Exported(d)
    <3> TAKE d \in Databases
    <3> HAVE d # current
    <3>1. \A r \in Records : Line(d, r) # line
      BY DEF Line
    <3>2. CASE FileOf(d) = File
      BY <2>3, <2>4, <3>1, <3>2 DEF Exported
    <3>3. CASE FileOf(d) # File
      BY <2>3, <3>3, LineTypes DEF Exported
    <3> QED
      BY <3>2, <3>3
  <2>8. Exported(current)' = 1 .. (n + 1)
    BY <2>1, <2>6
  <2>9. \A d \in Databases : \E k \in Nat : Exported(d)' = 1 .. k
    <3> TAKE d \in Databases
    <3>1. CASE d = current
      <4>1. n + 1 \in Nat /\ current' = current
        BY <1>3 DEF WriteLine
      <4>2. Exported(d)' = 1 .. (n + 1)
        BY <2>8, <3>1, <4>1
      <4> QED
        BY <4>1, <4>2
    <3>2. CASE d # current
      <4>1. PICK k \in Nat : Exported(d) = 1 .. k
        BY <1>1 DEF OrderlyInv
      <4>2. Exported(d)' = 1 .. k
        BY <2>7, <3>2, <4>1
      <4> QED
        BY <4>2
    <3> QED
      BY <3>1, <3>2
  <2>10. \A f \in Files : ended'[f] /\ \A k \in DOMAIN lines'[f] : lines'[f][k] # Garbage
    <3>1. line # Garbage
      BY <2>2, LineTypes DEF Line
    <3>2. \A f \in Files : ended'[f]
      BY <1>1, <1>3, <2>2 DEF WriteLine, OrderlyInv, ExportInv, TypeOK
    <3> HIDE DEF line
    <3> QED
      BY <1>1, <2>2, <2>3, <2>4, <3>1, <3>2 DEF OrderlyInv
  <2>11. \E a, b \in Nat : Exported(current)' = 1 .. a /\ rows' = (a + 1) .. b
    <3>1. n + 1 \in Nat /\ rows' = ((n + 1) + 1) .. m
      BY <2>1
    <3> QED
      BY <2>8, <3>1
  <2> QED
    BY <1>1, <1>3, <2>9, <2>10, <2>11 DEF WriteLine, OrderlyInv
<1>4. CASE \E d \in Databases : Log(d)
  <2>1. PICK d \in Databases : Log(d)
    BY <1>4
  <2>2. UNCHANGED <<upsets, files, pc, todo, update, waiting>>
    BY <2>1 DEF Log
  <2>3. PICK time \in Records :
          /\ view' = [view EXCEPT ![d] = Append(view[d], time)]
          /\ time = Len(view[d]) + 1
    BY <1>1, <2>1, LoggedRecord DEF ExportInv, OrderlyInv
  <2>4. \A e \in Databases : \A i \in DOMAIN view'[e] : view'[e][i] = i
    <3> TAKE e \in Databases
    <3>1. CASE e # d
      BY <1>1, <2>3, <3>1 DEF OrderlyInv, ExportInv, TypeOK
    <3>2. CASE e = d
      <4> DEFINE old == view[d]
                 grown == Append(old, time)
      <4>1. old \in Seq(Records) /\ view'[d] = grown
        BY <2>3 DEF ExportInv, TypeOK
      <4>2. \A i \in 1 .. Len(old) : old[i] = i
        BY <1>1, <4>1, LenProperties DEF OrderlyInv
      <4>3. /\ DOMAIN grown = 1 .. (Len(old) + 1)
            /\ \A i \in 1 .. Len(old) : grown[i] = old[i]
            /\ grown[Len(old) + 1] = time
        <5> HIDE DEF old
        <5> QED
          BY <4>1, AppendProperties, LenProperties
      <4>4. Len(old) \in Nat
        BY <4>1, LenProperties
      <4>5. time = Len(old) + 1
        BY <2>3
      <4> HIDE DEF old, grown
      <4> QED
        BY <3>2, <4>1, <4>2, <4>3, <4>4, <4>5
    <3> QED
      BY <3>1, <3>2
  <2>5. \A e : Exported(e)' = Exported(e)
    BY <2>2 DEF Exported, files
  <2> QED
    BY <1>1, <2>2, <2>4, <2>5 DEF OrderlyInv, files, update
<1>5. CASE \/ Tick \/ ReadFails \/ Read \/ Query \/ Done \/ OpenFails \/ Fails \/ Restart
           \/ \E d \in Databases : Skip(d) \/ Start(d) \/ BackoffEnds(d)
           \/ UNCHANGED vars
  <2>1. UNCHANGED <<view, files>> /\ \A e : Exported(e)' = Exported(e)
    BY <1>5 DEF Tick, ReadFails, Read, Query, Done, OpenFails, Fails, Restart, Skip, Start,
                BackoffEnds, vars, files, Exported
  <2>2. CASE Read
    BY <1>1, <2>1, <2>2, ScanFindsEnd DEF Read, OrderlyInv, files
  <2>3. CASE Query
    <3>1. current \in Databases /\ view[current] \in Seq(Records) /\ since \in Nat
      BY <2>3 DEF Query, ExportInv, UpdateInv, TypeOK
    <3>2. Len(view[current]) \in Nat /\ DOMAIN view[current] = 1 .. Len(view[current])
      BY <3>1, LenProperties
    <3>3. Selected(current) = (since + 1) .. Len(view[current])
      BY <1>1, <3>1, <3>2 DEF Selected, OrderlyInv
    <3>4. rows' = (since + 1) .. Len(view[current]) /\ Exported(current)' = 1 .. since
      BY <1>1, <2>1, <2>3, <3>3 DEF Query, OrderlyInv
    <3>5. \E n, m \in Nat : Exported(current)' = 1 .. n /\ rows' = (n + 1) .. m
      BY <3>1, <3>2, <3>4
    <3> QED
      BY <1>1, <2>1, <2>3, <3>5 DEF Query, OrderlyInv, files
  <2>4. CASE pc' \in {"wait", "read"}
    BY <1>1, <2>1, <2>4 DEF OrderlyInv, files
  <2>5. CASE UNCHANGED <<pc, update>>
    BY <1>1, <2>1, <2>5 DEF OrderlyInv, files, update
  <2>6. CASE ReadFails \/ OpenFails \/ Fails \/ Restart \/ Done \/ \E d \in Databases : Start(d)
    BY <2>4, <2>6 DEF ReadFails, OpenFails, Fails, Restart, Done, Start, Return
  <2>7. CASE Tick \/ (\E d \in Databases : Skip(d) \/ BackoffEnds(d)) \/ UNCHANGED vars
    BY <2>5, <2>7 DEF Tick, Skip, BackoffEnds, vars, update
  <2> QED
    BY <1>5, <2>2, <2>3, <2>6, <2>7
<1> QED
  BY <1>2, <1>3, <1>4, <1>5 DEF Next, UpdateNext, WriteNext

LEMMA RefinementCorrect == Spec => []RefinementInv
<1>1. Init => RefinementInv
  BY InitExport, InitOrderly DEF RefinementInv
<1>2. RefinementInv /\ [Next]_vars => RefinementInv'
  BY NextExport, NextOrderly DEF RefinementInv
<1> QED
  BY <1>1, <1>2, PTL DEF Spec

LEMMA InitRefines == Init => Abstract!Init
  BY DEF Init, Abstract!Init

\* Every step of the export is one of the promise or leaves view and files alone.
LEMMA NextRefines ==
  RefinementInv /\ [Next]_vars => [Abstract!Next]_<<upsets = {}, view, lines>>
<1> SUFFICES ASSUME RefinementInv, [Next]_vars
             PROVE  Abstract!Next \/ UNCHANGED <<upsets, view, lines>>
  OBVIOUS
<1>1. UNCHANGED upsets
  BY DEF Next, UpdateNext, WriteNext, Tick, ReadFails, Read, Query, WriteLine, Done, OpenFails,
         Fails, WriteFails, Crash, Restart, Skip, Start, BackoffEnds, Log, vars
<1>2. CASE upsets # {}
  BY <1>1, <1>2 DEF Abstract!Next, Abstract!Spoil
<1>3. CASE upsets = {}
  <2>1. CASE WriteLine
    <3>1. PICK n \in Nat, m \in Nat :
            /\ n + 1 \in rows
            /\ Exported(current) = 1 .. n
            /\ lines' = [lines EXCEPT ![File] = Append(lines[File], Line(current, n + 1))]
      BY <1>3, <2>1, WrittenLine
    <3>2. current \in Databases /\ rows \subseteq DOMAIN view[current]
      BY <2>1 DEF WriteLine, RefinementInv, ExportInv, UpdateInv
    <3>3. n + 1 \in DOMAIN view[current]
      BY <3>1, <3>2
    <3>4. Abstract!Exported(current) = 1 .. ((n + 1) - 1)
      BY <3>1, <3>2, ExportedRecords DEF RefinementInv
    <3>5. Abstract!Export(current)
      BY <1>1, <2>1, <3>1, <3>3, <3>4 DEF WriteLine, Abstract!Export, File
    <3> QED
      BY <3>2, <3>5 DEF Abstract!Next
  <2>2. CASE \E d \in Databases : Log(d)
    <3>1. PICK d \in Databases : Log(d)
      BY <2>2
    <3>2. \E time \in Records : view' = [view EXCEPT ![d] = Append(view[d], time)]
      BY <3>1, LoggedRecord DEF RefinementInv, ExportInv
    <3>3. UNCHANGED <<upsets, lines>>
      BY <3>1 DEF Log, files
    <3> QED
      BY <3>1, <3>2, <3>3 DEF Abstract!Next, Abstract!Log
  <2>3. CASE WriteFails \/ Crash
    BY <1>3, <2>3 DEF WriteFails, Crash, Torn
  <2> QED
    BY <1>1, <2>1, <2>2, <2>3
    DEF Next, UpdateNext, WriteNext, Tick, ReadFails, Read, Query, Done, OpenFails, Fails,
        Restart, Skip, Start, BackoffEnds, vars, files
<1> QED
  BY <1>2, <1>3

\* The export is ordered: as long as things come in order, a file is given the records of
\* each database one after the other, none skipped and none twice, wherever updates fail or
\* restarts cut them short (UpdateLog, getLastLogTimestamp).
THEOREM ExportIsOrdered == Spec => ImplementsExport
  BY InitRefines, NextRefines, RefinementCorrect, PTL
  DEF Spec, ImplementsExport, Abstract!Spec
=============================================================================
