--------------------------- MODULE ResultsProofs ---------------------------
(***************************************************************************)
(* For any directory, any contents and any number of changes to it, the    *)
(* corpus that is served comes from the file that was inspected; and for   *)
(* lists of any length, what the tools make of them is what the properties *)
(* of Results say.                                                         *)
(***************************************************************************)
EXTENDS Results, SelectionProofs

\* What was inspected was vouched for; once compared, what was opened is what was
\* inspected; what was read is valid.
Followed ==
    /\ boot \in {"open", "stat", "read", "ready"} => info \in vouched
    /\ boot \in {"read", "ready"} => handle = info
    /\ boot = "ready" => DistinctIds(documents)

\* Nothing has been inspected when main starts.
LEMMA FollowedInit == Init => Followed
<1>1. SUFFICES ASSUME LoadInit PROVE Followed
  BY DEF Init
<1>2. boot \in {"lstat", "unconfigured"}
  BY <1>1 DEF LoadInit
<1> QED
  BY <1>2 DEF Followed

\* Every step of the load, of the directory's owner and of a tool keeps it.
LEMMA FollowedStep == Followed /\ [Next]_vars => Followed'
<1>1. SUFFICES ASSUME Followed, [Next]_vars PROVE Followed'
  OBVIOUS
<1>2. CASE Replace
  BY <1>1, <1>2 DEF Replace, Loading, Followed, DistinctIds
<1>3. CASE Rewrite
  BY <1>1, <1>3 DEF Rewrite, Loading, Followed, DistinctIds
<1>4. CASE Inspect
  BY <1>1, <1>4 DEF Inspect, LoadFails, Followed
<1>5. CASE Open
  BY <1>1, <1>5 DEF Open, LoadFails, Followed
<1>6. CASE Stat
  BY <1>1, <1>6 DEF Stat, SameFile, LoadFails, Followed
<1>7. CASE Read
  <2>1. CASE boot' = "failed"
    BY <2>1 DEF Followed
  <2>2. CASE boot' = "ready"
    <3>1. /\ boot = "read"
          /\ documents' = content[handle].documents
          /\ DistinctIds(content[handle].documents)
          /\ UNCHANGED <<info, handle, vouched>>
      BY <1>7, <2>2 DEF Read, Valid, LoadFails
    <3> QED
      BY <1>1, <2>2, <3>1 DEF Followed, DistinctIds
  <2> QED
    BY <1>7, <2>1, <2>2 DEF Read, LoadFails
<1>8. CASE UNCHANGED loadVars
  BY <1>1, <1>8 DEF loadVars, Followed, DistinctIds
<1> QED
  BY <1>1, <1>2, <1>3, <1>4, <1>5, <1>6, <1>7, <1>8
     DEF Next, Load, LoadNext, Serve, vars, loadVars

\* CorpusVouched holds in every reachable state: local_index_corpus.go serves only a
\* corpus read from the file whose kind and mode it inspected, without repeated ids.
THEOREM CorpusIsVouched == Spec => []CorpusVouched
<1>1. Followed => CorpusVouched
  BY DEF Followed, CorpusVouched
<1> QED
  BY FollowedInit, FollowedStep, <1>1, PTL DEF Spec

-----------------------------------------------------------------------------
\* The type invariant, which also says that an opened corpus is a file of its directory.
THEOREM ResultsTypeCorrect == Spec => []TypeOK
<1>1. Init => TypeOK
  <2>1. SUFFICES ASSUME LoadInit PROVE TypeOK
    BY DEF Init
  <2>2. content \in [Files -> Contents] /\ path \in Files \cup {NoFile}
    BY <2>1, LocalIndexAssumption DEF LoadInit
  <2>3. changes \in 0 .. MaxChanges
    BY <2>1, LocalIndexAssumption DEF LoadInit
  <2> QED
    BY <2>1, <2>2, <2>3 DEF LoadInit, TypeOK
<1>2. TypeOK /\ [Next]_vars => TypeOK'
  <2>1. SUFFICES ASSUME TypeOK, [Next]_vars PROVE TypeOK'
    OBVIOUS
  <2>2. CASE Replace
    <3>1. changes' \in 0 .. MaxChanges
      BY <2>1, <2>2, LocalIndexAssumption DEF Replace, TypeOK
    <3> QED
      BY <2>1, <2>2, <3>1 DEF Replace, TypeOK
  <2>3. CASE Rewrite
    <3>1. changes' \in 0 .. MaxChanges
      BY <2>1, <2>3, LocalIndexAssumption DEF Rewrite, TypeOK
    <3>2. content' \in [Files -> Contents]
      BY <2>1, <2>3 DEF Rewrite, TypeOK
    <3> QED
      BY <2>1, <2>3, <3>1, <3>2 DEF Rewrite, TypeOK
  <2>4. CASE Inspect
    BY <2>1, <2>4 DEF Inspect, Acceptable, LoadFails, TypeOK
  <2>5. CASE Open
    <3>1. path # NoFile => Target(path) \in Files
      BY <2>1 DEF Target, TypeOK
    <3> QED
      BY <2>1, <2>5, <3>1 DEF Open, LoadFails, TypeOK
  <2>6. CASE Stat
    BY <2>1, <2>6 DEF Stat, LoadFails, TypeOK
  <2>7. CASE Read
    <3>1. boot = "read" => content[handle] \in Contents
      BY <2>1 DEF TypeOK
    <3> QED
      BY <2>1, <2>7, <3>1 DEF Read, LoadFails, TypeOK
  <2>8. CASE UNCHANGED loadVars
    BY <2>1, <2>8 DEF loadVars, TypeOK
  <2> QED
    BY <2>1, <2>2, <2>3, <2>4, <2>5, <2>6, <2>7, <2>8
       DEF Next, Load, LoadNext, Serve, vars, loadVars
<1> QED
  BY <1>1, <1>2, PTL DEF Spec

-----------------------------------------------------------------------------
(* A tool's answer.                                                        *)

\* An answer says which tool gave it.
LEMMA OpOfAnswer ==
  /\ Images => answer'.op = "images"
  /\ Reddit => answer'.op = "reddit"
  /\ PyPI => answer'.op = "packages"
  /\ Listings => answer'.op \in {"videos", "papers"}
  /\ Docs => answer'.op = "docs"
  /\ Local => answer'.op = "local"
  /\ Synthesis => answer'.op \in {"compare", "summarize", "deep_research"}
  /\ Plan => answer'.op = "plan"
  /\ All => answer'.op = "all"
  /\ Fetched => answer'.op \in {"extract", "tables"}
<1>1. Images => answer'.op = "images"
  BY DEF Images, SearchImages
<1>2. Reddit => answer'.op = "reddit"
  BY DEF Reddit, SearchReddit
<1>3. PyPI => answer'.op = "packages"
  BY DEF PyPI, SearchPackages
<1>4. Listings => answer'.op \in {"videos", "papers"}
  BY DEF Listings, SearchVideos, SearchPapers
<1>5. Docs => answer'.op = "docs"
  BY DEF Docs, SearchDocs
<1>6. Local => answer'.op = "local"
  BY DEF Local, SearchLocalIndex
<1>7. Synthesis => answer'.op \in {"compare", "summarize", "deep_research"}
  BY DEF Synthesis, CompareSources, Summarize, DeepResearch
<1>8. Plan => answer'.op = "plan"
  BY DEF Plan, PlanSearch
<1>9. All => answer'.op = "all"
  BY DEF All, SearchAll
<1>10. Fetched => answer'.op \in {"extract", "tables"}
  BY DEF Fetched, FetchAndExtract, ExtractStructured
<1> QED
  BY <1>1, <1>2, <1>3, <1>4, <1>5, <1>6, <1>7, <1>8, <1>9, <1>10

\* The limit of a request is a positive number.
LEMMA LimitType ==
  ASSUME NEW max \in Nat
  PROVE  /\ Limit(max) \in Nat /\ Limit(max) >= 1 /\ Limit(max) <= MaxLimit
         /\ LocalLimit(max) \in Nat
  BY ResultsAssumption DEF Limit, LocalLimit, AtMost

\* A list cut to a limit begins as it did.
LEMMA TruncatedFacts ==
  ASSUME NEW X, NEW s \in Seq(X), NEW limit \in Nat
  PROVE  /\ Truncated(s, limit) \in Seq(X)
         /\ Len(Truncated(s, limit)) = IF Len(s) < limit THEN Len(s) ELSE limit
         /\ \A i \in 1 .. Len(Truncated(s, limit)) : Truncated(s, limit)[i] = s[i]
         /\ \A i \in 1 .. Len(s) : i <= limit => i \in 1 .. Len(Truncated(s, limit))
  BY DEF Truncated

-----------------------------------------------------------------------------
(* Extraction.                                                             *)

\* Of a page that has text, some is returned.
LEMMA SomeTextIsExtracted ==
  ASSUME NEW page \in Page, page.whole > 0
  PROVE  \E k \in DOMAIN ExtractMainContent(page) : ExtractMainContent(page)[k] > 0
<1> DEFINE inAreas == {i \in DOMAIN page.areas : page.areas[i] > MinArea}
           inParagraphs == {i \in DOMAIN page.paragraphs : page.paragraphs[i] > MinParagraph}
           areas == Picked(page.areas, inAreas)
           long == Picked(page.paragraphs, inParagraphs)
<1>1. page.areas \in Seq(Nat) /\ page.paragraphs \in Seq(Nat) /\ page.whole \in Nat
  BY DEF Page
<1>2. ExtractMainContent(page) =
         CASE areas # <<>> -> <<Head(areas)>>
           [] areas = <<>> /\ long # <<>> -> long
           [] OTHER -> <<page.whole>>
  BY DEF ExtractMainContent, Kept
<1>3. areas \in Seq(Nat) /\ \A k \in DOMAIN areas : areas[k] > 0
  <2>1. inAreas \in SUBSET DOMAIN page.areas
    OBVIOUS
  <2>2. \A i \in inAreas : page.areas[i] > 0
    BY <1>1, ExtractAssumption
  <2> HIDE DEF inAreas
  <2>3. areas \in Seq(Nat)
    BY <1>1, <2>1, PickedFacts
  <2>4. \A k \in DOMAIN areas : \E i \in inAreas : areas[k] = page.areas[i]
    BY <1>1, <2>1, PickedElements
  <2> QED
    BY <2>2, <2>3, <2>4
<1>4. long \in Seq(Nat) /\ \A k \in DOMAIN long : long[k] > 0
  <2>1. inParagraphs \in SUBSET DOMAIN page.paragraphs
    OBVIOUS
  <2>2. \A i \in inParagraphs : page.paragraphs[i] > 0
    BY <1>1, ExtractAssumption
  <2> HIDE DEF inParagraphs
  <2>3. long \in Seq(Nat)
    BY <1>1, <2>1, PickedFacts
  <2>4. \A k \in DOMAIN long : \E i \in inParagraphs : long[k] = page.paragraphs[i]
    BY <1>1, <2>1, PickedElements
  <2> QED
    BY <2>2, <2>3, <2>4
<1> HIDE DEF areas, long
<1>5. CASE areas # <<>>
  BY <1>2, <1>3, <1>5
<1>6. CASE areas = <<>> /\ long # <<>>
  BY <1>2, <1>4, <1>6
<1>7. CASE areas = <<>> /\ long = <<>>
  BY <1>1, <1>2, <1>7
<1> QED
  BY <1>5, <1>6, <1>7

\* A row becomes a map that keeps it.
LEMMA RowMapKeepsRow ==
  ASSUME NEW table \in Seq(Seq(Cell)), NEW row \in Seq(Cell)
  PROVE  KeepsRow(RowMap(Headings(table), row), row, table)
<1> DEFINE heads == Headings(table)
           keys == Keys(heads, row)
           Latest(k) == CHOOSE i \in DOMAIN row :
                           keys[i] = k /\ \A j \in DOMAIN row : keys[j] = k => j <= i
           map == RowMap(heads, row)
<1>1. Len(row) \in Nat /\ DOMAIN row = 1 .. Len(row)
  OBVIOUS
<1>2. /\ DOMAIN keys = DOMAIN row
      /\ \A i \in DOMAIN row :
            keys[i] = IF Len(heads) = Len(row) THEN Under(heads[i].text) ELSE Column(i)
  BY DEF Keys
<1>3. map = [k \in ToSet(keys) |-> row[Latest(k)].text]
  BY DEF RowMap
<1> HIDE DEF heads, keys, map
<1>4. ASSUME NEW i \in DOMAIN row
      PROVE  /\ keys[i] \in DOMAIN map
             /\ Latest(keys[i]) \in DOMAIN row /\ i <= Latest(keys[i])
             /\ keys[Latest(keys[i])] = keys[i]
             /\ map[keys[i]] = row[Latest(keys[i])].text
  <2> DEFINE T == {j \in DOMAIN row : keys[j] = keys[i]}
  <2>1. T \in SUBSET (1 .. Len(row)) /\ T # {}
    BY <1>1, <1>4
  <2>2. PICK l \in T : \A j \in T : j <= l
    BY <1>1, <2>1, GreatestElement
  <2>3. keys[l] = keys[i] /\ \A j \in DOMAIN row : keys[j] = keys[i] => j <= l
    BY <2>2
  <2>4. /\ Latest(keys[i]) \in DOMAIN row /\ keys[Latest(keys[i])] = keys[i]
        /\ \A j \in DOMAIN row : keys[j] = keys[i] => j <= Latest(keys[i])
    BY <2>3
  <2>5. keys[i] \in ToSet(keys)
    BY <1>2, <1>4 DEF ToSet
  <2> HIDE DEF Latest
  <2> QED
    BY <1>3, <1>4, <2>4, <2>5
<1> DEFINE Place(i) == IF Len(heads) = Len(row) THEN Under(heads[i].text) ELSE Column(i)
<1>5. DOMAIN map = {Place(i) : i \in DOMAIN row}
  BY <1>2, <1>3 DEF ToSet
<1> HIDE DEF Latest
<1>6. ASSUME NEW i \in DOMAIN row, \A j \in DOMAIN row : j > i => Place(j) # Place(i)
      PROVE  map[Place(i)] = row[i].text
  <2> DEFINE j == Latest(keys[i])
  <2>1. /\ j \in DOMAIN row /\ i <= j
        /\ keys[j] = keys[i] /\ map[keys[i]] = row[j].text
    BY <1>4
  <2> HIDE DEF j
  <2>2. Place(i) = keys[i] /\ Place(j) = keys[j]
    BY <1>2, <2>1
  <2> HIDE DEF Place
  <2>3. ~(j > i)
    BY <1>6, <2>1, <2>2
  <2>4. j = i
    BY <1>1, <2>1, <2>3
  <2> QED
    BY <2>1, <2>2, <2>4
<1>7. KeepsRow(map, row, table)
  BY <1>5, <1>6 DEF KeepsRow, heads
<1> QED
  BY <1>7 DEF map, heads

\* extract_structured answers as CellsKeepTheirPlace says.
LEMMA TablesStep ==
  ASSUME NEW tables \in FetchedTables, ExtractStructured(tables)
  PROVE  CellsKeepTheirPlace'
<1> DEFINE Full(table) == Kept(table, LAMBDA i : table[i] # <<>>)
           full == [t \in DOMAIN tables |-> Full(tables[t])]
           ss == [t \in DOMAIN tables |->
                     [r \in DOMAIN full[t] |-> RowMap(Headings(tables[t]), full[t][r])]]
           tt == [t \in DOMAIN tables |->
                     [r \in DOMAIN full[t] |-> [row |-> full[t][r], table |-> tables[t]]]]
           X == {RowMap(Headings(table), row) : table \in Seq(Seq(Cell)), row \in Seq(Cell)}
           Y == [row : Seq(Cell), table : Seq(Seq(Cell))]
<1>1. tables \in Seq(Seq(Seq(Cell)))
  BY InputsAssumption
<1>2. /\ answer'.op = "tables" /\ answer'.tables = tables
      /\ answer'.rows = FlattenSeq(ss)
  BY DEF ExtractStructured, ExtractTables
<1>3. RowsWithCells(tables) = FlattenSeq(tt)
  BY DEF RowsWithCells
<1>4. Len(tables) \in Nat /\ DOMAIN tables = 1 .. Len(tables)
  BY <1>1
<1>5. ASSUME NEW t \in DOMAIN tables
      PROVE  tables[t] \in Seq(Seq(Cell)) /\ full[t] \in Seq(Seq(Cell))
  <2>1. tables[t] \in Seq(Seq(Cell))
    BY <1>1, <1>5
  <2> DEFINE at == {i \in DOMAIN tables[t] : tables[t][i] # <<>>}
  <2>2. full[t] = Picked(tables[t], at)
    BY <1>5 DEF Kept
  <2>3. at \in SUBSET DOMAIN tables[t]
    OBVIOUS
  <2> HIDE DEF at
  <2>4. Picked(tables[t], at) \in Seq(Seq(Cell))
    BY <2>1, <2>3, PickedFacts
  <2> QED
    BY <2>1, <2>2, <2>4
<1> HIDE DEF full
<1>6. ASSUME NEW t \in DOMAIN tables
      PROVE  /\ ss[t] \in Seq(X) /\ tt[t] \in Seq(Y)
             /\ Len(ss[t]) = Len(full[t]) /\ Len(tt[t]) = Len(full[t])
             /\ \A r \in 1 .. Len(full[t]) :
                   /\ full[t][r] \in Seq(Cell)
                   /\ ss[t][r] = RowMap(Headings(tables[t]), full[t][r])
                   /\ tt[t][r].row = full[t][r] /\ tt[t][r].table = tables[t]
  <2>1. DOMAIN full[t] = 1 .. Len(full[t]) /\ Len(full[t]) \in Nat
    BY <1>5, <1>6
  <2>2. \A r \in 1 .. Len(full[t]) : full[t][r] \in Seq(Cell)
    BY <1>5, <1>6, <2>1
  <2>3. /\ ss[t] = [r \in 1 .. Len(full[t]) |-> RowMap(Headings(tables[t]), full[t][r])]
        /\ tt[t] = [r \in 1 .. Len(full[t]) |-> [row |-> full[t][r], table |-> tables[t]]]
    BY <1>6, <2>1
  <2>4. \A r \in 1 .. Len(full[t]) : RowMap(Headings(tables[t]), full[t][r]) \in X
    BY <1>5, <1>6, <2>2
  <2>5. \A r \in 1 .. Len(full[t]) : [row |-> full[t][r], table |-> tables[t]] \in Y
    BY <1>5, <1>6, <2>2
  <2> HIDE DEF ss, tt, X, Y
  <2>6. ss[t] \in [1 .. Len(full[t]) -> X] /\ tt[t] \in [1 .. Len(full[t]) -> Y]
    BY <2>3, <2>4, <2>5
  <2>7. ss[t] \in Seq(X) /\ tt[t] \in Seq(Y) /\ Len(ss[t]) = Len(full[t]) /\ Len(tt[t]) = Len(full[t])
    BY <2>1, <2>6, SeqOfFunction
  <2> QED
    BY <2>2, <2>3, <2>7
<1>7. /\ DOMAIN ss = 1 .. Len(tables) /\ DOMAIN tt = 1 .. Len(tables)
  BY <1>4
<1> HIDE DEF ss, tt, X, Y
<1>8. /\ ss \in Seq(Seq(X)) /\ tt \in Seq(Seq(Y))
      /\ Len(ss) = Len(tt) /\ Len(ss) = Len(tables)
      /\ \A t \in 1 .. Len(ss) : Len(ss[t]) = Len(tt[t])
  <2>1. \A t \in 1 .. Len(tables) : ss[t] \in Seq(X) /\ tt[t] \in Seq(Y)
    BY <1>4, <1>6
  <2>2. ss \in [1 .. Len(tables) -> Seq(X)] /\ tt \in [1 .. Len(tables) -> Seq(Y)]
    BY <1>2, <1>7, <2>1 DEF ss, tt
  <2>3. ss \in Seq(Seq(X)) /\ tt \in Seq(Seq(Y)) /\ Len(ss) = Len(tables) /\ Len(tt) = Len(tables)
    BY <1>4, <2>2
  <2> QED
    BY <1>4, <1>6, <2>3
<1>9. /\ FlattenSeq(ss) \in Seq(X) /\ FlattenSeq(tt) \in Seq(Y)
      /\ \E at : /\ PlacesOf(at, FlattenSeq(ss), ss, Len(ss))
                 /\ PlacesOf(at, FlattenSeq(tt), tt, Len(tt))
  BY <1>8, FlattenPlaces
<1>10. PICK at : /\ PlacesOf(at, FlattenSeq(ss), ss, Len(ss))
                 /\ PlacesOf(at, FlattenSeq(tt), tt, Len(tt))
  BY <1>9
<1> DEFINE rows == FlattenSeq(ss)
           of == FlattenSeq(tt)
<1> HIDE DEF rows, of
<1>11. /\ Len(rows) = Len(at) /\ Len(of) = Len(at)
       /\ \A r \in 1 .. Len(at) :
             /\ at[r][1] \in 1 .. Len(tables) /\ at[r][2] \in 1 .. Len(ss[at[r][1]])
             /\ rows[r] = ss[at[r][1]][at[r][2]] /\ of[r] = tt[at[r][1]][at[r][2]]
  BY <1>8, <1>10 DEF PlacesOf, rows, of
<1>12. ASSUME NEW r \in DOMAIN of
       PROVE  KeepsRow(rows[r], of[r].row, of[r].table)
  <2>1. r \in 1 .. Len(at)
    BY <1>9, <1>11 DEF of
  <2> DEFINE t == at[r][1]
             i == at[r][2]
  <2>2. /\ t \in 1 .. Len(tables) /\ i \in 1 .. Len(ss[t])
        /\ rows[r] = ss[t][i] /\ of[r] = tt[t][i]
    BY <1>11, <2>1
  <2> HIDE DEF t, i
  <2>3. t \in DOMAIN tables /\ i \in 1 .. Len(full[t])
    BY <1>4, <1>6, <2>2
  <2>4. /\ full[t][i] \in Seq(Cell) /\ tables[t] \in Seq(Seq(Cell))
        /\ rows[r] = RowMap(Headings(tables[t]), full[t][i])
        /\ of[r].row = full[t][i] /\ of[r].table = tables[t]
    BY <1>5, <1>6, <2>2, <2>3
  <2> QED
    BY <2>4, RowMapKeepsRow
<1>13. Len(rows) = Len(of)
  BY <1>11
<1> QED
  BY <1>2, <1>3, <1>12, <1>13 DEF CellsKeepTheirPlace, rows, of

-----------------------------------------------------------------------------
(* Official documentation.                                                 *)

\* The backend is always asked for as many pages as officialDocsFetchLimit says.
LEMMA ScopedLimitType ==
  ASSUME NEW max \in Nat
  PROVE  /\ Limit(ScopedLimit(max)) \in Nat
         /\ FetchLimit <= Limit(ScopedLimit(max))
<1>1. ScopedLimit(max) \in Nat /\ FetchLimit <= ScopedLimit(max)
  BY ResultsAssumption DEF ScopedLimit
<1> HIDE DEF ScopedLimit
<1> QED
  BY <1>1, ResultsAssumption DEF Limit, AtMost

\* What Approved returns: pages of the library, and some if there is any.
LEMMA ApprovedFacts ==
  ASSUME NEW s \in Seq(Address), NEW library, NEW max \in Nat
  PROVE  /\ Approved(s, library, max) \in Seq(Address)
         /\ \A i \in DOMAIN Approved(s, library, max) :
               LibraryOf[Approved(s, library, max)[i]] = library
         /\ (\E i \in DOMAIN s : LibraryOf[s[i]] = library) => Approved(s, library, max) # <<>>
<1> DEFINE at == {i \in DOMAIN s : LibraryOf[s[i]] = library}
           p == Picked(s, at)
           a == Approved(s, library, max)
<1>1. at \in SUBSET DOMAIN s
  OBVIOUS
<1>2. a = Truncated(p, Limit(max))
  BY DEF Approved, Kept
<1>3. \A i \in at : LibraryOf[s[i]] = library
  OBVIOUS
<1>4. (\E i \in DOMAIN s : LibraryOf[s[i]] = library) => at # {}
  OBVIOUS
<1> HIDE DEF at
<1>5. p \in Seq(Address)
  BY <1>1, PickedFacts
<1>6. /\ \A k \in DOMAIN p : \E i \in at : p[k] = s[i]
      /\ p = <<>> <=> at = {}
  BY <1>1, PickedElements
<1>7. Limit(max) \in Nat /\ Limit(max) >= 1
  BY LimitType
<1> HIDE DEF p, a
<1>8. /\ a \in Seq(Address)
      /\ Len(a) = IF Len(p) < Limit(max) THEN Len(p) ELSE Limit(max)
      /\ \A i \in 1 .. Len(a) : a[i] = p[i]
  BY <1>2, <1>5, <1>7, TruncatedFacts
<1>9. \A i \in DOMAIN a : LibraryOf[a[i]] = library
  <2>1. \A i \in DOMAIN a : i \in DOMAIN p /\ a[i] = p[i]
    BY <1>5, <1>7, <1>8
  <2> QED
    BY <1>3, <1>6, <2>1
<1>10. p # <<>> => a # <<>>
  <2>1. p # <<>> => Len(p) \in Nat /\ Len(p) # 0
    BY <1>5
  <2> QED
    BY <1>7, <1>8, <2>1
<1> QED
  BY <1>4, <1>6, <1>8, <1>9, <1>10 DEF a

\* makeDocOficialHandler and official_docs.go answer as DocsAreOfficial says.
LEMMA DocsStep ==
  ASSUME NEW named \in Named, NEW scoped \in Pages, NEW max \in Limits,
         SearchDocs(named, scoped, max)
  PROVE  DocsAreOfficial'
<1> DEFINE found == Truncated(scoped, Limit(ScopedLimit(max)))
           library == CHOOSE l \in named : TRUE
           official == IF Cardinality(named) # 1 THEN <<>> ELSE Approved(found, library, max)
<1>1. /\ answer'.op = "docs" /\ answer'.named = named /\ answer'.scoped = scoped
      /\ answer'.strategy = IF official # <<>> THEN "registry" ELSE "fallback"
      /\ answer'.source = IF official # <<>> THEN "official_docs" ELSE "web"
      /\ answer'.results = official
  BY DEF SearchDocs
<1>2. max \in Nat /\ scoped \in Seq(Address) /\ IsFiniteSet(named)
  BY ResultsAssumption, InputsAssumption
<1>3. /\ found \in Seq(Address)
      /\ \A i \in 1 .. Len(found) : found[i] = scoped[i]
      /\ \A i \in 1 .. Len(scoped) : i <= Limit(ScopedLimit(max)) => i \in 1 .. Len(found)
  BY <1>2, ScopedLimitType, TruncatedFacts
<1>4. Cardinality(named) = 1 => named = {library}
  <2>1. SUFFICES ASSUME Cardinality(named) = 1 PROVE named = {library}
    OBVIOUS
  <2>2. PICK x : named = {x}
    BY <1>2, <2>1, FS_Singleton
  <2> QED
    BY <2>2
<1> HIDE DEF found, library
<1>5. /\ Approved(found, library, max) \in Seq(Address)
      /\ \A i \in DOMAIN Approved(found, library, max) :
            LibraryOf[Approved(found, library, max)[i]] = library
      /\ (\E i \in DOMAIN found : LibraryOf[found[i]] = library) =>
            Approved(found, library, max) # <<>>
  BY <1>2, <1>3, ApprovedFacts
<1>6. ASSUME Cardinality(named) = 1,
             NEW i \in 1 .. FetchLimit, i \in DOMAIN scoped, LibraryOf[scoped[i]] \in named
      PROVE  official # <<>>
  <2>1. i \in 1 .. Len(found) /\ found[i] = scoped[i]
    <3>1. i \in 1 .. Len(scoped) /\ i \in Nat /\ i <= FetchLimit /\ FetchLimit \in Nat
      BY <1>2, <1>6, ResultsAssumption
    <3>2. Limit(ScopedLimit(max)) \in Nat /\ FetchLimit <= Limit(ScopedLimit(max))
      BY <1>2, ScopedLimitType
    <3>3. i <= Limit(ScopedLimit(max))
      BY <3>1, <3>2
    <3> QED
      BY <1>3, <3>1, <3>3
  <2>2. i \in DOMAIN found /\ LibraryOf[found[i]] = library
    BY <1>3, <1>4, <1>6, <2>1
  <2> QED
    BY <1>5, <1>6, <2>2
<1>7. official # <<>> =>
         /\ Cardinality(named) = 1
         /\ 1 \in DOMAIN official
         /\ \A i \in DOMAIN official : LibraryOf[official[i]] \in named
  <2>1. SUFFICES ASSUME official # <<>>
                 PROVE  /\ Cardinality(named) = 1
                        /\ 1 \in DOMAIN official
                        /\ \A i \in DOMAIN official : LibraryOf[official[i]] \in named
    OBVIOUS
  <2>2. Cardinality(named) = 1 /\ official = Approved(found, library, max)
    BY <2>1
  <2> HIDE DEF official
  <2>3. 1 \in DOMAIN official
    BY <1>5, <2>1, <2>2
  <2> QED
    BY <1>4, <1>5, <2>2, <2>3
<1> HIDE DEF official
<1> QED
  BY <1>1, <1>6, <1>7 DEF DocsAreOfficial

-----------------------------------------------------------------------------
(* Videos and papers.                                                      *)

\* The places looked at are those of the items wanted, in their order.
LEMMA LookedAtFacts ==
  ASSUME NEW raw \in Seq(Address), NEW max \in Nat, NEW wanted
  PROVE  LET at == LookedAt(raw, max, wanted)
         IN  /\ at \in Seq(Nat) /\ Len(at) <= Limit(max)
             /\ \A k \in DOMAIN at : /\ at[k] \in DOMAIN raw /\ raw[at[k]] \in wanted
                                     /\ at[k] >= 1 /\ at[k] <= Limit(max)
             /\ \A i \in DOMAIN raw : i <= Limit(max) /\ raw[i] \in wanted =>
                   \E k \in DOMAIN at : at[k] = i
             /\ \A j, k \in DOMAIN at : j < k => at[j] < at[k]
<1> DEFINE places == {i \in DOMAIN raw : i <= Limit(max) /\ raw[i] \in wanted}
           at == LookedAt(raw, max, wanted)
           n == Cardinality(places)
<1>1. Limit(max) \in Nat
  BY LimitType
<1>2. at = InOrder(places)
  BY DEF LookedAt
<1>3. places \in SUBSET (1 .. Limit(max))
  BY <1>1
<1>4. \A i \in places : /\ i \in DOMAIN raw /\ raw[i] \in wanted
                        /\ i \in Nat /\ i >= 1 /\ i <= Limit(max)
  BY <1>1
<1>5. \A i \in DOMAIN raw : i <= Limit(max) /\ raw[i] \in wanted => i \in places
  OBVIOUS
<1> HIDE DEF places
<1>6. /\ n \in Nat /\ n <= Limit(max)
      /\ at \in [1 .. n -> places]
      /\ \A i \in places : \E k \in 1 .. n : at[k] = i
      /\ \A j, k \in 1 .. n : j < k <=> at[j] < at[k]
  BY <1>1, <1>2, <1>3, InOrderFacts
<1> HIDE DEF at, n
<1>7. at \in [1 .. n -> Nat] /\ DOMAIN at = 1 .. n
  BY <1>4, <1>6
<1>8. at \in Seq(Nat) /\ Len(at) = n
  BY <1>6, <1>7
<1> QED
  BY <1>4, <1>5, <1>6, <1>7, <1>8 DEF at

\* A search of videos or papers answers as ListingsInOrder says.
LEMMA ListingsStep ==
  ASSUME NEW raw \in Pages, NEW max \in Limits,
         SearchVideos(raw, max) \/ SearchPapers(raw, max)
  PROVE  ListingsInOrder'
<1>1. raw \in Seq(Address) /\ max \in Nat
  BY ResultsAssumption, InputsAssumption
<1>2. Limit(max) \in Nat
  BY <1>1, LimitType
<1>3. ASSUME SearchVideos(raw, max)
      PROVE  ListingsInOrder'
  <2> DEFINE at == LookedAt(raw, max, IsVideo)
             r == [k \in DOMAIN at |-> [url |-> raw[at[k]], score |-> Limit(max) - (k - 1)]]
  <2>1. /\ answer'.op = "videos" /\ answer'.raw = raw /\ answer'.max = max
        /\ answer'.results = r
    BY <1>3 DEF SearchVideos
  <2>2. /\ at \in Seq(Nat) /\ Len(at) <= Limit(max)
        /\ \A k \in DOMAIN at : at[k] \in DOMAIN raw /\ raw[at[k]] \in IsVideo
        /\ \A i \in DOMAIN raw : i <= Limit(max) /\ raw[i] \in IsVideo =>
              \E k \in DOMAIN at : at[k] = i
    BY <1>1, LookedAtFacts
  <2> HIDE DEF at
  <2>3. /\ DOMAIN r = DOMAIN at /\ Len(r) <= Limit(max)
        /\ \A k \in DOMAIN r : r[k].url = raw[at[k]] /\ r[k].score = Limit(max) - (k - 1)
    BY <2>2
  <2>4. \A k \in DOMAIN r : k \in Nat /\ 1 <= k /\ k <= Limit(max)
    BY <1>2, <2>2, <2>3
  <2> HIDE DEF r
  <2>5. \A k \in DOMAIN r : r[k].score > 0
    BY <1>2, <2>3, <2>4
  <2>6. \A j, k \in DOMAIN r : j < k => r[j].score > r[k].score
    BY <1>2, <2>3, <2>4
  <2>7. \A k \in DOMAIN r : r[k].url \in IsVideo
    BY <2>2, <2>3
  <2>8. \A i \in DOMAIN raw : i <= Limit(max) /\ raw[i] \in IsVideo =>
           \E k \in DOMAIN r : r[k].url = raw[i]
    BY <2>2, <2>3
  <2> QED
    BY <2>1, <2>3, <2>5, <2>6, <2>7, <2>8 DEF ListingsInOrder
<1>4. ASSUME SearchPapers(raw, max)
      PROVE  ListingsInOrder'
  <2> DEFINE at == LookedAt(raw, max, IsPaper)
             r == [k \in DOMAIN at |-> [url |-> raw[at[k]], score |-> Limit(max) - (at[k] - 1),
                                       citation |-> at[k] - 1]]
  <2>1. /\ answer'.op = "papers" /\ answer'.raw = raw /\ answer'.max = max
        /\ answer'.results = r
    BY <1>4 DEF SearchPapers
  <2>2. /\ at \in Seq(Nat) /\ Len(at) <= Limit(max)
        /\ \A k \in DOMAIN at : /\ at[k] \in DOMAIN raw /\ raw[at[k]] \in IsPaper
                                /\ at[k] >= 1 /\ at[k] <= Limit(max)
        /\ \A i \in DOMAIN raw : i <= Limit(max) /\ raw[i] \in IsPaper =>
              \E k \in DOMAIN at : at[k] = i
        /\ \A j, k \in DOMAIN at : j < k => at[j] < at[k]
    BY <1>1, LookedAtFacts
  <2> HIDE DEF at
  <2>3. /\ DOMAIN r = DOMAIN at /\ Len(r) <= Limit(max)
        /\ \A k \in DOMAIN r : /\ r[k].url = raw[at[k]]
                               /\ r[k].score = Limit(max) - (at[k] - 1)
                               /\ r[k].citation = at[k] - 1
    BY <2>2
  <2>4. \A k \in DOMAIN r : at[k] \in Nat
    BY <2>2, <2>3
  <2> HIDE DEF r
  <2>5. \A k \in DOMAIN r : r[k].score > 0
    BY <1>2, <2>2, <2>3, <2>4
  <2>6. \A j, k \in DOMAIN r : j < k =>
           r[j].score > r[k].score /\ r[j].citation # r[k].citation
    <3>1. SUFFICES ASSUME NEW j \in DOMAIN r, NEW k \in DOMAIN r, j < k
                   PROVE  r[j].score > r[k].score /\ r[j].citation # r[k].citation
      OBVIOUS
    <3>2. at[j] < at[k] /\ at[j] \in Nat /\ at[k] \in Nat
      BY <2>2, <2>3, <2>4, <3>1
    <3> QED
      BY <1>2, <2>3, <3>2
  <2>7. \A k \in DOMAIN r : r[k].url \in IsPaper
    BY <2>2, <2>3
  <2>8. \A i \in DOMAIN raw : i <= Limit(max) /\ raw[i] \in IsPaper =>
           \E k \in DOMAIN r : r[k].url = raw[i]
    BY <2>2, <2>3
  <2> QED
    BY <2>1, <2>3, <2>5, <2>6, <2>7, <2>8 DEF ListingsInOrder
<1> QED
  BY <1>3, <1>4

-----------------------------------------------------------------------------
(* Posts and packages.                                                     *)

\* The forms of a list of n elements.
Forms(matches, form, n, none) ==
    \A q : q \in matches <=> q # none /\ \E i \in 1 .. n : form[i] = q

\* The indices of elements that have a form.
Formed(at, form, n, none) ==
    at \in SUBSET (1 .. n) /\ \A i \in 1 .. n : i \in at <=> form[i] # none

\* p has the forms of the elements that h lists.
FormsAt(p, form, h, m) == \A k \in 1 .. m : p[k] = form[h[k]]

\* Where each form comes first.
AtFirst(first, matches, form, n) ==
    \A q \in matches : /\ first[q] \in 1 .. n /\ form[first[q]] = q
                       /\ \A j \in 1 .. first[q] - 1 : form[j] # q

\* How many of the forms come first no later than q does.
Place(q, matches, first) == Cardinality({x \in matches : first[x] <= first[q]})

\* The first of each form, in the order of a list: the place of a form among the results
\* is the number of forms that come first no later than it does.
LEMMA FirstOfEach ==
  ASSUME NEW n \in Nat, NEW form, NEW none, NEW at, Formed(at, form, n, none),
         NEW m, NEW h, ListsFirst(h, m, at, Up(at), form),
         NEW p, FormsAt(p, form, h, m),
         NEW matches, Forms(matches, form, n, none),
         NEW first, AtFirst(first, matches, form, n)
  PROVE  /\ \A k \in 1 .. m : p[k] \in matches
         /\ \A q \in matches :
               Place(q, matches, first) \in 1 .. m /\ p[Place(q, matches, first)] = q
<1>0. /\ \A q : q \in matches <=> q # none /\ \E i \in 1 .. n : form[i] = q
      /\ \A q \in matches : /\ first[q] \in 1 .. n /\ form[first[q]] = q
                            /\ \A j \in 1 .. first[q] - 1 : form[j] # q
      /\ at \in SUBSET (1 .. n) /\ \A i \in 1 .. n : i \in at <=> form[i] # none
      /\ \A k \in 1 .. m : p[k] = form[h[k]]
  BY DEF Forms, AtFirst, Formed, FormsAt
<1>1. /\ m \in Nat /\ h \in [1 .. m -> at]
      /\ \A j, k \in 1 .. m : j < k <=> h[j] < h[k]
      /\ \A j, k \in 1 .. m : form[h[j]] = form[h[k]] => j = k
      /\ \A x \in at : \E k \in 1 .. m : form[h[k]] = form[x] /\ (h[k] = x \/ h[k] < x)
  <2>1. \A i, j \in at : <<i, j>> \in Up(at) <=> i < j
    BY DEF Up
  <2>2. h \in [1 .. m -> at] /\ \A k \in 1 .. m : h[k] \in at
    BY DEF ListsFirst
  <2>3. ASSUME NEW x \in at
        PROVE  \E k \in 1 .. m : form[h[k]] = form[x] /\ (h[k] = x \/ h[k] < x)
    <3>1. PICK k \in 1 .. m : form[h[k]] = form[x] /\ (h[k] = x \/ <<h[k], x>> \in Up(at))
      BY <2>3 DEF ListsFirst
    <3> QED
      BY <2>1, <2>2, <3>1
  <2>4. ASSUME NEW j \in 1 .. m, NEW k \in 1 .. m
        PROVE  j < k <=> h[j] < h[k]
    BY <2>1, <2>2 DEF ListsFirst
  <2> QED
    BY <2>2, <2>3, <2>4 DEF ListsFirst
<1>2. ASSUME NEW k \in 1 .. m
      PROVE  h[k] \in at /\ h[k] \in 1 .. n /\ p[k] = form[h[k]] /\ p[k] \in matches
  <2>1. h[k] \in at /\ h[k] \in 1 .. n /\ p[k] = form[h[k]]
    BY <1>0, <1>1, <1>2
  <2>2. form[h[k]] # none
    BY <1>0, <2>1
  <2> QED
    BY <1>0, <2>1, <2>2
\* Each result's place in the list is that of the first one with its form.
<1>3. ASSUME NEW k \in 1 .. m
      PROVE  first[p[k]] = h[k]
  <2>1. h[k] \in at /\ h[k] \in 1 .. n /\ p[k] \in matches /\ form[h[k]] = p[k]
    BY <1>2
  <2>2. /\ first[p[k]] \in 1 .. n /\ form[first[p[k]]] = p[k]
        /\ \A j \in 1 .. first[p[k]] - 1 : form[j] # p[k]
    BY <1>0, <2>1
  <2>3. first[p[k]] \in at
    BY <1>0, <2>1, <2>2
  <2>4. PICK l \in 1 .. m : /\ form[h[l]] = form[first[p[k]]]
                            /\ h[l] = first[p[k]] \/ h[l] < first[p[k]]
    BY <1>1, <2>3
  <2>5. l = k
    BY <1>1, <2>1, <2>2, <2>4
  <2>6. ~(h[k] < first[p[k]])
    BY <2>1, <2>2
  <2> QED
    BY <2>4, <2>5, <2>6
<1>4. \A j, k \in 1 .. m : j <= k <=> first[p[j]] <= first[p[k]]
  <2>1. SUFFICES ASSUME NEW j \in 1 .. m, NEW k \in 1 .. m
                 PROVE  j <= k <=> first[p[j]] <= first[p[k]]
    OBVIOUS
  <2>2. first[p[j]] = h[j] /\ first[p[k]] = h[k] /\ h[j] \in Nat /\ h[k] \in Nat
    BY <1>2, <1>3
  <2>3. k < j <=> h[k] < h[j]
    BY <1>1
  <2>4. j \in Nat /\ k \in Nat
    BY <1>1
  <2>5. (j <= k <=> ~(k < j)) /\ (h[j] <= h[k] <=> ~(h[k] < h[j]))
    BY <2>2, <2>4
  <2> QED
    BY <2>2, <2>3, <2>5
<1>5. \A q \in matches : \E k \in 1 .. m : p[k] = q
  <2>1. SUFFICES ASSUME NEW q \in matches PROVE \E k \in 1 .. m : p[k] = q
    OBVIOUS
  <2>2. PICK i \in at : form[i] = q
    BY <1>0
  <2>3. PICK k \in 1 .. m : form[h[k]] = form[i]
    BY <1>1
  <2> QED
    BY <1>2, <2>2, <2>3
<1>6. ASSUME NEW q \in matches
      PROVE  Place(q, matches, first) \in 1 .. m /\ p[Place(q, matches, first)] = q
  <2>1. PICK k \in 1 .. m : p[k] = q
    BY <1>5
  <2> DEFINE upTo == {x \in matches : first[x] <= first[q]}
  <2>2. upTo = {p[j] : j \in 1 .. k}
    <3>1. \A j \in 1 .. k : j \in 1 .. m /\ j <= k
      BY <1>1
    <3>2. \A j \in 1 .. k : p[j] \in upTo
      BY <1>2, <1>4, <2>1, <3>1
    <3>3. ASSUME NEW x \in upTo
          PROVE  \E j \in 1 .. k : p[j] = x
      <4>1. PICK j \in 1 .. m : p[j] = x
        BY <1>5
      <4>2. j <= k
        BY <1>4, <2>1, <3>3, <4>1
      <4> QED
        BY <1>1, <4>1, <4>2
    <3>4. upTo \subseteq {p[j] : j \in 1 .. k}
      BY <3>3
    <3>5. {p[j] : j \in 1 .. k} \subseteq upTo
      BY <3>2
    <3> QED
      BY <3>4, <3>5
  <2>3. \A i, j \in 1 .. k : p[i] = p[j] => i = j
    <3>1. SUFFICES ASSUME NEW i \in 1 .. k, NEW j \in 1 .. k, p[i] = p[j] PROVE i = j
      OBVIOUS
    <3>2. i \in 1 .. m /\ j \in 1 .. m
      BY <1>1
    <3>3. form[h[i]] = form[h[j]]
      BY <1>2, <3>1, <3>2
    <3> QED
      BY <1>1, <3>2, <3>3
  <2> HIDE DEF upTo
  <2>4. Cardinality(upTo) = k
    <3>1. k \in Nat
      BY <1>1
    <3> QED
      BY <2>2, <2>3, <3>1, ImageCount
  <2> QED
    BY <2>1, <2>4 DEF upTo, Place
<1> QED
  BY <1>2, <1>6

\* The forms of posts without those that occurred before.
FormsOnce(posts, fm) ==
    LET forms == [k \in DOMAIN posts |-> fm[posts[k]]]
    IN  Picked(forms, {k \in DOMAIN forms : \A j \in 1 .. k - 1 : forms[j] # forms[k]})

\* Filtering a list by form and dropping repeated forms lists the first of each form.
LEMMA FormsListed ==
  ASSUME NEW X, NEW raw \in Seq(X), NEW at \in SUBSET DOMAIN raw,
         NEW Y, NEW fm, \A x \in X : fm[x] \in Y,
         NEW form, \A i \in DOMAIN raw : form[i] = fm[raw[i]]
  PROVE  LET results == FormsOnce(Picked(raw, at), fm)
         IN  /\ results \in Seq(Y)
             /\ \E h : /\ ListsFirst(h, Len(results), at, Up(at), form)
                       /\ \A k \in 1 .. Len(results) : results[k] = form[h[k]]
<1> DEFINE posts == Picked(raw, at)
           forms == [k \in DOMAIN posts |-> fm[posts[k]]]
           kept == {k \in DOMAIN forms : \A j \in 1 .. k - 1 : forms[j] # forms[k]}
           results == Picked(forms, kept)
           f == InOrder(at)
           g == InOrder(kept)
           c == Cardinality(at)
           m == Cardinality(kept)
           h == [k \in 1 .. m |-> f[g[k]]]
<1>1. Len(raw) \in Nat /\ DOMAIN raw = 1 .. Len(raw)
  OBVIOUS
<1>2. /\ c \in Nat /\ f \in [1 .. c -> at] /\ posts \in Seq(X)
      /\ DOMAIN posts = 1 .. c /\ \A k \in 1 .. c : posts[k] = raw[f[k]]
  BY PickedFacts
<1>3. Lists(f, c, at, Up(at))
  BY <1>1, InOrderLists
<1>4. kept \in SUBSET DOMAIN forms /\ DOMAIN forms = DOMAIN posts
  OBVIOUS
<1>5. \A k \in DOMAIN forms : k \in kept <=> \A j \in 1 .. k - 1 : forms[j] # forms[k]
  OBVIOUS
<1>6. \A k \in DOMAIN posts : forms[k] = fm[posts[k]]
  OBVIOUS
<1> HIDE DEF f, c, kept, posts
<1>7. /\ forms \in Seq(Y) /\ Len(forms) = c /\ DOMAIN forms = 1 .. c
      /\ \A k \in 1 .. c : forms[k] = form[f[k]]
  <2>1. \A k \in 1 .. c : forms[k] \in Y
    <3>1. SUFFICES ASSUME NEW k \in 1 .. c PROVE forms[k] \in Y
      OBVIOUS
    <3>2. forms[k] = fm[posts[k]] /\ posts[k] \in X
      BY <1>2, <1>6
    <3> QED
      BY <3>2
  <2>2. forms \in [1 .. c -> Y]
    BY <1>2, <2>1
  <2> HIDE DEF forms
  <2>3. forms \in Seq(Y) /\ Len(forms) = c /\ DOMAIN forms = 1 .. c
    BY <1>2, <2>2
  <2>4. ASSUME NEW k \in 1 .. c PROVE forms[k] = form[f[k]]
    <3>1. f[k] \in DOMAIN raw /\ posts[k] = raw[f[k]]
      BY <1>2, <2>4
    <3> QED
      BY <1>2, <1>6, <3>1, <2>4
  <2> QED
    BY <2>3, <2>4
<1> HIDE DEF forms
<1>8. FirstWith(kept, c, forms)
  <2> DEFINE key == [y \in Y |-> y]
  <2>1. \A k \in DOMAIN forms : forms[k] = key[forms[k]]
    BY <1>7
  <2> HIDE DEF key
  <2>2. ASSUME NEW k \in DOMAIN forms
        PROVE  k \in kept <=> \A j \in 1 .. k - 1 : key[forms[j]] # key[forms[k]]
    <3>1. \A j \in 1 .. k - 1 : j \in DOMAIN forms
      BY <1>2, <1>7
    <3> QED
      BY <1>5, <2>1, <3>1
  <2>3. \A v : (\A k \in DOMAIN forms : v[k] = key[forms[k]]) => FirstWith(kept, Len(forms), v)
    <3>1. NotBefore(kept, forms, key)
      BY <2>2 DEF NotBefore
    <3> QED
      BY <1>4, <1>7, <3>1, FirstIndices
  <2> QED
    BY <1>7, <2>1, <2>3
<1>9. Lists(g, m, kept, Up(kept)) /\ m \in Nat
  <2>1. kept \in SUBSET (1 .. c)
    BY <1>4, <1>7
  <2>2. Lists(g, m, kept, Up(kept))
    BY <1>2, <2>1, InOrderLists
  <2> QED
    BY <2>2 DEF Lists
<1>10. /\ results \in Seq(Y) /\ Len(results) = m
       /\ \A k \in 1 .. m : results[k] = forms[g[k]]
  BY <1>4, <1>7, PickedFacts
<1> HIDE DEF g, m
<1>11. \A k \in 1 .. c : forms[k] = form[f[k]]
  BY <1>7
<1>12. ListsFirst(h, m, at, Up(at), form)
  BY <1>3, <1>8, <1>9, <1>11, FirstInOrder
<1>13. \A k \in 1 .. m : results[k] = form[h[k]]
  <2>1. SUFFICES ASSUME NEW k \in 1 .. m PROVE results[k] = form[h[k]]
    OBVIOUS
  <2>2. g \in [1 .. m -> kept] /\ kept \in SUBSET (1 .. c)
    BY <1>4, <1>7, <1>9 DEF Lists
  <2>3. g[k] \in 1 .. c /\ h[k] = f[g[k]]
    BY <2>2
  <2> QED
    BY <1>10, <1>11, <2>3
<1> HIDE DEF h, results
<1>14. results \in Seq(Y)
       /\ \E hh : /\ ListsFirst(hh, Len(results), at, Up(at), form)
                  /\ \A k \in 1 .. Len(results) : results[k] = form[hh[k]]
  BY <1>10, <1>12, <1>13
<1>15. FormsOnce(posts, fm) = results
  BY DEF FormsOnce, results, kept, forms
<1> QED
  BY <1>14, <1>15 DEF posts

\* Cut to a limit, they are the first ones in the words of FirstMatches.
LEMMA FirstResults ==
  ASSUME NEW X, NEW raw \in Seq(X), NEW fm, NEW limit \in Nat
  PROVE  LET at == {i \in DOMAIN raw : fm[raw[i]] # NoURL}
         IN  FirstForms([i \in DOMAIN raw |-> fm[raw[i]]], limit,
                        Truncated(FormsOnce(Picked(raw, at), fm), limit))
<1> DEFINE at == {i \in DOMAIN raw : fm[raw[i]] # NoURL}
           form == [i \in DOMAIN raw |-> fm[raw[i]]]
           p == FormsOnce(Picked(raw, at), fm)
           n == Len(raw)
           m == Len(p)
           Y == {fm[x] : x \in X}
           matches == {form[i] : i \in DOMAIN form} \ {NoURL}
           First(q) == CHOOSE i \in DOMAIN form :
                           form[i] = q /\ \A j \in 1 .. i - 1 : form[j] # q
           first == [q \in matches |-> First(q)]
<1>1. n \in Nat /\ DOMAIN form = 1 .. n /\ at \in SUBSET DOMAIN raw /\ DOMAIN raw = 1 .. n
  OBVIOUS
<1>2. /\ \A i \in DOMAIN raw : i \in at <=> fm[raw[i]] # NoURL
      /\ \A i \in DOMAIN raw : form[i] = fm[raw[i]]
      /\ \A x \in X : fm[x] \in Y
  OBVIOUS
<1> HIDE DEF at, form, Y
<1>3. p \in Seq(Y) /\ \E h : /\ ListsFirst(h, m, at, Up(at), form)
                             /\ \A k \in 1 .. m : p[k] = form[h[k]]
  <2>1. at \in SUBSET DOMAIN raw
    BY <1>1
  <2>2. \A x \in X : fm[x] \in Y
    BY <1>2
  <2>3. \A i \in DOMAIN raw : form[i] = fm[raw[i]]
    BY <1>2
  <2> QED
    BY <2>1, <2>2, <2>3, FormsListed
<1> HIDE DEF p
<1>4. PICK h : /\ ListsFirst(h, m, at, Up(at), form)
               /\ \A k \in 1 .. m : p[k] = form[h[k]]
  BY <1>3
<1>5. m \in Nat /\ DOMAIN p = 1 .. m
  BY <1>3
<1>6. Forms(matches, form, n, NoURL)
  BY <1>1 DEF Forms
<1>7. \A q \in matches : first[q] = First(q)
  OBVIOUS
<1> HIDE DEF n, m, matches, first
<1>8. ASSUME NEW q \in matches
      PROVE  /\ First(q) \in 1 .. n /\ form[First(q)] = q
             /\ \A j \in 1 .. First(q) - 1 : form[j] # q
  <2> DEFINE T == {i \in 1 .. n : form[i] = q}
  <2>1. T \in SUBSET Nat /\ T # {}
    BY <1>6, <1>8 DEF Forms
  <2>2. PICK i \in T : \A j \in T : i <= j
    BY <2>1, LeastElement
  <2>3. i \in 1 .. n /\ form[i] = q
    OBVIOUS
  <2>4. ASSUME NEW j \in 1 .. i - 1, form[j] = q PROVE FALSE
    <3>1. j \in T /\ j < i
      BY <1>1, <2>3, <2>4
    <3> QED
      BY <1>1, <2>2, <2>3, <3>1
  <2> QED
    BY <1>1, <2>3, <2>4
<1> HIDE DEF First
<1>9. AtFirst(first, matches, form, n)
  <2>1. SUFFICES ASSUME NEW q \in matches
                 PROVE  /\ first[q] \in 1 .. n /\ form[first[q]] = q
                        /\ \A j \in 1 .. first[q] - 1 : form[j] # q
    BY DEF AtFirst
  <2> QED
    BY <1>7, <1>8
<1>10. /\ \A k \in 1 .. m : p[k] \in matches
       /\ \A q \in matches :
             Place(q, matches, first) \in 1 .. m /\ p[Place(q, matches, first)] = q
  <2>1. Formed(at, form, n, NoURL)
    BY <1>1, <1>2 DEF Formed
  <2>2. FormsAt(p, form, h, m) /\ ListsFirst(h, m, at, Up(at), form)
    BY <1>4 DEF FormsAt
  <2> QED
    BY <1>1, <1>6, <1>9, <2>1, <2>2, FirstOfEach
<1> DEFINE r == Truncated(p, limit)
           place(q) == Cardinality({x \in matches : First(x) <= First(q)})
<1>11. /\ r \in Seq(Y) /\ \A i \in 1 .. Len(r) : r[i] = p[i]
       /\ Len(r) = IF m < limit THEN m ELSE limit
       /\ \A i \in 1 .. m : i <= limit => i \in 1 .. Len(r)
  BY <1>3, TruncatedFacts DEF m
<1> HIDE DEF r
<1>12. DOMAIN r = 1 .. Len(r) /\ \A k \in DOMAIN r : k \in 1 .. m
  BY <1>5, <1>11
<1>13. ToSet(r) \subseteq matches
  BY <1>10, <1>11, <1>12 DEF ToSet
<1>14. ASSUME NEW q \in matches, place(q) <= limit
       PROVE  place(q) \in DOMAIN r /\ r[place(q)] = q
  <2>1. place(q) = Place(q, matches, first)
    <3>1. {x \in matches : First(x) <= First(q)} = {x \in matches : first[x] <= first[q]}
      BY <1>7
    <3> QED
      BY <3>1 DEF Place
  <2>2. place(q) \in 1 .. m /\ p[place(q)] = q
    BY <1>10, <2>1
  <2> HIDE DEF place
  <2> QED
    BY <1>11, <1>12, <1>14, <2>2
<1>15. FirstForms(form, limit, r)
  BY <1>13, <1>14 DEF FirstForms, matches, First
<1> QED
  BY <1>15 DEF r, p, at, form

\* reddit.go answers as FirstMatches says.
LEMMA RedditStep ==
  ASSUME NEW raw \in Pages, NEW max \in Limits, SearchReddit(raw, max)
  PROVE  FirstMatches'
<1> DEFINE at == {i \in DOMAIN raw : PostForm[raw[i]] # NoURL}
           form == [i \in DOMAIN raw |-> PostForm[raw[i]]]
           results == Truncated(FormsOnce(Picked(raw, at), PostForm), Limit(max))
<1>1. raw \in Seq(Address) /\ max \in Nat /\ Limit(max) \in Nat
  BY ResultsAssumption, InputsAssumption, LimitType
<1>2. FirstForms(form, Limit(max), results)
  BY <1>1, FirstResults
<1>3. /\ answer'.op = "reddit" /\ answer'.raw = raw /\ answer'.max = max
      /\ answer'.results = results
  BY DEF SearchReddit, RedditResults, Post, Kept, Firsts, FormsOnce
<1> HIDE DEF results
<1> QED
  BY <1>2, <1>3 DEF FirstMatches

\* pypi.go answers as FirstMatches says.
LEMMA PackagesStep ==
  ASSUME NEW exact, NEW raw \in Pages, NEW max \in Limits, SearchPackages(exact, raw, max)
  PROVE  FirstMatches'
<1> DEFINE fm == [u \in Address |-> IF u \in Prefixed THEN u ELSE NoURL]
           at == {i \in DOMAIN raw : fm[raw[i]] # NoURL}
           named == {i \in DOMAIN raw : raw[i] \in Prefixed}
           p == Picked(raw, named)
           form == [i \in DOMAIN raw |-> fm[raw[i]]]
           results == Truncated(FormsOnce(Picked(raw, at), fm), Limit(max))
<1>1. raw \in Seq(Address) /\ max \in Nat /\ Limit(max) \in Nat
  BY ResultsAssumption, InputsAssumption, LimitType
<1>2. FirstForms(form, Limit(max), results)
  BY <1>1, FirstResults
<1>3. /\ answer'.op = "packages" /\ answer'.raw = raw /\ answer'.max = max
      /\ answer'.exact = exact
      /\ exact = NoURL => answer'.results = Packages(raw, max)
  BY DEF SearchPackages
<1>4. \A i \in DOMAIN raw : raw[i] \in Address /\ fm[raw[i]] =
         IF raw[i] \in Prefixed THEN raw[i] ELSE NoURL
  BY <1>1
<1>5. named = at
  BY <1>4, InputsAssumption
<1>6. [k \in DOMAIN p |-> fm[p[k]]] = p
  <2>1. named \in SUBSET DOMAIN raw
    OBVIOUS
  <2>2. p \in Seq(Address) /\ \A k \in DOMAIN p : \E i \in named : p[k] = raw[i]
    <3> HIDE DEF named
    <3>1. p \in Seq(Address)
      BY <1>1, <2>1, PickedFacts
    <3>2. \A k \in DOMAIN p : \E i \in named : p[k] = raw[i]
      BY <1>1, <2>1, PickedElements
    <3> QED
      BY <3>1, <3>2
  <2>3. \A k \in DOMAIN p : fm[p[k]] = p[k]
    BY <1>4, <2>2
  <2> HIDE DEF p, fm
  <2> QED
    BY <2>2, <2>3
<1>7. Packages(raw, max) = results
  <2>1. Packages(raw, max) =
           Truncated(Picked(p, {k \in DOMAIN p : \A j \in 1 .. k - 1 : p[j] # p[k]}), Limit(max))
    BY DEF Packages, Kept, Firsts
  <2>2. FormsOnce(p, fm) = Picked(p, {k \in DOMAIN p : \A j \in 1 .. k - 1 : p[j] # p[k]})
    <3> HIDE DEF p, fm
    <3> QED
      BY <1>6 DEF FormsOnce
  <2> QED
    BY <1>5, <2>1, <2>2
<1>8. form = [i \in DOMAIN raw |-> IF raw[i] \in Prefixed THEN raw[i] ELSE NoURL]
  BY <1>4
<1> HIDE DEF results, form, at, fm
<1> QED
  BY <1>2, <1>3, <1>7, <1>8 DEF FirstMatches

-----------------------------------------------------------------------------
(* Pictures.                                                               *)

\* Q ranks the indices of a list by relevance, and by place among equals.
ByRelevance(Q, s) ==
    \A i, j \in DOMAIN s : <<i, j>> \in Q <=>
        \/ Relevance(s[i]) > Relevance(s[j])
        \/ Relevance(s[i]) = Relevance(s[j]) /\ i < j

\* That is an order of them all.
LEMMA RelevanceLists ==
  ASSUME NEW s \in Seq(Item), NEW Q, ByRelevance(Q, s)
  PROVE  Lists(Ranked(1 .. Len(s), Q), Len(s), 1 .. Len(s), Q)
<1>1. Len(s) \in Nat /\ DOMAIN s = 1 .. Len(s)
  OBVIOUS
<1>2. IsFiniteSet(1 .. Len(s)) /\ Cardinality(1 .. Len(s)) = Len(s)
  BY <1>1, FS_Interval
<1>3. \A i \in DOMAIN s : Relevance(s[i]) \in Nat /\ i \in Nat
  <2>1. \A i \in DOMAIN s : s[i] \in Item
    OBVIOUS
  <2> QED
    BY <1>1, <2>1 DEF Relevance, Item
<1>4. StrictTotal(Q, 1 .. Len(s))
  <2> DEFINE rel == [i \in 1 .. Len(s) |-> Relevance(s[i])]
  <2>1. \A i \in 1 .. Len(s) : rel[i] \in Nat /\ i \in Nat /\ rel[i] = Relevance(s[i])
    BY <1>1, <1>3
  <2> HIDE DEF rel
  <2>2. ASSUME NEW i \in 1 .. Len(s), NEW j \in 1 .. Len(s)
        PROVE  <<i, j>> \in Q <=> (rel[i] > rel[j] \/ (rel[i] = rel[j] /\ i < j))
    <3>1. i \in DOMAIN s /\ j \in DOMAIN s
      BY <1>1
    <3>2. <<i, j>> \in Q <=> \/ Relevance(s[i]) > Relevance(s[j])
                             \/ Relevance(s[i]) = Relevance(s[j]) /\ i < j
      BY <3>1 DEF ByRelevance
    <3>3. rel[i] = Relevance(s[i]) /\ rel[j] = Relevance(s[j])
      BY <2>1
    <3> QED
      BY <3>2, <3>3
  <2>3. \A x \in 1 .. Len(s) : <<x, x>> \notin Q
    BY <2>1, <2>2
  <2>4. ASSUME NEW x \in 1 .. Len(s), NEW y \in 1 .. Len(s), NEW z \in 1 .. Len(s),
               <<x, y>> \in Q /\ <<y, z>> \in Q
        PROVE  <<x, z>> \in Q
    <3>1. /\ rel[x] \in Nat /\ rel[y] \in Nat /\ rel[z] \in Nat
          /\ x \in Nat /\ y \in Nat /\ z \in Nat
      BY <2>1
    <3>2. /\ rel[x] > rel[y] \/ (rel[x] = rel[y] /\ x < y)
          /\ rel[y] > rel[z] \/ (rel[y] = rel[z] /\ y < z)
      BY <2>2, <2>4
    <3>3. rel[x] > rel[z] \/ (rel[x] = rel[z] /\ x < z)
      BY <3>1, <3>2
    <3> QED
      BY <2>2, <3>3
  <2>5. ASSUME NEW x \in 1 .. Len(s), NEW y \in 1 .. Len(s)
        PROVE  x = y \/ <<x, y>> \in Q \/ <<y, x>> \in Q
    <3>1. rel[x] \in Nat /\ rel[y] \in Nat /\ x \in Nat /\ y \in Nat
      BY <2>1
    <3>2. \/ rel[x] > rel[y] \/ (rel[x] = rel[y] /\ x < y) \/ x = y
          \/ rel[y] > rel[x] \/ (rel[y] = rel[x] /\ y < x)
      BY <3>1
    <3> QED
      BY <2>2, <3>2
  <2> QED
    BY <2>3, <2>4, <2>5 DEF StrictTotal
<1> QED
  BY <1>2, <1>4, RankedLists

\* Which of two items of a list is the better one to show a picture.
BetterOf(raw, usable) ==
    {p \in usable \X usable :
        \/ Relevance(raw[p[1]]) > Relevance(raw[p[2]])
        \/ Relevance(raw[p[1]]) = Relevance(raw[p[2]]) /\ p[1] < p[2]}

\* The images connector, before it cuts to the limit: the best item of each picture.
LEMMA PicturesListed ==
  ASSUME NEW raw \in Seq(Item)
  PROVE  LET usable == {i \in DOMAIN raw : PictureOf(raw[i]) # NoURL}
             key == [i \in DOMAIN raw |-> PictureOf(raw[i])]
             p == Firsts(MostRelevantFirst(Candidates(raw)), PictureOf)
         IN  /\ p \in Seq(Item)
             /\ \E h : /\ ListsFirst(h, Len(p), usable, BetterOf(raw, usable), key)
                       /\ \A k \in 1 .. Len(p) : p[k] = raw[h[k]]
<1> DEFINE usable == {i \in DOMAIN raw : PictureOf(raw[i]) # NoURL}
           R == BetterOf(raw, usable)
           key == [i \in DOMAIN raw |-> PictureOf(raw[i])]
           cands == Picked(raw, usable)
           a == InOrder(usable)
           c == Cardinality(usable)
           Q == {p \in (DOMAIN cands) \X (DOMAIN cands) :
                    \/ Relevance(cands[p[1]]) > Relevance(cands[p[2]])
                    \/ Relevance(cands[p[1]]) = Relevance(cands[p[2]]) /\ p[1] < p[2]}
           order == Ranked(DOMAIN cands, Q)
           t == [k \in DOMAIN order |-> cands[order[k]]]
           f == [k \in 1 .. c |-> a[order[k]]]
           kept == {k \in DOMAIN t : \A j \in 1 .. k - 1 : PictureOf(t[j]) # PictureOf(t[k])}
           g == InOrder(kept)
           m == Cardinality(kept)
           p == Picked(t, kept)
           h == [k \in 1 .. m |-> f[g[k]]]
<1>1. usable \in SUBSET DOMAIN raw /\ DOMAIN raw = 1 .. Len(raw) /\ Len(raw) \in Nat
  OBVIOUS
<1>2. \A i \in DOMAIN raw : key[i] = PictureOf(raw[i])
  OBVIOUS
<1>3. \A i, j \in usable : <<i, j>> \in R <=>
         \/ Relevance(raw[i]) > Relevance(raw[j])
         \/ Relevance(raw[i]) = Relevance(raw[j]) /\ i < j
  BY DEF BetterOf
<1>4. Firsts(MostRelevantFirst(Candidates(raw)), PictureOf) = p
  BY DEF Firsts, Kept, MostRelevantFirst, Candidates
<1> HIDE DEF usable, R, key
<1>5. /\ c \in Nat /\ a \in [1 .. c -> usable]
      /\ \A i \in usable : \E k \in 1 .. c : a[k] = i
      /\ \A j, k \in 1 .. c : j < k <=> a[j] < a[k]
      /\ cands \in Seq(Item) /\ Len(cands) = c /\ DOMAIN cands = 1 .. c
      /\ \A k \in 1 .. c : cands[k] = raw[a[k]]
  BY <1>1, PickedFacts
<1> HIDE DEF cands, a, c
<1>6. ByRelevance(Q, cands)
  BY DEF ByRelevance
<1> HIDE DEF Q
<1>7. Lists(order, c, 1 .. c, Q)
  BY <1>5, <1>6, RelevanceLists
<1> HIDE DEF order
<1>8. order \in [1 .. c -> 1 .. c]
  BY <1>7 DEF Lists
<1>9. ASSUME NEW j \in 1 .. c, NEW k \in 1 .. c
      PROVE  <<a[j], a[k]>> \in R <=> <<j, k>> \in Q
  <2>1. a[j] \in usable /\ a[k] \in usable /\ cands[j] = raw[a[j]] /\ cands[k] = raw[a[k]]
    BY <1>5
  <2>2. j < k <=> a[j] < a[k]
    BY <1>5
  <2>3. <<j, k>> \in Q <=> \/ Relevance(cands[j]) > Relevance(cands[k])
                           \/ Relevance(cands[j]) = Relevance(cands[k]) /\ j < k
    BY <1>5, <1>6 DEF ByRelevance
  <2>4. <<a[j], a[k]>> \in R <=>
           \/ Relevance(raw[a[j]]) > Relevance(raw[a[k]])
           \/ Relevance(raw[a[j]]) = Relevance(raw[a[k]]) /\ a[j] < a[k]
    BY <1>3, <2>1
  <2> QED
    BY <2>1, <2>2, <2>3, <2>4
<1>10. Lists(f, c, usable, R)
  <2>1. Carries(a, c, R, Q)
    BY <1>9 DEF Carries
  <2>2. Lists(a, c, usable, Up(usable))
    BY <1>1, InOrderLists DEF a, c
  <2> QED
    BY <1>7, <2>1, <2>2, ListsThrough
<1>11. /\ t \in Seq(Item) /\ Len(t) = c /\ DOMAIN t = 1 .. c
       /\ \A k \in 1 .. c : f[k] \in usable /\ t[k] = raw[f[k]]
  <2>1. ASSUME NEW k \in 1 .. c
        PROVE  f[k] \in usable /\ t[k] = raw[f[k]] /\ t[k] \in Item
    <3>1. order[k] \in 1 .. c /\ t[k] = cands[order[k]] /\ f[k] = a[order[k]]
      BY <1>8
    <3>2. cands[order[k]] = raw[a[order[k]]] /\ a[order[k]] \in usable
      BY <1>5, <3>1
    <3>3. cands[order[k]] \in Item
      BY <1>5, <3>1
    <3> QED
      BY <3>1, <3>2, <3>3
  <2>2. t \in [1 .. c -> Item]
    BY <1>8, <2>1
  <2> HIDE DEF t, f
  <2>3. t \in Seq(Item) /\ Len(t) = c /\ DOMAIN t = 1 .. c
    BY <1>5, <2>2
  <2> QED
    BY <2>1, <2>3
<1>12. /\ kept \in SUBSET DOMAIN t
       /\ \A k \in DOMAIN t : k \in kept <=>
             \A j \in 1 .. k - 1 : PictureOf(t[j]) # PictureOf(t[k])
  OBVIOUS
<1> HIDE DEF t, f, kept
<1> DEFINE v == [k \in 1 .. c |-> key[f[k]]]
<1>13. FirstWith(kept, c, v)
  <2> DEFINE pic == [x \in Item |-> PictureOf(x)]
  <2>1. \A k \in 1 .. c : v[k] = key[f[k]]
    OBVIOUS
  <2>2. \A k \in DOMAIN t : PictureOf(t[k]) = pic[t[k]]
    BY <1>11
  <2> HIDE DEF v, pic
  <2>3. \A k \in DOMAIN t : v[k] = pic[t[k]]
    <3>1. SUFFICES ASSUME NEW k \in DOMAIN t PROVE v[k] = pic[t[k]]
      OBVIOUS
    <3>2. k \in 1 .. c /\ f[k] \in DOMAIN raw /\ t[k] = raw[f[k]]
      BY <1>1, <1>11
    <3> QED
      BY <1>2, <2>1, <2>2, <3>2
  <2>4. NotBefore(kept, t, pic)
    <3>1. SUFFICES ASSUME NEW k \in DOMAIN t
                   PROVE  k \in kept <=> \A j \in 1 .. k - 1 : pic[t[j]] # pic[t[k]]
      BY DEF NotBefore
    <3>2. \A j \in 1 .. k - 1 : j \in DOMAIN t
      BY <1>5, <1>11
    <3> QED
      BY <1>12, <2>2, <3>2
  <2>5. \A w : (\A k \in DOMAIN t : w[k] = pic[t[k]]) => FirstWith(kept, Len(t), w)
    BY <1>11, <1>12, <2>4, FirstIndices
  <2> QED
    BY <1>11, <2>3, <2>5
<1>14. \A k \in 1 .. c : v[k] = key[f[k]]
  OBVIOUS
<1> HIDE DEF v
<1>15. Lists(g, m, kept, Up(kept))
  <2>1. kept \in SUBSET (1 .. c)
    BY <1>11, <1>12
  <2> QED
    BY <1>5, <2>1, InOrderLists
<1>16. /\ p \in Seq(Item) /\ Len(p) = m
       /\ \A k \in 1 .. m : p[k] = t[g[k]]
  BY <1>11, <1>12, PickedFacts
<1> HIDE DEF g, m, p
<1>17. ListsFirst(h, m, usable, R, key)
  BY <1>10, <1>13, <1>14, <1>15, FirstInOrder
<1>18. \A k \in 1 .. m : p[k] = raw[h[k]]
  <2>1. SUFFICES ASSUME NEW k \in 1 .. m PROVE p[k] = raw[h[k]]
    OBVIOUS
  <2>2. g \in [1 .. m -> kept] /\ kept \in SUBSET (1 .. c)
    BY <1>11, <1>12, <1>15 DEF Lists
  <2>3. g[k] \in 1 .. c /\ h[k] = f[g[k]]
    BY <2>2
  <2> QED
    BY <1>11, <1>16, <2>3
<1> HIDE DEF h
<1>19. p \in Seq(Item) /\ \E hh : /\ ListsFirst(hh, Len(p), usable, R, key)
                                 /\ \A k \in 1 .. Len(p) : p[k] = raw[hh[k]]
  BY <1>16, <1>17, <1>18
<1> QED
  BY <1>4, <1>19 DEF usable, R, key

\* images.go answers as BestPictureOnce says.
LEMMA ImagesStep ==
  ASSUME NEW raw \in Pictures, NEW max \in Limits, SearchImages(raw, max)
  PROVE  BestPictureOnce'
<1> DEFINE usable == {i \in DOMAIN raw : PictureOf(raw[i]) # NoURL}
           R == BetterOf(raw, usable)
           key == [i \in DOMAIN raw |-> PictureOf(raw[i])]
           p == Firsts(MostRelevantFirst(Candidates(raw)), PictureOf)
           limit == Limit(max)
           r == Truncated(p, limit)
           Better(i, j) == \/ Relevance(raw[i]) > Relevance(raw[j])
                           \/ Relevance(raw[i]) = Relevance(raw[j]) /\ i < j
           best == {i \in usable : \A j \in usable :
                       PictureOf(raw[j]) = PictureOf(raw[i]) => i = j \/ Better(i, j)}
           place(i) == 1 + Cardinality({j \in best : Better(j, i)})
<1>1. raw \in Seq(Item) /\ limit \in Nat
  BY ResultsAssumption, InputsAssumption, LimitType
<1>2. /\ answer'.op = "images" /\ answer'.raw = raw /\ answer'.max = max
      /\ answer'.results = r
  BY DEF SearchImages, ImageResults
<1>3. p \in Seq(Item) /\ \E h : /\ ListsFirst(h, Len(p), usable, R, key)
                               /\ \A k \in 1 .. Len(p) : p[k] = raw[h[k]]
  BY <1>1, PicturesListed
<1>4. PICK h : /\ ListsFirst(h, Len(p), usable, R, key)
               /\ \A k \in 1 .. Len(p) : p[k] = raw[h[k]]
  BY <1>3
<1>5. \A i, j \in usable : <<i, j>> \in R <=> Better(i, j)
  BY DEF BetterOf
<1>6. \A i \in usable : i \in Nat /\ Relevance(raw[i]) \in Nat
  <2>1. \A i \in usable : i \in Nat /\ raw[i] \in Item
    BY <1>1
  <2> QED
    BY <2>1 DEF Relevance, Item
<1>7. \A i \in usable : key[i] = PictureOf(raw[i])
  OBVIOUS
<1> HIDE DEF usable, R, key, p
<1>8. StrictTotal(R, usable)
  BY <1>5, <1>6 DEF StrictTotal
<1>9. best = BestOf(usable, R, key)
  BY <1>5, <1>7 DEF BestOf
<1>10. /\ Cardinality(BestOf(usable, R, key)) = Len(p)
       /\ \A i \in BestOf(usable, R, key) :
             /\ BestPlace(i, usable, R, key) \in 1 .. Len(p)
             /\ h[BestPlace(i, usable, R, key)] = i
  BY <1>4, <1>8, BestPlaces
<1>11. ASSUME NEW i \in best
       PROVE  place(i) \in 1 .. Len(p) /\ h[place(i)] = i
  <2>1. {j \in best : Better(j, i)} = {j \in BestOf(usable, R, key) : <<j, i>> \in R}
    BY <1>5, <1>9
  <2>2. place(i) = BestPlace(i, usable, R, key)
    BY <2>1 DEF BestPlace
  <2> QED
    BY <1>9, <1>10, <2>2
<1>12. Cardinality(best) = Len(p)
  BY <1>9, <1>10
<1>13. /\ Len(r) = IF Len(p) < limit THEN Len(p) ELSE limit
       /\ \A k \in 1 .. Len(r) : r[k] = p[k]
       /\ \A k \in 1 .. Len(p) : k <= limit => k \in 1 .. Len(r)
  BY <1>1, <1>3, TruncatedFacts
<1> HIDE DEF best, place, r, limit
<1>14. \A i \in best : place(i) <= limit => r[place(i)] = raw[i]
  <2>1. SUFFICES ASSUME NEW i \in best, place(i) <= limit PROVE r[place(i)] = raw[i]
    OBVIOUS
  <2>2. place(i) \in 1 .. Len(p) /\ h[place(i)] = i
    BY <1>11
  <2>3. p[place(i)] = raw[h[place(i)]]
    BY <1>4, <2>2
  <2> QED
    BY <1>13, <2>1, <2>2, <2>3
<1>15. Len(r) = IF Cardinality(best) < limit THEN Cardinality(best) ELSE limit
  BY <1>12, <1>13
<1>16. BestOfEach(raw, limit, r)
  BY <1>14, <1>15 DEF BestOfEach, usable, best, place
<1> QED
  BY <1>2, <1>16 DEF BestPictureOnce, limit

-----------------------------------------------------------------------------
(* The tools together.                                                     *)

\* A step gives an answer or leaves it alone.
LEMMA AnswerSteps ==
  ASSUME [Next]_vars
  PROVE  \/ answer' = answer
         \/ /\ UNCHANGED loadVars /\ boot \in {"ready", "unconfigured"}
            /\ \/ Images \/ Reddit \/ PyPI \/ Listings \/ Docs
               \/ Local \/ Synthesis \/ Plan \/ All \/ Fetched
  BY DEF Next, Load, Serve, vars

\* ListsAreSound holds in every reachable state: what images.go, reddit.go, pypi.go,
\* youtube.go and academic.go select from lists of any length.
THEOREM SelectionsAreSound == Spec => []ListsAreSound
<1>1. Init => ListsAreSound
  BY DEF Init, ListsAreSound, BestPictureOnce, FirstMatches, ListingsInOrder
<1>2. ListsAreSound /\ [Next]_vars => ListsAreSound'
  <2>1. SUFFICES ASSUME ListsAreSound, [Next]_vars PROVE ListsAreSound'
    OBVIOUS
  <2>2. CASE answer' = answer
    <3>1. BestPictureOnce'
      BY <2>1, <2>2 DEF ListsAreSound, BestPictureOnce
    <3>2. FirstMatches'
      BY <2>1, <2>2 DEF ListsAreSound, FirstMatches
    <3>3. ListingsInOrder'
      BY <2>1, <2>2 DEF ListsAreSound, ListingsInOrder
    <3> QED
      BY <3>1, <3>2, <3>3 DEF ListsAreSound
  <2>3. CASE Images
    <3>1. BestPictureOnce'
      BY <2>3, ImagesStep DEF Images
    <3>2. answer'.op = "images"
      BY <2>3, OpOfAnswer
    <3> QED
      BY <3>1, <3>2 DEF ListsAreSound, FirstMatches, ListingsInOrder
  <2>4. CASE Reddit \/ PyPI
    <3>1. FirstMatches'
      BY <2>4, RedditStep, PackagesStep DEF Reddit, PyPI
    <3>2. answer'.op \in {"reddit", "packages"}
      BY <2>4, OpOfAnswer
    <3> QED
      BY <3>1, <3>2 DEF ListsAreSound, BestPictureOnce, ListingsInOrder
  <2>5. CASE Listings
    <3>1. ListingsInOrder'
      BY <2>5, ListingsStep DEF Listings
    <3>2. answer'.op \in {"videos", "papers"}
      BY <2>5, OpOfAnswer
    <3> QED
      BY <3>1, <3>2 DEF ListsAreSound, BestPictureOnce, FirstMatches
  <2>6. CASE Docs \/ Local \/ Synthesis \/ Plan \/ All \/ Fetched
    <3>1. answer'.op \notin {"images", "reddit", "packages", "videos", "papers"}
      BY <2>6, OpOfAnswer
    <3> QED
      BY <3>1 DEF ListsAreSound, BestPictureOnce, FirstMatches, ListingsInOrder
  <2> QED
    BY <2>1, <2>2, <2>3, <2>4, <2>5, <2>6, AnswerSteps
<1> QED
  BY <1>1, <1>2, PTL DEF Spec

\* DocsAreOfficial holds in every reachable state: makeDocOficialHandler and
\* official_docs.go with any registry.
THEOREM DocsComeFromOfficialHosts == Spec => []DocsAreOfficial
<1>1. Init => DocsAreOfficial
  BY DEF Init, DocsAreOfficial
<1>2. DocsAreOfficial /\ [Next]_vars => DocsAreOfficial'
  <2>1. SUFFICES ASSUME DocsAreOfficial, [Next]_vars PROVE DocsAreOfficial'
    OBVIOUS
  <2>2. CASE answer' = answer
    BY <2>1, <2>2 DEF DocsAreOfficial
  <2>3. CASE Docs
    BY <2>3, DocsStep DEF Docs
  <2>4. CASE Images \/ Reddit \/ PyPI \/ Listings \/ Local \/ Synthesis \/ Plan \/ All \/ Fetched
    <3>1. answer'.op # "docs"
      BY <2>4, OpOfAnswer
    <3> QED
      BY <3>1 DEF DocsAreOfficial
  <2> QED
    BY <2>1, <2>2, <2>3, <2>4, AnswerSteps
<1> QED
  BY <1>1, <1>2, PTL DEF Spec

\* ExtractionKeepsText holds in every reachable state: some text of any page that has any,
\* and the cells of any tables in their places, but for those replaced under equal headings.
THEOREM ExtractionIsComplete == Spec => []ExtractionKeepsText
<1>1. Init => ExtractionKeepsText
  BY DEF Init, ExtractionKeepsText, TextIsExtracted, CellsKeepTheirPlace
<1>2. ExtractionKeepsText /\ [Next]_vars => ExtractionKeepsText'
  <2>1. SUFFICES ASSUME ExtractionKeepsText, [Next]_vars PROVE ExtractionKeepsText'
    OBVIOUS
  <2>2. CASE answer' = answer
    <3>1. TextIsExtracted'
      BY <2>1, <2>2 DEF ExtractionKeepsText, TextIsExtracted
    <3>2. CellsKeepTheirPlace'
      BY <2>1, <2>2 DEF ExtractionKeepsText, CellsKeepTheirPlace
    <3> QED
      BY <3>1, <3>2 DEF ExtractionKeepsText
  <2>3. ASSUME NEW page \in FetchedPages, FetchAndExtract(page)
        PROVE  ExtractionKeepsText'
    <3>1. /\ answer'.op = "extract" /\ answer'.page = page
          /\ answer'.content = ExtractMainContent(page)
      BY <2>3 DEF FetchAndExtract
    <3>2. page.whole > 0 => \E k \in DOMAIN ExtractMainContent(page) : ExtractMainContent(page)[k] > 0
      BY InputsAssumption, SomeTextIsExtracted
    <3> QED
      BY <3>1, <3>2 DEF ExtractionKeepsText, TextIsExtracted, CellsKeepTheirPlace
  <2>4. ASSUME NEW tables \in FetchedTables, ExtractStructured(tables)
        PROVE  ExtractionKeepsText'
    <3>1. answer'.op = "tables"
      BY <2>4 DEF ExtractStructured
    <3>2. CellsKeepTheirPlace'
      BY <2>4, TablesStep
    <3> QED
      BY <3>1, <3>2 DEF ExtractionKeepsText, TextIsExtracted
  <2>5. CASE Images \/ Reddit \/ PyPI \/ Listings \/ Docs \/ Local \/ Synthesis \/ Plan \/ All
    <3>1. answer'.op \notin {"extract", "tables"}
      BY <2>5, OpOfAnswer
    <3> QED
      BY <3>1 DEF ExtractionKeepsText, TextIsExtracted, CellsKeepTheirPlace
  <2> QED
    BY <2>1, <2>2, <2>3, <2>4, <2>5, AnswerSteps DEF Fetched
<1> QED
  BY <1>1, <1>2, PTL DEF Spec

-----------------------------------------------------------------------------
(* What the planner reads into a query.                                    *)

\* What is known of the best intent of those met, whatever their order.
Leads(best, order, k, scores) ==
    /\ best.score \in Nat
    /\ \/ best.intent = General /\ best.score = 0
       \/ best.intent \in Intents /\ best.score = scores[best.intent]
    /\ \A j \in 1 .. k : scores[order[j]] <= best.score

\* One more intent.
LEMMA StrongerLeads ==
  ASSUME NEW order \in Seq(Intents), NEW scores \in [Intents -> Nat], NEW k \in Nat,
         k + 1 \in 1 .. Len(order), NEW best, Leads(best, order, k, scores)
  PROVE  Leads(Stronger(best, order[k + 1], scores), order, k + 1, scores)
<1> DEFINE intent == order[k + 1]
           next == Stronger(best, intent, scores)
<1>1. /\ intent \in Intents /\ scores[intent] \in Nat /\ best.score \in Nat
      /\ \A j \in 1 .. k + 1 : j \in 1 .. k \/ j = k + 1
      /\ \A j \in 1 .. k : scores[order[j]] \in Nat
  <2>1. \A j \in 1 .. Len(order) : order[j] \in Intents
    OBVIOUS
  <2>2. Len(order) \in Nat
    OBVIOUS
  <2>3. \A j \in 1 .. k : j \in 1 .. Len(order)
    BY <2>2
  <2> QED
    BY <2>1, <2>3 DEF Leads
<1>2. CASE scores[intent] > best.score
  <2>1. next = [intent |-> intent, score |-> scores[intent]]
    BY <1>2 DEF Stronger
  <2>2. next.intent = intent /\ next.score = scores[intent]
    BY <2>1
  <2>3. \A j \in 1 .. k : scores[order[j]] <= best.score
    BY DEF Leads
  <2> HIDE DEF next
  <2>4. \A j \in 1 .. k + 1 : scores[order[j]] <= next.score
    BY <1>1, <1>2, <2>2, <2>3
  <2>5. Leads(next, order, k + 1, scores)
    BY <1>1, <2>2, <2>4 DEF Leads
  <2> QED
    BY <2>5 DEF next
<1>3. CASE ~(scores[intent] > best.score)
  <2>1. next = best
    BY <1>3 DEF Stronger
  <2>2. \A j \in 1 .. k : scores[order[j]] <= best.score
    BY DEF Leads
  <2>3. \A j \in 1 .. k + 1 : scores[order[j]] <= best.score
    BY <1>1, <1>3, <2>2
  <2>4. Leads(best, order, k + 1, scores)
    BY <2>3 DEF Leads
  <2> QED
    BY <2>1, <2>4
<1> QED
  BY <1>2, <1>3

\* The intent that the loop of ClassifyIntent ends with.
LEMMA BestIntentLeads ==
  ASSUME NEW order \in SetToSeqs(Intents), NEW scores \in [Intents -> Nat]
  PROVE  \A other \in Intents :
            IF BestIntent(order, scores) = General THEN scores[other] = 0
            ELSE scores[other] <= scores[BestIntent(order, scores)]
<1> DEFINE n == Len(order)
           V == [intent : Intents \cup {General}, score : Nat]
           none == [intent |-> General, score |-> 0]
           step == [i \in 1 .. n |-> [b \in V |-> Stronger(b, order[i], scores)]]
           body(g) == [k \in 0 .. n |-> IF k = 0 THEN none
                                        ELSE Stronger(g[k - 1], order[k], scores)]
           best == CHOOSE g : g = body(g)
<1>1. /\ order \in Seq(Intents) /\ n \in Nat
      /\ \A x \in Intents : \E k \in 1 .. n : order[k] = x
      /\ \A k \in 1 .. n : order[k] \in Intents
  <2>1. /\ order \in Seq(Intents) /\ n \in Nat
        /\ \A x \in Intents : \E k \in 1 .. n : order[k] = x
    BY PlanningAssumption, OrdersOf
  <2>2. \A k \in 1 .. n : order[k] \in Intents
    BY <2>1
  <2> QED
    BY <2>1, <2>2
<1>2. BestIntent(order, scores) = best[n].intent
  BY DEF BestIntent
<1>3. \A b \in V, i \in 1 .. n : Stronger(b, order[i], scores) \in V
  BY <1>1 DEF Stronger
<1>4. step \in [1 .. n -> [V -> V]] /\ none \in V
      /\ \A i \in 1 .. n, b \in V : step[i][b] = Stronger(b, order[i], scores)
  BY <1>3
<1> HIDE DEF n, step
<1>5. PICK h : IsLoop(h, n, V, none, step)
  BY <1>1, <1>4, LoopExists
<1>6. h = body(h)
  <2>1. /\ h \in [0 .. n -> V] /\ h[0] = none
        /\ \A i \in 1 .. n : h[i] = step[i][h[i - 1]]
    BY <1>5 DEF IsLoop
  <2>2. \A k \in 0 .. n : h[k] = IF k = 0 THEN none ELSE Stronger(h[k - 1], order[k], scores)
    <3>1. SUFFICES ASSUME NEW k \in 0 .. n
                   PROVE  h[k] = IF k = 0 THEN none ELSE Stronger(h[k - 1], order[k], scores)
      OBVIOUS
    <3>2. CASE k # 0
      <4>1. k \in 1 .. n /\ k - 1 \in 0 .. n
        BY <1>1, <3>2
      <4>2. h[k - 1] \in V
        BY <2>1, <4>1
      <4> QED
        BY <1>4, <2>1, <3>2, <4>1, <4>2
    <3> QED
      BY <2>1, <3>2
  <2> QED
    BY <2>1, <2>2
<1>7. best = body(best)
  BY <1>6
<1> HIDE DEF best
<1>8. \A k \in 0 .. n : best[k] = IF k = 0 THEN none ELSE Stronger(best[k - 1], order[k], scores)
  BY <1>7
<1> DEFINE S == {k \in Nat : k <= n => Leads(best[k], order, k, scores)}
<1>9. 0 \in S
  <2>1. best[0] = none
    BY <1>1, <1>8
  <2>2. Leads(none, order, 0, scores)
    BY DEF Leads
  <2> QED
    BY <2>1, <2>2
<1>10. ASSUME NEW k \in Nat, k \in S
       PROVE  k + 1 \in S
  <2>1. SUFFICES ASSUME k + 1 <= n PROVE Leads(best[k + 1], order, k + 1, scores)
    OBVIOUS
  <2>2. Leads(best[k], order, k, scores)
    BY <1>1, <1>10, <2>1
  <2>3. k + 1 \in 1 .. Len(order) /\ k + 1 \in 0 .. n /\ k + 1 # 0 /\ (k + 1) - 1 = k
    BY <1>1, <2>1 DEF n
  <2>4. best[k + 1] = Stronger(best[k], order[k + 1], scores)
    BY <1>8, <2>3
  <2> QED
    BY <1>1, <2>2, <2>3, <2>4, StrongerLeads
<1> HIDE DEF S
<1>11. n \in S
  BY <1>1, <1>9, <1>10, InductionOnSet
<1>12. Leads(best[n], order, n, scores)
  BY <1>1, <1>11 DEF S
<1>13. \A other \in Intents : scores[other] <= best[n].score /\ scores[other] \in Nat
  BY <1>1, <1>12 DEF Leads
<1> QED
  BY <1>2, <1>12, <1>13, PlanningAssumption DEF Leads

\* The answer of a planned search.
LEMMA PlanStep ==
  ASSUME Plan
  PROVE  IntentIsStrongest'
<1>1. PICK tool \in Connectors, sources \in SUBSET Connectors, scores \in Scores :
         PlanSearch(tool, sources, scores)
  BY DEF Plan
<1>2. scores \in [Intents -> Nat]
  BY InputsAssumption
<1>3. PICK planned \in Planned(tool, sources, scores, {tool}) :
         answer' = [op |-> "plan", tool |-> tool, scores |-> scores,
                    warning |-> planned.warning, sourcesUsed |-> planned.sourcesUsed]
  BY <1>1 DEF PlanSearch
<1>4. PICK order \in SetToSeqs(Intents) :
         planned.warning = BestIntent(order, scores) /\ planned.sourcesUsed = {tool}
  BY <1>3 DEF Planned, ClassifyIntent
<1>5. /\ answer'.tool = tool /\ answer'.sourcesUsed = {tool} /\ answer'.scores = scores
      /\ answer'.warning = BestIntent(order, scores)
  BY <1>3, <1>4
<1> QED
  BY <1>2, <1>5, BestIntentLeads DEF IntentIsStrongest

-----------------------------------------------------------------------------
(* The search of all connectors.                                           *)

\* What a connector contributes: an error, or a response with the addresses it found.
Part == {Failed} \cup [kind : {"response"}, urls : Seq(Address), errors : BOOLEAN]

\* The connectors that gave a response.
Answering(parts) == {c \in Connectors : parts[c] # Failed}

\* The addresses that the connectors found.
FoundBy(parts) == UNION {ToSet(parts[c].urls) : c \in Answering(parts)}

\* Each address found is kept once, up to its canonical form.
KeptOnce(results, urls) ==
    /\ ToSet(results) \subseteq urls
    /\ \A u \in urls :
          Cardinality({k \in DOMAIN results : Canonical[results[k]] = Canonical[u]}) = 1

\* What Deduplicated keeps of a list.
LEMMA DeduplicatedKeeps ==
  ASSUME NEW urls \in Seq(Address)
  PROVE  KeptOnce(Deduplicated(urls), ToSet(urls))
<1> DEFINE at == {i \in DOMAIN urls : \A j \in 1 .. i - 1 : Canonical[urls[j]] # Canonical[urls[i]]}
           p == Deduplicated(urls)
<1>1. p = Picked(urls, at)
  BY DEF Deduplicated, Firsts, Kept
<1>2. at \in SUBSET DOMAIN urls /\ NotBefore(at, urls, Canonical)
  BY DEF NotBefore
<1> HIDE DEF at, p
<1>3. /\ \A k \in DOMAIN p : \E i \in DOMAIN urls : p[k] = urls[i]
      /\ \A j, k \in DOMAIN p : Canonical[p[j]] = Canonical[p[k]] => j = k
      /\ \A i \in DOMAIN urls : \E k \in DOMAIN p : Canonical[p[k]] = Canonical[urls[i]]
  <2>1. FirstsOf(p, urls, Canonical)
    BY <1>1, <1>2, FirstsFacts
  <2> QED
    BY <2>1 DEF FirstsOf
<1>4. ToSet(p) \subseteq ToSet(urls)
  BY <1>3 DEF ToSet
<1>5. ASSUME NEW u \in ToSet(urls)
      PROVE  Cardinality({k \in DOMAIN p : Canonical[p[k]] = Canonical[u]}) = 1
  <2>1. PICK i \in DOMAIN urls : urls[i] = u
    BY <1>5 DEF ToSet
  <2>2. PICK k \in DOMAIN p : Canonical[p[k]] = Canonical[u]
    BY <1>3, <2>1
  <2>3. {h \in DOMAIN p : Canonical[p[h]] = Canonical[u]} = {k}
    BY <1>3, <2>2
  <2>4. Cardinality({k}) = 1
    BY FS_Singleton
  <2> QED
    BY <2>3, <2>4
<1> QED
  BY <1>4, <1>5 DEF KeptOnce, p

\* What SearchAll makes of the parts, in whatever order.
LEMMA MergedKeeps ==
  ASSUME NEW order \in SetToSeqs(Connectors), NEW parts \in [Connectors -> Part]
  PROVE  /\ KeptOnce(Merged(order, parts).results, FoundBy(parts))
         /\ Merged(order, parts).sources = Answering(parts)
         /\ Connectors \ Answering(parts) \subseteq Merged(order, parts).errors
<1> DEFINE at == {k \in DOMAIN order : parts[order[k]].kind = "response"}
           a == Picked(order, at)
           ss == [k \in DOMAIN a |-> parts[a[k]].urls]
           all == FlattenSeq(ss)
<1>1. /\ Merged(order, parts).results = Deduplicated(all)
      /\ Merged(order, parts).sources = ToSet(a)
      /\ Merged(order, parts).errors = {c \in ToSet(order) : parts[c] = Failed \/ parts[c].errors}
  BY DEF Merged, Kept
<1>2. /\ order \in Seq(Connectors) /\ DOMAIN order = 1 .. Len(order)
      /\ \A c \in Connectors : \E k \in DOMAIN order : order[k] = c
      /\ \A k \in DOMAIN order : order[k] \in Connectors
  <2>1. /\ order \in Seq(Connectors) /\ DOMAIN order = 1 .. Len(order)
        /\ \A c \in Connectors : \E k \in 1 .. Len(order) : order[k] = c
    BY PlanningAssumption, OrdersOf
  <2>2. \A k \in DOMAIN order : order[k] \in Connectors
    BY <2>1
  <2> QED
    BY <2>1, <2>2
<1>3. \A c \in Connectors : c \in Answering(parts) <=> parts[c].kind = "response"
  BY DEF Answering, Part, Failed
<1>4. \A c \in Answering(parts) : parts[c].urls \in Seq(Address)
  BY DEF Answering, Part
<1>5. at \in SUBSET DOMAIN order /\ \A k \in DOMAIN order : k \in at <=> order[k] \in Answering(parts)
  BY <1>2, <1>3
<1> HIDE DEF at, a
<1>6. /\ a \in Seq(Connectors) /\ Len(a) \in Nat /\ DOMAIN a = 1 .. Len(a)
      /\ \A k \in DOMAIN a : \E i \in at : a[k] = order[i]
      /\ \A i \in at : \E k \in DOMAIN a : a[k] = order[i]
  <2>1. order \in Seq(Connectors) /\ at \in SUBSET DOMAIN order
    BY <1>2, <1>5
  <2>2. /\ Picked(order, at) \in Seq(Connectors)
        /\ \A k \in DOMAIN Picked(order, at) : \E i \in at : Picked(order, at)[k] = order[i]
        /\ \A i \in at : \E k \in DOMAIN Picked(order, at) : Picked(order, at)[k] = order[i]
    <3>1. Picked(order, at) \in Seq(Connectors)
      BY <2>1, PickedFacts
    <3>2. PicksFrom(Picked(order, at), order, at)
      BY <2>1, PickedFrom
    <3> QED
      BY <3>1, <3>2 DEF PicksFrom
  <2>3. a \in Seq(Connectors)
    BY <2>2 DEF a
  <2>4. Len(a) \in Nat /\ DOMAIN a = 1 .. Len(a)
    BY <2>3
  <2> QED
    BY <2>2, <2>3, <2>4 DEF a
<1>7. /\ \A k \in DOMAIN a : a[k] \in Answering(parts)
      /\ \A c \in Answering(parts) : \E k \in DOMAIN a : a[k] = c
  <2>1. Answering(parts) \subseteq Connectors
    BY DEF Answering
  <2> QED
    BY <1>2, <1>5, <1>6, <2>1
<1>8. ToSet(a) = Answering(parts)
  BY <1>7 DEF ToSet
<1>9. /\ ss \in Seq(Seq(Address)) /\ DOMAIN ss = DOMAIN a
      /\ \A k \in DOMAIN a : ss[k] = parts[a[k]].urls
  <2>1. ss \in [1 .. Len(a) -> Seq(Address)]
    BY <1>4, <1>6, <1>7
  <2>2. ss \in Seq(Seq(Address))
    BY <1>6, <2>1
  <2> QED
    BY <2>2
<1> HIDE DEF ss, all
<1>10. /\ all \in Seq(Address)
       /\ \A r \in DOMAIN all : \E i \in DOMAIN ss : \E j \in DOMAIN ss[i] : all[r] = ss[i][j]
       /\ \A i \in DOMAIN ss : \A j \in DOMAIN ss[i] : \E r \in DOMAIN all : all[r] = ss[i][j]
  BY <1>9, FlattenElements DEF all
<1>11. ToSet(all) \subseteq FoundBy(parts)
  <2>1. SUFFICES ASSUME NEW r \in DOMAIN all PROVE all[r] \in FoundBy(parts)
    BY DEF ToSet
  <2>2. PICK i \in DOMAIN a : \E j \in DOMAIN parts[a[i]].urls : all[r] = parts[a[i]].urls[j]
    <3>1. PICK i \in DOMAIN ss : \E j \in DOMAIN ss[i] : all[r] = ss[i][j]
      BY <1>10, <2>1
    <3>2. i \in DOMAIN a /\ ss[i] = parts[a[i]].urls
      BY <1>9, <3>1
    <3> QED
      BY <3>1, <3>2
  <2>3. all[r] \in ToSet(parts[a[i]].urls) /\ a[i] \in Answering(parts)
    BY <1>7, <2>2 DEF ToSet
  <2> QED
    BY <2>3 DEF FoundBy
<1>12. FoundBy(parts) \subseteq ToSet(all)
  <2>1. SUFFICES ASSUME NEW c \in Answering(parts), NEW u \in ToSet(parts[c].urls)
                 PROVE  u \in ToSet(all)
    BY DEF FoundBy
  <2>2. PICK i \in DOMAIN a : a[i] = c
    BY <1>7
  <2>3. PICK j \in DOMAIN ss[i] : ss[i][j] = u
    BY <1>9, <2>1, <2>2 DEF ToSet
  <2>4. PICK r \in DOMAIN all : all[r] = ss[i][j]
    BY <1>9, <1>10, <2>3
  <2> QED
    BY <2>3, <2>4 DEF ToSet
<1>13. ToSet(all) = FoundBy(parts)
  BY <1>11, <1>12
<1>14. KeptOnce(Deduplicated(all), ToSet(all))
  BY <1>10, DeduplicatedKeeps
<1>15. Connectors \ Answering(parts) \subseteq
          {c \in ToSet(order) : parts[c] = Failed \/ parts[c].errors}
  BY <1>2 DEF Answering, ToSet
<1> QED
  BY <1>1, <1>8, <1>13, <1>14, <1>15

\* The answer of a search of all connectors.
LEMMA AllStep ==
  ASSUME All
  PROVE  FailuresAreLocal'
<1>1. PICK parts \in Parts : SearchAll(parts)
  BY DEF All
<1>2. parts \in [Connectors -> Part]
  BY InputsAssumption DEF Part
<1>3. PICK all \in SearchAllResponses(parts) : answer' = [op |-> "all", parts |-> parts, all |-> all]
  BY <1>1 DEF SearchAll
<1>4. PICK order \in SetToSeqs(Connectors) : all = Merged(order, parts)
  BY <1>3 DEF SearchAllResponses
<1>5. /\ KeptOnce(all.results, FoundBy(parts))
      /\ all.sources = Answering(parts)
      /\ Connectors \ Answering(parts) \subseteq all.errors
  BY <1>2, <1>4, MergedKeeps
<1>6. answer'.op = "all" /\ answer'.parts = parts /\ answer'.all = all
  BY <1>3
<1> QED
  BY <1>5, <1>6 DEF FailuresAreLocal, KeptOnce, FoundBy, Answering

-----------------------------------------------------------------------------
(* The themes of deep_research.                                            *)

\* The places of the items of a theme.
PlacesIn(list, a, theme) == {i \in DOMAIN list : a[i] = theme}

\* The places of an element in the themes.
LEMMA ShownPlaces ==
  ASSUME NEW themes, NEW x
  PROVE  \A p : p \in Shown(themes, x) <=>
             \E k \in DOMAIN themes : \E r \in DOMAIN themes[k].results :
                 p = <<k, r>> /\ themes[k].results[r] = x
<1> DEFINE part(k) == {<<k, r>> : r \in Handed(themes[k].results, x)}
<1>1. \A k, p : p \in part(k) <=> \E r \in Handed(themes[k].results, x) : p = <<k, r>>
  OBVIOUS
<1>2. Shown(themes, x) = UNION {part(k) : k \in DOMAIN themes}
  BY DEF Shown
<1> HIDE DEF part
<1>3. \A p : p \in Shown(themes, x) <=> \E k \in DOMAIN themes : p \in part(k)
  BY <1>2
<1>4. \A k, r : r \in Handed(themes[k].results, x) <=>
                   r \in DOMAIN themes[k].results /\ themes[k].results[r] = x
  BY DEF Handed
<1> QED
  BY <1>1, <1>3, <1>4

\* groups lists the items of the themes in s, as the assignment a says.
GroupsOf(themes, s, list, a) ==
    /\ DOMAIN themes = DOMAIN s
    /\ \A k \in DOMAIN s : themes[k].theme = s[k] /\ themes[k].results = Group(list, a, s[k])

\* As many places in the themes as in the list.
LEMMA AsManyPlaces ==
  ASSUME NEW list \in Seq(Note), NEW a, NEW s,
         \A i \in DOMAIN list : \E k \in DOMAIN s : s[k] = a[i],
         \A j, k \in DOMAIN s : s[j] = s[k] => j = k,
         NEW themes, GroupsOf(themes, s, list, a), NEW x
  PROVE  Cardinality(Shown(themes, x)) = Cardinality(Handed(list, x))
<1> DEFINE of(k) == PlacesIn(list, a, s[k])
           H == Handed(list, x)
           W == Shown(themes, x)
           g == [p \in W |-> InOrder(of(p[1]))[p[2]]]
<1>1. ASSUME NEW k \in DOMAIN s
      PROVE  /\ themes[k].results = Picked(list, of(k))
             /\ DOMAIN Picked(list, of(k)) = 1 .. Cardinality(of(k))
             /\ InOrder(of(k)) \in [1 .. Cardinality(of(k)) -> of(k)]
             /\ Cardinality(of(k)) \in Nat
             /\ \A i \in of(k) : \E r \in 1 .. Cardinality(of(k)) : InOrder(of(k))[r] = i
             /\ \A r \in 1 .. Cardinality(of(k)) : Picked(list, of(k))[r] = list[InOrder(of(k))[r]]
  <2>1. of(k) \in SUBSET DOMAIN list
    BY DEF PlacesIn
  <2>2. themes[k].results = Picked(list, of(k))
    BY <1>1 DEF GroupsOf, Group, Kept, PlacesIn
  <2> HIDE DEF of
  <2> QED
    BY <2>1, <2>2, PickedFacts
<1>2. ASSUME NEW k \in DOMAIN s, NEW q \in 1 .. Cardinality(of(k)), NEW r \in 1 .. Cardinality(of(k)),
             InOrder(of(k))[q] = InOrder(of(k))[r]
      PROVE  q = r
  <2>1. of(k) \in SUBSET (1 .. Len(list)) /\ Len(list) \in Nat
    BY DEF PlacesIn
  <2> HIDE DEF of
  <2>2. /\ \A j, l \in 1 .. Cardinality(of(k)) : j < l <=> InOrder(of(k))[j] < InOrder(of(k))[l]
        /\ InOrder(of(k)) \in [1 .. Cardinality(of(k)) -> of(k)]
    BY <2>1, InOrderFacts
  <2>3. InOrder(of(k))[q] \in Nat
    BY <2>1, <2>2
  <2>4. ~(q < r) /\ ~(r < q)
    BY <1>2, <2>2, <2>3
  <2> QED
    BY <2>4
<1>3. \A k \in DOMAIN s : \A i : i \in of(k) <=> i \in DOMAIN list /\ a[i] = s[k]
  BY DEF PlacesIn
<1>4. \A p : p \in W <=> \E k \in DOMAIN s : \E r \in DOMAIN Picked(list, of(k)) :
                             p = <<k, r>> /\ Picked(list, of(k))[r] = x
  <2>1. \A p : p \in W <=> \E k \in DOMAIN themes : \E r \in DOMAIN themes[k].results :
                             p = <<k, r>> /\ themes[k].results[r] = x
    BY ShownPlaces
  <2>2. DOMAIN themes = DOMAIN s /\ \A k \in DOMAIN s : themes[k].results = Picked(list, of(k))
    BY <1>1 DEF GroupsOf
  <2> HIDE DEF W, of
  <2> QED
    BY <2>1, <2>2
<1>5. \A i : i \in H <=> i \in DOMAIN list /\ list[i] = x
  BY DEF Handed
<1> HIDE DEF of, W, H
<1>6. ASSUME NEW p \in W
      PROVE  /\ p[1] \in DOMAIN s /\ p[2] \in 1 .. Cardinality(of(p[1]))
             /\ p = <<p[1], p[2]>>
             /\ g[p] = InOrder(of(p[1]))[p[2]]
             /\ g[p] \in of(p[1]) /\ g[p] \in H
  <2>0. PICK k \in DOMAIN s : \E r \in DOMAIN Picked(list, of(k)) :
           p = <<k, r>> /\ Picked(list, of(k))[r] = x
    BY <1>4, <1>6
  <2>1. PICK r \in DOMAIN Picked(list, of(k)) : p = <<k, r>> /\ Picked(list, of(k))[r] = x
    BY <2>0
  <2>2. p[1] = k /\ p[2] = r /\ r \in 1 .. Cardinality(of(k))
    BY <1>1, <2>1
  <2>3. g[p] = InOrder(of(k))[r]
    BY <1>6, <2>2
  <2>4. InOrder(of(k))[r] \in of(k) /\ list[InOrder(of(k))[r]] = x
    BY <1>1, <2>1, <2>2
  <2> QED
    BY <1>3, <1>5, <2>0, <2>1, <2>2, <2>3, <2>4
<1> HIDE DEF g
<1>7. ASSUME NEW p \in W, NEW q \in W, g[p] = g[q]
      PROVE  p = q
  <2>1. s[p[1]] = s[q[1]]
    BY <1>3, <1>6, <1>7
  <2>2. p[1] = q[1]
    BY <1>6, <2>1
  <2>3. InOrder(of(p[1]))[p[2]] = InOrder(of(p[1]))[q[2]]
    BY <1>6, <1>7, <2>2
  <2>4. p[1] \in DOMAIN s /\ p[2] \in 1 .. Cardinality(of(p[1])) /\ q[2] \in 1 .. Cardinality(of(p[1]))
    BY <1>6, <2>2
  <2>5. p[2] = q[2]
    BY <1>2, <2>3, <2>4
  <2>6. p = <<p[1], p[2]>> /\ q = <<q[1], q[2]>>
    BY <1>6
  <2> QED
    BY <2>2, <2>5, <2>6
<1>8. ASSUME NEW i \in H
      PROVE  \E p \in W : g[p] = i
  <2>1. i \in DOMAIN list /\ list[i] = x
    BY <1>5, <1>8
  <2>2. PICK k \in DOMAIN s : s[k] = a[i]
    BY <2>1
  <2>3. i \in of(k)
    BY <1>3, <2>1, <2>2
  <2>4. PICK r \in 1 .. Cardinality(of(k)) : InOrder(of(k))[r] = i
    BY <1>1, <2>3
  <2>5. r \in DOMAIN Picked(list, of(k)) /\ Picked(list, of(k))[r] = x
    BY <1>1, <2>1, <2>4
  <2>6. <<k, r>> \in W
    BY <1>4, <2>5
  <2>7. g[<<k, r>>] = InOrder(of(<<k, r>>[1]))[<<k, r>>[2]]
    BY <1>6, <2>6
  <2>8. <<k, r>>[1] = k /\ <<k, r>>[2] = r
    OBVIOUS
  <2>9. g[<<k, r>>] = i
    BY <2>4, <2>7, <2>8
  <2> QED
    BY <2>6, <2>9
<1>9. g \in [W -> H]
  <2>1. DOMAIN g = W /\ g = [p \in W |-> g[p]]
    BY DEF g
  <2> QED
    BY <1>6, <2>1
<1>10. g \in Injection(W, H) /\ g \in Surjection(W, H)
  BY <1>7, <1>8, <1>9 DEF Injection, IsInjective, Surjection
<1>11. IsFiniteSet(H)
  <2>1. H \in SUBSET (1 .. Len(list)) /\ Len(list) \in Nat
    BY <1>5
  <2> QED
    BY <2>1, IndicesFinite
<1>12. IsFiniteSet(W)
  BY <1>10, <1>11, FS_Injection
<1>13. Cardinality(H) = Cardinality(W)
  BY <1>10, <1>12, FS_Surjection
<1> QED
  BY <1>13 DEF H, W

\* What groupByTheme returns, however it walks its maps.
LEMMA ThemesDivide ==
  ASSUME NEW list \in Seq(Note), NEW themes \in Themes(list)
  PROVE  Divides(themes, list)
<1>1. PICK a \in Assignments(list) :
        \E s \in SetToSeqs({a[i] : i \in DOMAIN list}) :
           /\ \A j, k \in DOMAIN s : j < k => Len(Group(list, a, s[j])) >= Len(Group(list, a, s[k]))
           /\ themes = [k \in DOMAIN s |-> [theme |-> s[k], results |-> Group(list, a, s[k])]]
  BY DEF Themes
<1>2. PICK s \in SetToSeqs({a[i] : i \in DOMAIN list}) :
           /\ \A j, k \in DOMAIN s : j < k => Len(Group(list, a, s[j])) >= Len(Group(list, a, s[k]))
           /\ themes = [k \in DOMAIN s |-> [theme |-> s[k], results |-> Group(list, a, s[k])]]
  BY <1>1
<1> DEFINE names == {a[i] : i \in DOMAIN list}
<1>3. IsFiniteSet(names)
  <2>1. IsFiniteSet(DOMAIN list)
    <3>1. DOMAIN list \in SUBSET (1 .. Len(list)) /\ Len(list) \in Nat
      OBVIOUS
    <3> QED
      BY <3>1, IndicesFinite
  <2> QED
    BY <2>1, ImageFinite
<1>4. \A i \in DOMAIN list : a[i] \in names
  OBVIOUS
<1> HIDE DEF names
<1>5. /\ s \in Seq(names) /\ DOMAIN s = 1 .. Len(s)
      /\ \A y \in names : \E k \in 1 .. Len(s) : s[k] = y
      /\ \A j, k \in 1 .. Len(s) : s[j] = s[k] => j = k
  <2>1. s \in SetToSeqs(names)
    BY <1>2 DEF names
  <2> QED
    BY <1>3, <2>1, OrdersOf
<1>6. GroupsOf(themes, s, list, a)
  BY <1>2 DEF GroupsOf
<1>7. \A i \in DOMAIN list : \E k \in DOMAIN s : s[k] = a[i]
  BY <1>4, <1>5
<1>8. \A j, k \in DOMAIN s : s[j] = s[k] => j = k
  BY <1>5
<1>9. \A x : Cardinality(Shown(themes, x)) = Cardinality(Handed(list, x))
  BY <1>6, <1>7, <1>8, AsManyPlaces
<1>10. \A j, k \in DOMAIN themes : j < k =>
          themes[j].theme # themes[k].theme /\ Len(themes[j].results) >= Len(themes[k].results)
  <2>1. SUFFICES ASSUME NEW j \in DOMAIN s, NEW k \in DOMAIN s, j < k
                 PROVE  /\ themes[j].theme # themes[k].theme
                        /\ Len(themes[j].results) >= Len(themes[k].results)
    BY <1>6 DEF GroupsOf
  <2>2. /\ themes[j].theme = s[j] /\ themes[j].results = Group(list, a, s[j])
        /\ themes[k].theme = s[k] /\ themes[k].results = Group(list, a, s[k])
    BY <1>6 DEF GroupsOf
  <2>3. Len(Group(list, a, s[j])) >= Len(Group(list, a, s[k]))
    BY <1>2, <2>1
  <2>4. s[j] # s[k]
    <3>1. j # k
      BY <1>5, <2>1
    <3> QED
      BY <1>8, <3>1
  <2> QED
    BY <2>2, <2>3, <2>4
<1> QED
  BY <1>9, <1>10 DEF Divides

\* The answer of deep_research, as far as its themes go.
LEMMA ThemesStep ==
  ASSUME Synthesis
  PROVE  ThemesPartition'
<1>1. PICK list \in Notes : CompareSources(list) \/ Summarize(list) \/ DeepResearch(list)
  BY DEF Synthesis
<1>2. CASE CompareSources(list) \/ Summarize(list)
  <2>1. answer'.op \in {"compare", "summarize"}
    BY <1>2 DEF CompareSources, Summarize
  <2> QED
    BY <2>1 DEF ThemesPartition
<1>3. CASE DeepResearch(list)
  <2>1. PICK themes \in Themes(list) :
          answer' = [op |-> "deep_research", list |-> list, themes |-> themes,
                     findings |-> KeyFindings(list)]
    BY <1>3 DEF DeepResearch
  <2>2. answer'.themes = themes /\ answer'.list = list
    BY <2>1
  <2>3. Divides(themes, list)
    BY InputsAssumption, ThemesDivide
  <2> QED
    BY <2>2, <2>3 DEF ThemesPartition
<1> QED
  BY <1>1, <1>2, <1>3

-----------------------------------------------------------------------------
(* Synthesis.                                                              *)

\* sources has the fields of the items in firsts.
FieldsOf(sources, firsts, list) ==
    /\ DOMAIN sources = DOMAIN firsts
    /\ \A k \in DOMAIN firsts : /\ sources[k].url = firsts[k].url
                               /\ sources[k].date = firsts[k].date
                               /\ sources[k].recent = Newest(list, firsts[k])

\* The addresses of the sources, and which of them is called recent.
LEMMA ComparedSources ==
  ASSUME NEW list \in Seq(Note), NEW firsts, firsts = Firsts(list, LAMBDA item : item.url),
         NEW sources, FieldsOf(sources, firsts, list)
  PROVE  SourcesOf(list, sources)
<1> DEFINE key == [x \in Note |-> x.url]
           at == {i \in DOMAIN list : \A j \in 1 .. i - 1 : list[j].url # list[i].url}
<1>1. firsts = Picked(list, at)
  BY DEF Firsts, Kept
<1>2. \A i \in DOMAIN list : list[i] \in Note /\ key[list[i]] = list[i].url
  BY ElementType
<1>3. at \in SUBSET DOMAIN list /\ NotBefore(at, list, key)
  <2>1. ASSUME NEW i \in DOMAIN list, NEW j \in 1 .. i - 1
        PROVE  j \in DOMAIN list
    OBVIOUS
  <2> HIDE DEF key
  <2> QED
    BY <1>2, <2>1 DEF NotBefore
<1> HIDE DEF key, at
<1>4. /\ \A k \in DOMAIN firsts : \E i \in DOMAIN list : firsts[k] = list[i]
      /\ \A j, k \in DOMAIN firsts : key[firsts[j]] = key[firsts[k]] => j = k
      /\ \A i \in DOMAIN list : \E k \in DOMAIN firsts : key[firsts[k]] = key[list[i]]
  <2>1. FirstsOf(firsts, list, key)
    BY <1>1, <1>3, FirstsFacts
  <2> QED
    BY <2>1 DEF FirstsOf
<1>5. \A k \in DOMAIN firsts : key[firsts[k]] = firsts[k].url
  BY <1>2, <1>4
<1>6. DOMAIN sources = DOMAIN firsts
      /\ \A k \in DOMAIN firsts : /\ sources[k].url = firsts[k].url
                                  /\ sources[k].date = firsts[k].date
                                  /\ sources[k].recent = Newest(list, firsts[k])
  BY DEF FieldsOf
<1>7. \A k \in DOMAIN sources : \E i \in DOMAIN list : sources[k].url = list[i].url
  BY <1>4, <1>6
<1>8. \A i \in DOMAIN list : \E k \in DOMAIN sources : sources[k].url = list[i].url
  <2>1. SUFFICES ASSUME NEW i \in DOMAIN list
                 PROVE  \E k \in DOMAIN sources : sources[k].url = list[i].url
    OBVIOUS
  <2>2. PICK k \in DOMAIN firsts : key[firsts[k]] = key[list[i]]
    BY <1>4
  <2>3. sources[k].url = list[i].url
    BY <1>2, <1>5, <1>6, <2>2
  <2> QED
    BY <1>6, <2>2, <2>3
<1>9. {sources[k].url : k \in DOMAIN sources} = {list[i].url : i \in DOMAIN list}
  BY <1>7, <1>8
<1>10. \A j, k \in DOMAIN sources : sources[j].url = sources[k].url => j = k
  BY <1>4, <1>5, <1>6
<1>11. \A k \in DOMAIN sources : sources[k].recent => \A i \in DOMAIN list : list[i].date <= sources[k].date
  BY <1>6 DEF Newest
<1> QED
  BY <1>9, <1>10, <1>11 DEF SourcesOf

\* The titles in which a word is.
Naming(list, word) == {i \in DOMAIN list : word \in ToSet(list[i].title)}

\* A word occurs at least as often as there are titles in which it is.
LEMMA NamingOccurs ==
  ASSUME NEW list \in Seq(Note), NEW word
  PROVE  /\ Cardinality(Naming(list, word)) \in Nat /\ Occurrences(list, word) \in Nat
         /\ Cardinality(Naming(list, word)) <= Occurrences(list, word)
<1> DEFINE there(i) == {k \in DOMAIN list[i].title : list[i].title[k] = word}
           part(i) == {<<i, k>> : k \in there(i)}
           parts == {part(i) : i \in DOMAIN list}
           all == UNION parts
           f == [i \in DOMAIN list |-> part(i)]
<1>1. Occurrences(list, word) = Cardinality(all)
  BY DEF Occurrences
<1>2. IsFiniteSet(DOMAIN list) /\ \A i \in DOMAIN list : list[i] \in Note
  <2>1. DOMAIN list \in SUBSET (1 .. Len(list)) /\ Len(list) \in Nat
    OBVIOUS
  <2>2. \A i \in DOMAIN list : list[i] \in Note
    BY ElementType
  <2> QED
    BY <2>1, <2>2, IndicesFinite
<1>3. ASSUME NEW i \in DOMAIN list
      PROVE  IsFiniteSet(part(i))
  <2> DEFINE title == list[i].title
             g == [k \in there(i) |-> <<i, k>>]
  <2>1. list[i].title \in Seq(STRING)
    BY <1>2 DEF Note
  <2>2. there(i) \in SUBSET (1 .. Len(list[i].title)) /\ Len(list[i].title) \in Nat
    BY <2>1
  <2>3. IsFiniteSet(there(i))
    BY <2>2, IndicesFinite
  <2>4. part(i) = {g[k] : k \in there(i)}
    OBVIOUS
  <2> HIDE DEF g, there
  <2>5. IsFiniteSet({g[k] : k \in there(i)})
    BY <2>3, ImageFinite
  <2> QED
    BY <2>4, <2>5
<1>4. IsFiniteSet(all)
  <2>1. parts = {f[i] : i \in DOMAIN list}
    OBVIOUS
  <2> HIDE DEF f
  <2>2. IsFiniteSet({f[i] : i \in DOMAIN list})
    BY <1>2, ImageFinite
  <2>3. IsFiniteSet(parts)
    BY <2>1, <2>2
  <2>4. \A T \in parts : IsFiniteSet(T)
    BY <1>3
  <2> HIDE DEF parts
  <2> QED
    BY <2>3, <2>4, FS_UNION
<1>5. Cardinality(all) \in Nat
  BY <1>4, FS_CardinalityType
<1> DEFINE named == Naming(list, word)
           h == [p \in all |-> p[1]]
<1>6. \A p : p \in all <=> \E i \in DOMAIN list : \E k \in there(i) : p = <<i, k>>
  OBVIOUS
<1>7. \A i : i \in named <=> i \in DOMAIN list /\ \E k : k \in there(i)
  BY DEF Naming, ToSet
<1> HIDE DEF all, parts, part, there, named
<1>8. h \in [all -> named] /\ \A p \in all : h[p] = p[1]
  <2>1. \A p \in all : p[1] \in named
    BY <1>6, <1>7
  <2> QED
    BY <2>1
<1> HIDE DEF h
<1>9. \A i \in named : \E p \in all : h[p] = i
  <2>1. SUFFICES ASSUME NEW i \in named PROVE \E p \in all : h[p] = i
    OBVIOUS
  <2>2. PICK k : k \in there(i)
    BY <1>7
  <2>3. <<i, k>> \in all /\ <<i, k>>[1] = i
    BY <1>6, <1>7, <2>2
  <2>4. h[<<i, k>>] = i
    BY <1>8, <2>3
  <2> QED
    BY <2>3, <2>4
<1>10. h \in Surjection(all, named)
  BY <1>8, <1>9 DEF Surjection
<1>11. IsFiniteSet(named) /\ Cardinality(named) <= Cardinality(all)
  BY <1>4, <1>10, FS_Surjection
<1>12. Cardinality(named) \in Nat
  BY <1>11, FS_CardinalityType
<1> QED
  BY <1>1, <1>5, <1>11, <1>12 DEF named

\* The words of the titles of a list.
Words(list) == UNION {ToSet(list[i].title) : i \in DOMAIN list}

\* The words of titles are finitely many.
LEMMA WordsFinite ==
  ASSUME NEW list \in Seq(Note)
  PROVE  IsFiniteSet(Words(list))
<1> DEFINE f == [i \in DOMAIN list |-> ToSet(list[i].title)]
           sets == {ToSet(list[i].title) : i \in DOMAIN list}
<1>1. IsFiniteSet(DOMAIN list) /\ \A i \in DOMAIN list : list[i].title \in Seq(STRING)
  <2>1. DOMAIN list \in SUBSET (1 .. Len(list)) /\ Len(list) \in Nat
    OBVIOUS
  <2>2. \A i \in DOMAIN list : list[i] \in Note
    BY ElementType
  <2> QED
    BY <2>1, <2>2, IndicesFinite DEF Note
<1>2. ASSUME NEW i \in DOMAIN list
      PROVE  IsFiniteSet(ToSet(list[i].title))
  <2> DEFINE title == list[i].title
  <2>1. DOMAIN title \in SUBSET (1 .. Len(title)) /\ Len(title) \in Nat
    BY <1>1
  <2>2. IsFiniteSet(DOMAIN title)
    BY <2>1, IndicesFinite
  <2> HIDE DEF title
  <2>3. IsFiniteSet({title[k] : k \in DOMAIN title})
    BY <2>2, ImageFinite
  <2> QED
    BY <2>3 DEF title, ToSet
<1>3. sets = {f[i] : i \in DOMAIN list}
  OBVIOUS
<1> HIDE DEF f
<1>4. IsFiniteSet({f[i] : i \in DOMAIN list})
  BY <1>1, ImageFinite
<1>5. IsFiniteSet(sets) /\ \A T \in sets : IsFiniteSet(T)
  BY <1>2, <1>3, <1>4
<1> HIDE DEF sets
<1>6. IsFiniteSet(UNION sets)
  BY <1>5, FS_UNION
<1> QED
  BY <1>6 DEF sets, Words

\* The verdict on a list.
LEMMA ConsensusFacts ==
  ASSUME NEW list \in Seq(Note), NEW said \in Consensus(list), Len(list) >= 2
  PROVE  /\ said.verdict = "none" =>
               \A word \in Words(list) : 2 * Cardinality(Naming(list, word)) < Len(list)
         /\ said.verdict = "agree" => said.words # {} /\ said.words \subseteq Words(list)
<1> DEFINE common == CommonWords(list)
           named == IF Cardinality(common) < MaxAgreed THEN Cardinality(common) ELSE MaxAgreed
<1>1. Len(list) \in Nat
  OBVIOUS
<1>2. /\ common \subseteq Words(list)
      /\ \A word \in Words(list) : word \in common <=> Occurrences(list, word) >= Len(list) \div 2
  BY DEF CommonWords, Words
<1>3. \/ common = {} /\ said = [verdict |-> "none", words |-> {}]
      \/ \E s \in kSubset(named, common) : common # {} /\ said = [verdict |-> "agree", words |-> s]
  BY <1>1 DEF Consensus
<1>4. IsFiniteSet(common) /\ Cardinality(common) \in Nat
  BY <1>2, WordsFinite, FS_Subset, FS_CardinalityType
<1> HIDE DEF common
<1>5. CASE said.verdict = "none"
  <2>1. common = {}
    BY <1>3, <1>5
  <2>2. ASSUME NEW word \in Words(list)
        PROVE  2 * Cardinality(Naming(list, word)) < Len(list)
    <3>1. ~(Occurrences(list, word) >= Len(list) \div 2)
      BY <1>2, <2>1
    <3>2. /\ Cardinality(Naming(list, word)) \in Nat /\ Occurrences(list, word) \in Nat
          /\ Cardinality(Naming(list, word)) <= Occurrences(list, word)
      BY NamingOccurs
    <3> DEFINE a == Cardinality(Naming(list, word))
               b == Occurrences(list, word)
               n == Len(list)
    <3>3. a \in Nat /\ b \in Nat /\ n \in Nat /\ a <= b /\ ~(b >= n \div 2)
      BY <1>1, <3>1, <3>2
    <3> HIDE DEF a, b, n
    <3>4. 2 * a < n
      BY <3>3
    <3> QED
      BY <3>4 DEF a, n
  <2> QED
    BY <1>5, <2>2
<1>6. CASE said.verdict = "agree"
  <2>1. PICK s \in kSubset(named, common) : common # {} /\ said = [verdict |-> "agree", words |-> s]
    BY <1>3, <1>6
  <2>2. s \subseteq common /\ Cardinality(s) = named /\ said.words = s
    BY <2>1 DEF kSubset
  <2>3. Cardinality(common) # 0
    BY <1>4, <2>1, FS_EmptySet
  <2>4. named # 0
    BY <1>4, <2>3, ResultsAssumption
  <2>5. s # {}
    BY <2>2, <2>4, FS_EmptySet
  <2> QED
    BY <1>2, <1>6, <2>2, <2>5
<1> QED
  BY <1>5, <1>6

\* A list without repetitions has as many elements as entries.
LEMMA NoRepetition ==
  ASSUME NEW X, NEW s \in Seq(X), \A j, k \in DOMAIN s : s[j] = s[k] => j = k
  PROVE  Len(s) = Cardinality(ToSet(s))
<1> DEFINE n == Len(s)
<1>1. n \in Nat /\ DOMAIN s = 1 .. n
  OBVIOUS
<1> HIDE DEF n
<1>2. \A j, k \in 1 .. n : s[j] = s[k] => j = k
  BY <1>1
<1>3. Cardinality({s[k] : k \in 1 .. n}) = n
  BY <1>1, <1>2, ImageCount
<1>4. ToSet(s) = {s[k] : k \in 1 .. n}
  BY <1>1 DEF ToSet
<1> QED
  BY <1>3, <1>4 DEF n

\* The snippets about the query.
Related(list) ==
    {list[i].phrase : i \in {j \in DOMAIN list : list[j].common >= 2 /\ list[j].long}} \ {NoURL}

\* Findings as they should be.
Findings(list, findings) ==
    /\ Len(findings) <= MaxFindings
    /\ Related(list) # {} => ToSet(findings) \subseteq Related(list)
    /\ Len(findings) = Cardinality(ToSet(findings))

\* What extractKeyFindings returns.
LEMMA KeyFindingsFacts ==
  ASSUME NEW list \in Seq(Note)
  PROVE  Findings(list, KeyFindings(list))
<1> DEFINE at == {i \in DOMAIN list : Relevant(list[i])}
           relevant == Picked(list, at)
           phrases == [k \in DOMAIN relevant |-> relevant[k].phrase]
           same == [p \in Address |-> p]
           first == {i \in DOMAIN phrases : \A j \in 1 .. i - 1 : phrases[j] # phrases[i]}
           firsts == Picked(phrases, first)
           found == Truncated(firsts, MaxFindings)
<1>1. KeyFindings(list) =
        IF found # <<>> THEN found
        ELSE IF list # <<>> /\ list[1].phrase # NoURL THEN <<list[1].phrase>> ELSE <<>>
  <2>1. relevant = Kept(list, LAMBDA i : Relevant(list[i]))
    BY DEF Kept
  <2>2. firsts = Firsts(phrases, LAMBDA p : p)
    BY DEF Firsts, Kept
  <2> HIDE DEF relevant, phrases, firsts
  <2>3. KeyFindings(list) =
          (CASE found # <<>> -> found
             [] found = <<>> /\ list # <<>> /\ list[1].phrase # NoURL -> <<list[1].phrase>>
             [] OTHER -> <<>>)
    BY <2>1, <2>2 DEF KeyFindings, phrases
  <2> HIDE DEF found
  <2> QED
    BY <2>3
<1>2. \A i \in DOMAIN list : list[i] \in Note /\ list[i].phrase \in Address
  <2>1. \A i \in DOMAIN list : list[i] \in Note
    BY ElementType
  <2> QED
    BY <2>1 DEF Note
<1>3. at \in SUBSET DOMAIN list
      /\ \A i \in DOMAIN list : i \in at <=> list[i].phrase # NoURL /\ list[i].common >= 2 /\ list[i].long
  BY DEF Relevant
<1> HIDE DEF at, relevant
<1>4. /\ relevant \in Seq(Note) /\ PicksFrom(relevant, list, at)
      /\ DOMAIN relevant = 1 .. Len(relevant) /\ Len(relevant) \in Nat
  <2>1. Picked(list, at) \in Seq(Note)
    BY <1>3, PickedFacts
  <2>2. PicksFrom(Picked(list, at), list, at)
    BY <1>3, PickedFrom
  <2>3. relevant \in Seq(Note)
    BY <2>1 DEF relevant
  <2> QED
    BY <2>2, <2>3 DEF relevant
<1>5. \A k \in DOMAIN relevant : \E i \in at : relevant[k] = list[i]
  BY <1>4 DEF PicksFrom
<1>6. /\ phrases \in Seq(Address) /\ DOMAIN phrases = DOMAIN relevant
      /\ Len(phrases) = Len(relevant)
      /\ \A k \in DOMAIN relevant : phrases[k] = relevant[k].phrase
  <2>1. phrases \in [1 .. Len(relevant) -> Address]
    BY <1>2, <1>3, <1>4, <1>5
  <2> QED
    BY <1>4, <2>1
<1> HIDE DEF phrases
<1>7. \A k \in DOMAIN phrases : phrases[k] \in Related(list)
  <2>1. SUFFICES ASSUME NEW k \in DOMAIN relevant PROVE relevant[k].phrase \in Related(list)
    BY <1>6
  <2>2. PICK i \in at : relevant[k] = list[i]
    BY <1>5
  <2> QED
    BY <1>3, <2>2 DEF Related
<1>8. Related(list) # {} => phrases # <<>>
  <2>1. SUFFICES ASSUME Related(list) # {} PROVE phrases # <<>>
    OBVIOUS
  <2>2. PICK i \in DOMAIN list : list[i].common >= 2 /\ list[i].long /\ list[i].phrase # NoURL
    BY <2>1 DEF Related
  <2>3. i \in at
    BY <1>3, <2>2
  <2>4. PICK k \in DOMAIN relevant : relevant[k] = list[i]
    BY <1>4, <2>3 DEF PicksFrom
  <2> QED
    BY <1>4, <1>6, <2>4
<1>9. first \in SUBSET DOMAIN phrases /\ NotBefore(first, phrases, same)
  <2>1. \A i \in DOMAIN phrases : same[phrases[i]] = phrases[i]
    BY <1>6, ElementType
  <2>2. ASSUME NEW i \in DOMAIN phrases, NEW j \in 1 .. i - 1
        PROVE  j \in DOMAIN phrases
    BY <1>4, <1>6
  <2> HIDE DEF same
  <2> QED
    BY <2>1, <2>2 DEF NotBefore
<1>10. \A p \in Address : same[p] = p
  OBVIOUS
<1> HIDE DEF first, same, firsts
<1>11. /\ firsts \in Seq(Address) /\ Len(firsts) \in Nat /\ DOMAIN firsts = 1 .. Len(firsts)
       /\ \A k \in DOMAIN firsts : \E i \in DOMAIN phrases : firsts[k] = phrases[i]
       /\ \A j, k \in DOMAIN firsts : same[firsts[j]] = same[firsts[k]] => j = k
       /\ \A i \in DOMAIN phrases : \E k \in DOMAIN firsts : same[firsts[k]] = same[phrases[i]]
  <2>1. firsts \in Seq(Address) /\ FirstsOf(firsts, phrases, same)
    BY <1>6, <1>9, FirstsFacts DEF firsts
  <2> QED
    BY <2>1 DEF FirstsOf
<1>12. \A j, k \in DOMAIN firsts : firsts[j] = firsts[k] => j = k
  BY <1>11
<1>13. /\ found \in Seq(Address)
       /\ Len(found) = IF Len(firsts) < MaxFindings THEN Len(firsts) ELSE MaxFindings
       /\ \A i \in 1 .. Len(found) : found[i] = firsts[i]
  BY <1>11, ResultsAssumption, TruncatedFacts
<1> HIDE DEF found
<1>14. /\ Len(found) \in Nat /\ Len(found) <= MaxFindings /\ Len(found) <= Len(firsts)
       /\ DOMAIN found = 1 .. Len(found)
       /\ firsts # <<>> => found # <<>>
  <2>1. Len(found) \in Nat /\ DOMAIN found = 1 .. Len(found)
    BY <1>13
  <2>2. firsts # <<>> => Len(firsts) # 0
    BY <1>11
  <2>3. Len(found) # 0 => found # <<>>
    BY <1>13
  <2> QED
    BY <1>11, <1>13, <2>1, <2>2, <2>3, ResultsAssumption
<1>15. ASSUME found # <<>>
       PROVE  Findings(list, found)
  <2>1. \A j, k \in DOMAIN found : found[j] = found[k] => j = k
    BY <1>11, <1>12, <1>13, <1>14
  <2>2. Len(found) = Cardinality(ToSet(found))
    BY <1>13, <2>1, NoRepetition
  <2>3. ToSet(found) \subseteq Related(list)
    <3>1. SUFFICES ASSUME NEW k \in DOMAIN found PROVE found[k] \in Related(list)
      BY DEF ToSet
    <3>2. k \in DOMAIN firsts /\ found[k] = firsts[k]
      BY <1>11, <1>13, <1>14
    <3> QED
      BY <1>7, <1>11, <3>2
  <2> QED
    BY <1>14, <2>2, <2>3 DEF Findings
<1>16. ASSUME found = <<>>
       PROVE  Related(list) = {}
  <2>1. firsts = <<>> /\ DOMAIN firsts = {}
    BY <1>11, <1>14, <1>16
  <2>2. DOMAIN phrases = {}
    BY <1>11, <2>1
  <2>3. phrases = <<>>
    BY <1>6, <2>2
  <2> QED
    BY <1>8, <2>3
<1>17. ASSUME NEW p
       PROVE  Related(list) = {} => Findings(list, <<p>>)
  <2>1. Len(<<p>>) = 1 /\ ToSet(<<p>>) = {p}
    BY DEF ToSet
  <2>2. Cardinality({p}) = 1
    BY FS_Singleton
  <2>3. Len(<<p>>) <= MaxFindings
    BY <2>1, ResultsAssumption
  <2>4. Len(<<p>>) = Cardinality(ToSet(<<p>>))
    BY <2>1, <2>2
  <2> QED
    BY <2>3, <2>4 DEF Findings
<1>18. Related(list) = {} => Findings(list, <<>>)
  <2>1. Len(<<>>) = 0 /\ ToSet(<<>>) = {}
    BY DEF ToSet
  <2>2. Cardinality({}) = 0
    BY FS_EmptySet
  <2>3. Len(<<>>) <= MaxFindings
    BY <2>1, ResultsAssumption
  <2>4. Len(<<>>) = Cardinality(ToSet(<<>>))
    BY <2>1, <2>2
  <2> QED
    BY <2>3, <2>4 DEF Findings
<1> QED
  BY <1>1, <1>15, <1>16, <1>17, <1>18

-----------------------------------------------------------------------------
\* The answers of the synthesis tools.
LEMMA SynthesisStep ==
  ASSUME Synthesis
  PROVE  SynthesisIsSound'
<1>1. PICK list \in Notes : CompareSources(list) \/ Summarize(list) \/ DeepResearch(list)
  BY DEF Synthesis
<1>2. list \in Seq(Note)
  BY InputsAssumption
<1>3. CASE CompareSources(list)
  <2> DEFINE firsts == Firsts(list, LAMBDA item : item.url)
             sources == [k \in DOMAIN firsts |-> [url |-> firsts[k].url, date |-> firsts[k].date,
                                                 recent |-> Newest(list, firsts[k])]]
  <2>1. PICK said \in Consensus(list) :
          answer' = [op |-> "compare", list |-> list, consensus |-> said, sources |-> sources]
    BY <1>3 DEF CompareSources
  <2>2. /\ answer'.op = "compare" /\ answer'.list = list /\ answer'.consensus = said
        /\ answer'.sources = sources
    BY <2>1
  <2>3. FieldsOf(sources, firsts, list)
    BY DEF FieldsOf
  <2> HIDE DEF sources
  <2>4. SourcesOf(list, sources)
    BY <1>2, <2>3, ComparedSources
  <2>5. MostRecentIsNewest'
    BY <2>2, <2>4 DEF MostRecentIsNewest
  <2>6. Len(list) >= 2 =>
          /\ said.verdict = "none" =>
               \A word \in Words(list) : 2 * Cardinality(Naming(list, word)) < Len(list)
          /\ said.verdict = "agree" => said.words # {} /\ said.words \subseteq Words(list)
    BY <1>2, ConsensusFacts
  <2>7. ConsensusNotMissed'
    BY <2>2, <2>6 DEF ConsensusNotMissed, Words, Naming
  <2> QED
    BY <2>2, <2>5, <2>7 DEF SynthesisIsSound, FindingsRelevant
<1>4. CASE Summarize(list) \/ DeepResearch(list)
  <2>1. /\ answer'.op \in {"summarize", "deep_research"} /\ answer'.list = list
        /\ answer'.findings = KeyFindings(list)
    BY <1>4 DEF Summarize, DeepResearch
  <2>2. Findings(list, KeyFindings(list))
    BY <1>2, KeyFindingsFacts
  <2>3. FindingsRelevant'
    BY <2>1, <2>2 DEF FindingsRelevant, Findings, Related
  <2> QED
    BY <2>1, <2>3 DEF SynthesisIsSound, MostRecentIsNewest, ConsensusNotMissed
<1> QED
  BY <1>1, <1>3, <1>4

\* SynthesisIsSound holds in every reachable state: synthesizer.go with lists of any
\* length, in which results may repeat and lack a date or a snippet.
THEOREM SynthesisTellsTheTruth == Spec => []SynthesisIsSound
<1>1. Init => SynthesisIsSound
  BY DEF Init, SynthesisIsSound, MostRecentIsNewest, FindingsRelevant, ConsensusNotMissed
<1>2. SynthesisIsSound /\ [Next]_vars => SynthesisIsSound'
  <2>1. SUFFICES ASSUME SynthesisIsSound, [Next]_vars PROVE SynthesisIsSound'
    OBVIOUS
  <2>2. CASE answer' = answer
    <3>1. MostRecentIsNewest'
      BY <2>1, <2>2 DEF SynthesisIsSound, MostRecentIsNewest
    <3>2. FindingsRelevant'
      BY <2>1, <2>2 DEF SynthesisIsSound, FindingsRelevant
    <3>3. ConsensusNotMissed'
      BY <2>1, <2>2 DEF SynthesisIsSound, ConsensusNotMissed
    <3> QED
      BY <3>1, <3>2, <3>3 DEF SynthesisIsSound
  <2>3. CASE Synthesis
    BY <2>3, SynthesisStep
  <2>4. CASE Images \/ Reddit \/ PyPI \/ Listings \/ Docs \/ Local \/ Plan \/ All \/ Fetched
    <3>1. answer'.op \notin {"compare", "summarize", "deep_research"}
      BY <2>4, OpOfAnswer
    <3> QED
      BY <3>1 DEF SynthesisIsSound, MostRecentIsNewest, FindingsRelevant, ConsensusNotMissed
  <2> QED
    BY <2>1, <2>2, <2>3, <2>4, AnswerSteps
<1> QED
  BY <1>1, <1>2, PTL DEF Spec

\* MapOrderIsHarmless holds in every reachable state: groupByTheme, ClassifyIntent and
\* SearchAll, in whatever order Go walks their maps and whichever connectors fail.
THEOREM MapOrderDoesNoHarm == Spec => []MapOrderIsHarmless
<1>1. Init => MapOrderIsHarmless
  BY DEF Init, MapOrderIsHarmless, ThemesPartition, IntentIsStrongest, FailuresAreLocal
<1>2. MapOrderIsHarmless /\ [Next]_vars => MapOrderIsHarmless'
  <2>1. SUFFICES ASSUME MapOrderIsHarmless, [Next]_vars PROVE MapOrderIsHarmless'
    OBVIOUS
  <2>2. CASE answer' = answer
    <3>1. ThemesPartition'
      BY <2>1, <2>2 DEF MapOrderIsHarmless, ThemesPartition
    <3>2. IntentIsStrongest'
      BY <2>1, <2>2 DEF MapOrderIsHarmless, IntentIsStrongest
    <3>3. FailuresAreLocal'
      BY <2>1, <2>2 DEF MapOrderIsHarmless, FailuresAreLocal
    <3> QED
      BY <3>1, <3>2, <3>3 DEF MapOrderIsHarmless
  <2>3. CASE Synthesis
    <3>1. ThemesPartition'
      BY <2>3, ThemesStep
    <3>2. answer'.op \in {"compare", "summarize", "deep_research"}
      BY <2>3, OpOfAnswer
    <3> QED
      BY <3>1, <3>2 DEF MapOrderIsHarmless, IntentIsStrongest, FailuresAreLocal
  <2>4. CASE Plan
    <3>1. IntentIsStrongest'
      BY <2>4, PlanStep
    <3>2. answer'.op = "plan"
      BY <2>4, OpOfAnswer
    <3> QED
      BY <3>1, <3>2 DEF MapOrderIsHarmless, ThemesPartition, FailuresAreLocal
  <2>5. CASE All
    <3>1. FailuresAreLocal'
      BY <2>5, AllStep
    <3>2. answer'.op = "all"
      BY <2>5, OpOfAnswer
    <3> QED
      BY <3>1, <3>2 DEF MapOrderIsHarmless, ThemesPartition, IntentIsStrongest
  <2>6. CASE Images \/ Reddit \/ PyPI \/ Listings \/ Docs \/ Local \/ Fetched
    <3>1. answer'.op \notin {"deep_research", "plan", "all"}
      BY <2>6, OpOfAnswer
    <3> QED
      BY <3>1 DEF MapOrderIsHarmless, ThemesPartition, IntentIsStrongest, FailuresAreLocal
  <2> QED
    BY <2>1, <2>2, <2>3, <2>4, <2>5, <2>6, AnswerSteps
<1> QED
  BY <1>1, <1>2, PTL DEF Spec

-----------------------------------------------------------------------------
(* The local index.                                                        *)

\* A tool answers only once the corpus is loaded or known to be missing; without one
\* there are no documents.
Served ==
    /\ answer.op # "none" => boot \in {"ready", "unconfigured"}
    /\ boot = "unconfigured" => documents = <<>>

\* What the local index needs of the state.
Booted == TypeOK /\ Followed /\ Served

\* Nothing is loaded twice.
LEMMA BootedStaysServed ==
  ASSUME Booted, Load
  PROVE  /\ Served'
         /\ boot \in {"ready", "unconfigured"} => documents' = documents
<1>1. Loading \/ boot \in {"lstat", "open", "stat", "read"}
  BY DEF Load, LoadNext, Replace, Rewrite, Inspect, Open, Stat, Read
<1>2. boot \notin {"ready", "unconfigured"}
  BY <1>1 DEF Loading
<1>3. boot' # "unconfigured"
  BY <1>2 DEF Load, LoadNext, Replace, Rewrite, Inspect, Open, Stat, Read, LoadFails, Booted, TypeOK
<1>4. answer.op = "none" /\ answer' = answer
  BY <1>2 DEF Load, Booted, Served
<1> QED
  BY <1>2, <1>3, <1>4 DEF Served

\* The best documents that match, whatever order sort.Slice leaves equal ones in.
LEMMA RankingIsBest ==
  ASSUME NEW docs \in Seq(Document), DistinctIds(docs), NEW limit \in Nat,
         NEW results \in {Truncated(s, limit) : s \in Rankings({d \in ToSet(docs) : Matches(d)})}
  PROVE  BestMatches(docs, limit, results)
<1> DEFINE matching == {d \in ToSet(docs) : Matches(d)}
<1>1. IsFiniteSet(matching) /\ matching \subseteq ToSet(docs)
  <2>1. DOMAIN docs \in SUBSET (1 .. Len(docs)) /\ Len(docs) \in Nat
    OBVIOUS
  <2>2. IsFiniteSet(DOMAIN docs)
    BY <2>1, IndicesFinite
  <2>3. IsFiniteSet({docs[i] : i \in DOMAIN docs})
    BY <2>2, ImageFinite
  <2>4. IsFiniteSet(ToSet(docs))
    BY <2>3 DEF ToSet
  <2>5. matching \in SUBSET ToSet(docs)
    OBVIOUS
  <2> HIDE DEF matching
  <2> QED
    BY <2>4, <2>5, FS_Subset
<1>2. PICK s \in SetToSeqs(matching) :
         /\ results = Truncated(s, limit)
         /\ \A i, j \in DOMAIN s : Before(s[i], s[j]) => i < j
  BY DEF Rankings
<1> HIDE DEF matching
<1>3. /\ s \in Seq(matching) /\ Len(s) \in Nat /\ DOMAIN s = 1 .. Len(s)
      /\ \A d \in matching : \E k \in 1 .. Len(s) : s[k] = d
      /\ \A j, k \in 1 .. Len(s) : s[j] = s[k] => j = k
  BY <1>1, OrdersOf
<1>4. /\ results \in Seq(matching)
      /\ Len(results) = IF Len(s) < limit THEN Len(s) ELSE limit
      /\ \A i \in 1 .. Len(results) : results[i] = s[i]
      /\ \A i \in 1 .. Len(s) : i <= limit => i \in 1 .. Len(results)
  <2>1. s \in Seq(matching) /\ results = Truncated(s, limit)
    BY <1>2, <1>3
  <2> QED
    BY <2>1, TruncatedFacts
<1>5. DOMAIN results = 1 .. Len(results) /\ Len(results) \in Nat /\ Len(results) <= Len(s)
  BY <1>3, <1>4
<1>6. \A i \in DOMAIN results : i \in DOMAIN s /\ results[i] = s[i] /\ i <= Len(results)
  BY <1>3, <1>4, <1>5
<1>7. ToSet(results) \subseteq matching
  <2>1. \A i \in DOMAIN results : results[i] \in matching
    BY <1>4, ElementType
  <2> QED
    BY <2>1 DEF ToSet
<1>8. ASSUME NEW d \in matching \ ToSet(results)
      PROVE  Len(results) = limit /\ \A i \in DOMAIN results : ~Before(d, results[i])
  <2>1. PICK k \in 1 .. Len(s) : s[k] = d
    BY <1>3
  <2>2. k \notin 1 .. Len(results)
    <3>1. k \in DOMAIN results => results[k] \in ToSet(results)
      BY DEF ToSet
    <3> QED
      BY <1>4, <1>5, <1>8, <2>1, <3>1
  <2>3. ~(k <= limit)
    BY <1>4, <2>2
  <2>4. Len(results) = limit
    <3> DEFINE n == Len(s)
    <3>1. n \in Nat /\ k \in 1 .. n
      BY <1>3
    <3> HIDE DEF n
    <3>2. ~(n < limit)
      BY <2>3, <3>1
    <3>3. Len(results) = IF n < limit THEN n ELSE limit
      BY <1>4 DEF n
    <3> QED
      BY <3>2, <3>3
  <2>5. ASSUME NEW i \in DOMAIN results, Before(d, results[i])
        PROVE  FALSE
    <3>1. i \in DOMAIN s /\ Before(s[k], s[i]) /\ k \in DOMAIN s /\ i <= Len(results)
      BY <1>3, <1>6, <2>1, <2>5
    <3>2. k < i
      BY <1>2, <3>1
    <3> QED
      BY <1>3, <1>5, <2>1, <2>2, <3>1, <3>2
  <2> QED
    BY <2>4, <2>5
<1>9. ASSUME NEW i \in DOMAIN results, NEW j \in DOMAIN results, i < j
      PROVE  ~Before(results[j], results[i]) /\ results[i].id # results[j].id
  <2>1. /\ i \in DOMAIN s /\ j \in DOMAIN s /\ results[i] = s[i] /\ results[j] = s[j]
        /\ i \in Nat /\ j \in Nat
    BY <1>5, <1>6
  <2>2. ~Before(s[j], s[i])
    BY <1>2, <1>9, <2>1
  <2>3. s[i] # s[j]
    BY <1>3, <1>9, <2>1
  <2>4. s[i] \in ToSet(docs) /\ s[j] \in ToSet(docs)
    BY <1>1, <1>3, <2>1, ElementType
  <2>5. PICK h \in DOMAIN docs : docs[h] = s[i]
    BY <2>4 DEF ToSet
  <2>6. PICK k \in DOMAIN docs : docs[k] = s[j]
    BY <2>4 DEF ToSet
  <2>7. s[i].id # s[j].id
    BY <2>3, <2>5, <2>6 DEF DistinctIds
  <2> QED
    BY <2>1, <2>2, <2>7
<1> QED
  BY <1>7, <1>8, <1>9 DEF BestMatches, matching

\* The answer of the local index.
LEMMA LocalStep ==
  ASSUME Booted, boot \in {"ready", "unconfigured"}, Local, UNCHANGED loadVars
  PROVE  BestDocuments'
<1>1. PICK max \in Limits : SearchLocalIndex(max)
  BY DEF Local
<1>2. PICK results \in IF boot = "ready" THEN LocalResults(LocalLimit(max)) ELSE {<<>>} :
        answer' = [op |-> "local", max |-> max, results |-> results]
  BY <1>1 DEF SearchLocalIndex
<1>3. answer'.max = max /\ answer'.results = results /\ documents' = documents
  BY <1>2 DEF loadVars
<1>4. LocalLimit(max) \in Nat
  BY ResultsAssumption DEF LocalLimit, AtMost
<1>5. CASE boot = "ready"
  <2>1. documents \in Seq(Document)
    <3>1. <<>> \in Seq(Document)
      OBVIOUS
    <3> QED
      BY <3>1, LocalIndexAssumption DEF Booted, TypeOK
  <2>2. DistinctIds(documents)
    BY <1>5 DEF Booted, Followed
  <2>3. results \in {Truncated(s, LocalLimit(max)) : s \in Rankings({d \in ToSet(documents) : Matches(d)})}
    BY <1>2, <1>5 DEF LocalResults
  <2>4. BestMatches(documents, LocalLimit(max), results)
    BY <1>4, <2>1, <2>2, <2>3, RankingIsBest
  <2> QED
    BY <1>3, <2>4 DEF BestDocuments
<1>6. CASE boot = "unconfigured"
  <2>1. documents = <<>> /\ results = <<>>
    BY <1>2, <1>6 DEF Booted, Served
  <2>2. ToSet(<<>>) = {}
    BY DEF ToSet
  <2>3. BestMatches(<<>>, LocalLimit(max), <<>>)
    BY <2>2 DEF BestMatches
  <2> QED
    BY <1>3, <2>1, <2>3 DEF BestDocuments
<1> QED
  BY <1>5, <1>6

\* BestDocuments holds in every reachable state: the ranking of local_index.go over a
\* corpus of any size, whatever order sort.Slice leaves equal documents in.
THEOREM LocalIndexRanks == Spec => []BestDocuments
<1>1. Init => BestDocuments /\ Served
  BY DEF Init, LoadInit, BestDocuments, Served
<1>2. Booted /\ BestDocuments /\ [Next]_vars => BestDocuments' /\ Served'
  <2>1. SUFFICES ASSUME Booted, BestDocuments, [Next]_vars PROVE BestDocuments' /\ Served'
    OBVIOUS
  <2>2. CASE Load
    <3>1. answer' = answer /\ Served' /\ (boot \in {"ready", "unconfigured"} => documents' = documents)
      BY <2>1, <2>2, BootedStaysServed DEF Load
    <3> QED
      BY <2>1, <3>1 DEF BestDocuments, Booted, Served
  <2>3. CASE UNCHANGED vars
    <3>1. answer' = answer /\ boot' = boot /\ documents' = documents
      BY <2>3 DEF vars
    <3> QED
      BY <2>1, <3>1 DEF BestDocuments, Booted, Served
  <2>4. CASE Serve
    <3>1. boot \in {"ready", "unconfigured"} /\ UNCHANGED loadVars
      BY <2>4 DEF Serve
    <3>2. Served'
      BY <2>1, <3>1 DEF loadVars, Booted, Served
    <3>3. CASE Local
      BY <2>1, <3>1, <3>2, <3>3, LocalStep
    <3>4. CASE Images \/ Reddit \/ PyPI \/ Listings \/ Docs \/ Synthesis \/ Plan \/ All \/ Fetched
      <4>1. answer'.op # "local"
        BY <3>4, OpOfAnswer
      <4> QED
        BY <3>2, <4>1 DEF BestDocuments
    <3> QED
      BY <2>4, <3>3, <3>4 DEF Serve
  <2> QED
    BY <2>1, <2>2, <2>3, <2>4 DEF Next
<1>3. Spec => []Followed
  BY FollowedInit, FollowedStep, PTL DEF Spec
<1>4. TypeOK /\ Followed /\ Served <=> Booted
  BY DEF Booted
<1> QED
  BY <1>1, <1>2, <1>3, <1>4, ResultsTypeCorrect, PTL DEF Spec
=============================================================================
