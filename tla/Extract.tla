------------------------------ MODULE Extract ------------------------------
(***************************************************************************)
(* internal/fetch/extractor.go, from what its patterns capture in a page:  *)
(* the text that fetch_and_extract returns in its default mode, and the    *)
(* tables of extract_structured.                                           *)
(*                                                                         *)
(* A text is its length, without tags and needless white space.  A page    *)
(* has its whole text, the first capture of each pattern for a main area,  *)
(* and its paragraphs.  A table is a sequence of rows, and a cell has a    *)
(* text and is a heading (th) or not (td).                                 *)
(***************************************************************************)
EXTENDS Naturals, Selection

CONSTANTS
    MinArea,            \* a main area must be longer than this
    MinParagraph        \* and a paragraph longer than this

ASSUME ExtractAssumption == MinArea \in Nat /\ MinParagraph \in Nat

\* Mutant of ExtractMainContent: what is too short everywhere is nothing.
ExtractMainContentStrict(page) ==
    LET areas == Kept(page.areas, LAMBDA i : page.areas[i] > MinArea)
        long == Kept(page.paragraphs, LAMBDA i : page.paragraphs[i] > MinParagraph)
    IN  CASE areas # <<>> -> <<Head(areas)>>
          [] areas = <<>> /\ page.paragraphs = <<>> -> <<page.whole>>
          [] OTHER -> long

\* The first main area of some length; else the paragraphs of some length; else all of it.
ExtractMainContent(page) ==
    LET areas == Kept(page.areas, LAMBDA i : page.areas[i] > MinArea)
        long == Kept(page.paragraphs, LAMBDA i : page.paragraphs[i] > MinParagraph)
    IN  CASE areas # <<>> -> <<Head(areas)>>
          [] areas = <<>> /\ long # <<>> -> long
          [] OTHER -> <<page.whole>>

\* The headings of a table, wherever they stand in it.
Headings(table) == LET cells == FlattenSeq(table) IN Kept(cells, LAMBDA i : cells[i].heading)

\* Where a cell of a row is put: under a heading, or under the number of its column.
Under(text) == [by |-> "heading", text |-> text, column |-> 0]

Column(i) == [by |-> "number", text |-> "none", column |-> i]

\* Mutant of Keys: as many headings as there are will do.
KeysOfAny(headings, row) ==
    [i \in DOMAIN row |-> IF i <= Len(headings) THEN Under(headings[i].text) ELSE Column(i)]

Keys(headings, row) ==
    [i \in DOMAIN row |-> IF Len(headings) = Len(row) THEN Under(headings[i].text)
                          ELSE Column(i)]

\* A row as a map: of the cells with one key, the last stays.
RowMap(headings, row) ==
    LET keys == Keys(headings, row)
        Latest(k) == CHOOSE i \in DOMAIN row :
                       keys[i] = k /\ \A j \in DOMAIN row : keys[j] = k => j <= i
    IN  [k \in ToSet(keys) |-> row[Latest(k)].text]

\* The rows of all tables, one after the other; a row without cells is left out.
ExtractTables(tables) ==
    FlattenSeq([t \in DOMAIN tables |->
        LET rows == Kept(tables[t], LAMBDA i : tables[t][i] # <<>>)
        IN  [r \in DOMAIN rows |-> RowMap(Headings(tables[t]), rows[r])]])
=============================================================================
