------------------------------ MODULE Results ------------------------------
(***************************************************************************)
(* What tools make of lists of items: the selection of images.go,          *)
(* reddit.go, pypi.go, youtube.go, academic.go, official_docs.go and       *)
(* local_index.go from what an upstream or the corpus holds, comparisons   *)
(* by synthesizer.go over a list that a client hands in, and what the      *)
(* planner and SearchAll (Planning) and the extractor (Extract) return.    *)
(*                                                                         *)
(* An address is a model value; what the code finds out by parsing it is   *)
(* given by functions and sets: its canonical form as a picture or as a    *)
(* post, the library whose official hosts serve it, whether it is a video. *)
(***************************************************************************)
EXTENDS LocalIndex, Planning, Extract

CONSTANTS
    Pictures,           \* lists of items of an images answer
    Pages,              \* lists of addresses of a web answer
    Notes,              \* lists of items that a client hands in
    Limits,             \* maxResults of requests; 0 when the request has none
    DefaultLimit,       \* what getMaxResults makes of 0
    MaxLimit,           \* the most that getMaxResults returns
    MaxLocalResults,    \* maxLocalIndexResults
    FetchLimit,         \* officialDocsFetchLimit
    MaxFindings,        \* the most key findings
    NoURL,
    PictureForm,        \* canonicalImageURL: [URLs -> URLs \cup {NoURL}]
    IsPicture,          \* the addresses that isImageURL accepts
    PostForm,           \* canonicalRedditPostURL
    Prefixed,           \* the packages whose names begin with the query
    LibraryOf,          \* the library whose hosts serve an address, or "none"
    Named,              \* sets of libraries that a request may name
    IsVideo,            \* the addresses that isVideoURL accepts
    IsPaper,            \* the addresses that isAcademicURL accepts
    MaxAgreed,          \* the most words that a consensus names
    Scores,             \* the keywords of each intent that a query may contain
    Parts,              \* what the connectors may contribute to a search of all
    FetchedPages,       \* pages that a fetch may return
    FetchedTables       \* and the tables of one

ASSUME ResultsAssumption ==
    /\ DefaultLimit \in Nat /\ MaxLimit \in Nat /\ FetchLimit \in Nat /\ MaxLocalResults \in Nat
    /\ 0 < DefaultLimit /\ DefaultLimit <= MaxLimit /\ FetchLimit <= MaxLimit
    /\ DefaultLimit <= MaxLocalResults
    /\ Limits \subseteq Nat
    /\ MaxFindings \in Nat /\ 0 < MaxFindings
    /\ MaxAgreed \in Nat /\ 0 < MaxAgreed

\* The addresses that an item may have, and NoURL.
Address == DOMAIN PictureForm

Item == [img : Address, thumb : Address, page : Address, title : Nat, content : Nat]

Note == [url : Address, date : Nat, phrase : Address, common : Nat, long : BOOLEAN,
         title : Seq(STRING), categories : SUBSET STRING]

Page == [areas : Seq(Nat), paragraphs : Seq(Nat), whole : Nat]

Cell == [text : STRING, heading : BOOLEAN]

ASSUME InputsAssumption ==
    /\ NoURL \in Address /\ NoURL \notin Prefixed
    /\ Pictures \subseteq Seq(Item)
    /\ Pages \subseteq Seq(Address)
    /\ Notes \subseteq Seq(Note)
    /\ \A named \in Named : IsFiniteSet(named)
    /\ FetchedPages \subseteq Page
    /\ FetchedTables \subseteq Seq(Seq(Seq(Cell)))
    /\ Scores \subseteq [Intents -> Nat]
    /\ Parts \subseteq [Connectors -> {Failed} \cup
                            [kind : {"response"}, urls : Seq(Address), errors : BOOLEAN]]

VARIABLE answer         \* the last call, its arguments and its results

vars == <<path, content, changes, boot, info, handle, documents, vouched, answer>>

Init == LoadInit /\ answer = [op |-> "none"]

-----------------------------------------------------------------------------
(* Limits.                                                                 *)

AtMost(max, most) == IF max = 0 THEN DefaultLimit ELSE IF max < most THEN max ELSE most

Limit(max) == AtMost(max, MaxLimit)

-----------------------------------------------------------------------------
(* images.go                                                               *)

\* imageURLFor, canonicalised: the first of image and thumbnail that is an address,
\* else the page if it is a picture.
PictureOf(item) ==
    IF PictureForm[item.img] # NoURL THEN PictureForm[item.img]
    ELSE IF PictureForm[item.thumb] # NoURL THEN PictureForm[item.thumb]
    ELSE IF item.page \in IsPicture THEN PictureForm[item.page]
    ELSE NoURL

\* Matched terms of the query, in the title and in the shortened content.
Relevance(item) == 10 * item.title + item.content

Candidates(raw) == Kept(raw, LAMBDA i : PictureOf(raw[i]) # NoURL)

\* A stable sort, from the most relevant down.
MostRelevantFirst(s) ==
    LET Ahead(i, j) == \/ Relevance(s[i]) > Relevance(s[j])
                       \/ Relevance(s[i]) = Relevance(s[j]) /\ i < j
        order == Ranked(DOMAIN s, {p \in (DOMAIN s) \X (DOMAIN s) : Ahead(p[1], p[2])})
    IN  [k \in DOMAIN order |-> s[order[k]]]

\* Mutant of ImageResults: duplicates go before the sort.
ImageResultsEarlyDedupe(raw, max) ==
    Truncated(MostRelevantFirst(Firsts(Candidates(raw), PictureOf)), Limit(max))

ImageResults(raw, max) ==
    Truncated(Firsts(MostRelevantFirst(Candidates(raw)), PictureOf), Limit(max))

SearchImages(raw, max) ==
    answer' = [op |-> "images", raw |-> raw, max |-> max, results |-> ImageResults(raw, max)]

-----------------------------------------------------------------------------
(* reddit.go: one pass that stops at the limit.                            *)

Post(u) == PostForm[u]

\* Mutant of RedditResults: the raw answer is cut before posts are looked for.
RedditResultsCutFirst(raw, max) ==
    LET cut == Truncated(raw, Limit(max))
        posts == Kept(cut, LAMBDA i : Post(cut[i]) # NoURL)
    IN  Firsts([k \in DOMAIN posts |-> Post(posts[k])], LAMBDA u : u)

RedditResults(raw, max) ==
    LET posts == Kept(raw, LAMBDA i : Post(raw[i]) # NoURL)
    IN  Truncated(Firsts([k \in DOMAIN posts |-> Post(posts[k])], LAMBDA u : u), Limit(max))

SearchReddit(raw, max) ==
    answer' = [op |-> "reddit", raw |-> raw, max |-> max, results |-> RedditResults(raw, max)]

-----------------------------------------------------------------------------
(* pypi.go: the package of exactly that name alone, else those whose names *)
(* the query begins, from an index that may repeat them.                   *)

Packages(index, max) ==
    Truncated(Firsts(Kept(index, LAMBDA i : index[i] \in Prefixed), LAMBDA u : u), Limit(max))

SearchPackages(exact, index, max) ==
    answer' = [op |-> "packages", exact |-> exact, raw |-> index, max |-> max,
               results |-> IF exact # NoURL THEN <<exact>> ELSE Packages(index, max)]

-----------------------------------------------------------------------------
(* youtube.go and academic.go: one pass over as many items as are wanted,  *)
(* of which some are.  Videos are scored by their place among the results, *)
(* papers by their place in the answer, which also is in their citations.  *)

\* Mutant of LookedAt: one item more is looked at.
LookedAtOneMore(raw, max, wanted) ==
    InOrder({i \in DOMAIN raw : i <= Limit(max) + 1 /\ raw[i] \in wanted})

\* The places of the items taken.
LookedAt(raw, max, wanted) ==
    InOrder({i \in DOMAIN raw : i <= Limit(max) /\ raw[i] \in wanted})

SearchVideos(raw, max) ==
    LET at == LookedAt(raw, max, IsVideo)
    IN  answer' = [op |-> "videos", raw |-> raw, max |-> max, results |->
            [k \in DOMAIN at |-> [url |-> raw[at[k]], score |-> Limit(max) - (k - 1)]]]

SearchPapers(raw, max) ==
    LET at == LookedAt(raw, max, IsPaper)
    IN  answer' = [op |-> "papers", raw |-> raw, max |-> max, results |->
            [k \in DOMAIN at |-> [url |-> raw[at[k]], score |-> Limit(max) - (at[k] - 1),
                                  citation |-> at[k] - 1]]]

-----------------------------------------------------------------------------
(* official_docs.go, with the web connector behind it and                  *)
(* makeDocOficialHandler before it.                                        *)

\* Mutant of ScopedLimit: the backend is asked for no more than the client wants.
ScopedLimitOfClient(max) == Limit(max)

ScopedLimit(max) == IF max < FetchLimit THEN FetchLimit ELSE max

Approved(s, library, max) ==
    Truncated(Kept(s, LAMBDA i : LibraryOf[s[i]] = library), Limit(max))

\* scoped is what the backend finds when asked for a library's hosts.  A fallback is
\* answered by the web connector (Search), and no more is said of its results here.
SearchDocs(named, scoped, max) ==
    LET found == Truncated(scoped, Limit(ScopedLimit(max)))
        official == IF Cardinality(named) # 1 THEN <<>>
                    ELSE Approved(found, CHOOSE library \in named : TRUE, max)
    IN  answer' = [op |-> "docs", named |-> named, scoped |-> scoped, max |-> max,
                   strategy |-> IF official # <<>> THEN "registry" ELSE "fallback",
                   source |-> IF official # <<>> THEN "official_docs" ELSE "web",
                   results |-> official]

-----------------------------------------------------------------------------
(* makeLocalIndexHandler: without a corpus no other source is asked.       *)

LocalLimit(max) == AtMost(max, MaxLocalResults)

SearchLocalIndex(max) ==
    \E results \in IF boot = "ready" THEN LocalResults(LocalLimit(max)) ELSE {<<>>} :
        answer' = [op |-> "local", max |-> max, results |-> results]

-----------------------------------------------------------------------------
(* synthesizer.go.  A date of 0 is no date, a phrase of NoURL no snippet.  *)

\* Mutant of Newest: an item is compared with the listed sources only.
NewestListed(list, item) ==
    LET listed == Firsts(list, LAMBDA x : x.url)
    IN  item.date # 0 /\ \A i \in DOMAIN listed : listed[i].date <= item.date

Newest(list, item) ==
    item.date # 0 /\ \A i \in DOMAIN list : list[i].date <= item.date

\* How often a word of more than three letters occurs in the titles.
Occurrences(list, word) ==
    Cardinality(UNION {{<<i, k>> : k \in {k \in DOMAIN list[i].title : list[i].title[k] = word}} :
                       i \in DOMAIN list})

\* Mutant of CommonWords: half of the titles is not enough.
CommonWordsOfMost(list) ==
    {word \in UNION {ToSet(list[i].title) : i \in DOMAIN list} :
        Occurrences(list, word) > Len(list) \div 2}

CommonWords(list) ==
    {word \in UNION {ToSet(list[i].title) : i \in DOMAIN list} :
        Occurrences(list, word) >= Len(list) \div 2}

\* Some of the common words, taken from a map.
Consensus(list) ==
    LET common == CommonWords(list)
        named == IF Cardinality(common) < MaxAgreed THEN Cardinality(common) ELSE MaxAgreed
    IN  CASE Len(list) < 2 -> {[verdict |-> "insufficient", words |-> {}]}
          [] Len(list) >= 2 /\ common = {} -> {[verdict |-> "none", words |-> {}]}
          [] OTHER -> {[verdict |-> "agree", words |-> s] : s \in kSubset(named, common)}

CompareSources(list) ==
  \E consensus \in Consensus(list) :
    answer' = [op |-> "compare", list |-> list, consensus |-> consensus,
               sources |-> LET firsts == Firsts(list, LAMBDA item : item.url)
                           IN  [k \in DOMAIN firsts |->
                                   [url |-> firsts[k].url, date |-> firsts[k].date,
                                    recent |-> Newest(list, firsts[k])]]]

\* Mutant of Relevant: one word in common is enough.
RelevantByOneWord(item) == item.phrase # NoURL /\ item.common >= 1 /\ item.long

Relevant(item) == item.phrase # NoURL /\ item.common >= 2 /\ item.long

\* extractKeyFindings: relevant snippets, else the snippet of the first result.
KeyFindings(list) ==
    LET relevant == Kept(list, LAMBDA i : Relevant(list[i]))
        found == Truncated(Firsts([k \in DOMAIN relevant |-> relevant[k].phrase],
                                  LAMBDA p : p), MaxFindings)
    IN  CASE found # <<>> -> found
          [] found = <<>> /\ list # <<>> /\ list[1].phrase # NoURL -> <<list[1].phrase>>
          [] OTHER -> <<>>

Summarize(list) == answer' = [op |-> "summarize", list |-> list, findings |-> KeyFindings(list)]

\* groupByTheme and categorizeByTitle range over maps: an item may go to any category of
\* which it has a keyword, and categories of one size may come in any order.
Assignments(list) ==
    LET Suits(i) == IF list[i].categories = {} THEN {"General"} ELSE list[i].categories
    IN  {a \in [DOMAIN list -> UNION {Suits(i) : i \in DOMAIN list}] :
            \A i \in DOMAIN list : a[i] \in Suits(i)}

Group(list, a, theme) == Kept(list, LAMBDA i : a[i] = theme)

\* Mutant of Themes: an item goes to every category of which it has a keyword.
ThemesOverlapping(list) ==
    LET names == UNION {list[i].categories : i \in DOMAIN list}
    IN  {[k \in DOMAIN s |-> [theme |-> s[k],
                              results |-> Kept(list, LAMBDA i : s[k] \in list[i].categories)]] :
            s \in SetToSeqs(names)}

Themes(list) ==
    UNION {LET Size(theme) == Len(Group(list, a, theme))
           IN  {[k \in DOMAIN s |-> [theme |-> s[k], results |-> Group(list, a, s[k])]] :
                   s \in {t \in SetToSeqs({a[i] : i \in DOMAIN list}) :
                             \A j, k \in DOMAIN t : j < k => Size(t[j]) >= Size(t[k])}} :
           a \in Assignments(list)}

DeepResearch(list) ==
    \E themes \in Themes(list) :
        answer' = [op |-> "deep_research", list |-> list, themes |-> themes,
                   findings |-> KeyFindings(list)]

-----------------------------------------------------------------------------
(* Planning and Extract.                                                   *)

\* Any search_* tool, whatever sources its request names.
PlanSearch(tool, sources, scores) ==
    \E planned \in Planned(tool, sources, scores, {tool}) :
        answer' = [op |-> "plan", tool |-> tool, scores |-> scores,
                   warning |-> planned.warning, sourcesUsed |-> planned.sourcesUsed]

\* SearchAll, which no tool calls.
SearchAll(parts) ==
    \E all \in SearchAllResponses(parts) :
        answer' = [op |-> "all", parts |-> parts, all |-> all]

FetchAndExtract(page) ==
    answer' = [op |-> "extract", page |-> page, content |-> ExtractMainContent(page)]

ExtractStructured(tables) ==
    answer' = [op |-> "tables", tables |-> tables, rows |-> ExtractTables(tables)]

-----------------------------------------------------------------------------
Load == LoadNext /\ UNCHANGED answer

Images == \E raw \in Pictures, max \in Limits : SearchImages(raw, max)

Reddit == \E raw \in Pages, max \in Limits : SearchReddit(raw, max)

Listings == \E raw \in Pages, max \in Limits : SearchVideos(raw, max) \/ SearchPapers(raw, max)

PyPI == \E exact \in {NoURL} \cup Prefixed, index \in Pages, max \in Limits :
            SearchPackages(exact, index, max)

Docs == \E named \in Named, scoped \in Pages, max \in Limits :
            SearchDocs(named, scoped, max)

Local == \E max \in Limits : SearchLocalIndex(max)

Synthesis == \E list \in Notes :
                CompareSources(list) \/ Summarize(list) \/ DeepResearch(list)

Plan == \E tool \in Connectors, sources \in SUBSET Connectors, scores \in Scores :
            PlanSearch(tool, sources, scores)

All == \E parts \in Parts : SearchAll(parts)

Fetched ==
    \/ \E page \in FetchedPages : FetchAndExtract(page)
    \/ \E tables \in FetchedTables : ExtractStructured(tables)

\* The tools are served once main has what it needs, and keep nothing between calls: one
\* call is all there is to see.
Serve ==
    /\ boot \in {"ready", "unconfigured"}
    /\ answer.op = "none"
    /\ Images \/ Reddit \/ PyPI \/ Listings \/ Docs \/ Local \/ Synthesis \/ Plan \/ All \/ Fetched
    /\ UNCHANGED loadVars

Next == Load \/ Serve

Spec == Init /\ [][Next]_vars

-----------------------------------------------------------------------------
\* The results are the best items of a list to show each picture, the best ones first,
\* up to a limit.
BestOfEach(raw, limit, results) ==
    LET usable == {i \in DOMAIN raw : PictureOf(raw[i]) # NoURL}
        Better(i, j) == \/ Relevance(raw[i]) > Relevance(raw[j])
                        \/ Relevance(raw[i]) = Relevance(raw[j]) /\ i < j
        best == {i \in usable : \A j \in usable :
                    PictureOf(raw[j]) = PictureOf(raw[i]) => i = j \/ Better(i, j)}
        place(i) == 1 + Cardinality({j \in best : Better(j, i)})
    IN  /\ Len(results) = IF Cardinality(best) < limit THEN Cardinality(best) ELSE limit
        /\ \A i \in best : place(i) <= limit => results[place(i)] = raw[i]

\* Each picture that the upstream named comes once, through the most relevant item that
\* shows it and the earliest of those; the most relevant pictures come first, and none
\* was left out for one less relevant.
BestPictureOnce ==
    answer.op = "images" => BestOfEach(answer.raw, Limit(answer.max), answer.results)

\* The results are the first forms of a list, each where as many forms come first no
\* later as its place says, up to a limit.
FirstForms(form, limit, results) ==
    LET matches == {form[i] : i \in DOMAIN form} \ {NoURL}
        First(p) == CHOOSE i \in DOMAIN form :
                        form[i] = p /\ \A j \in 1 .. i - 1 : form[j] # p
        place(p) == Cardinality({q \in matches : First(q) <= First(p)})
    IN  /\ ToSet(results) \subseteq matches
        /\ \A p \in matches : place(p) <= limit =>
              place(p) \in DOMAIN results /\ results[place(p)] = p

\* A search for posts finds the first posts, and one for packages the first packages of
\* that name when none has exactly it, each once, however much else the upstream put
\* between them.
FirstMatches ==
    answer.op = "reddit" \/ (answer.op = "packages" /\ answer.exact = NoURL) =>
        LET Form(u) == IF answer.op = "reddit" THEN PostForm[u]
                       ELSE IF u \in Prefixed THEN u ELSE NoURL
        IN  FirstForms([i \in DOMAIN answer.raw |-> Form(answer.raw[i])],
                       Limit(answer.max), answer.results)

\* An answer that claims the registry holds official pages of the one library meant and
\* nothing else, is recorded under that source, and is given whenever the backend had
\* such a page within what it is always asked for.
DocsAreOfficial ==
    answer.op = "docs" =>
        LET Official(s, i) == i \in DOMAIN s /\ LibraryOf[s[i]] \in answer.named
        IN  /\ (/\ Cardinality(answer.named) = 1
                /\ \E i \in 1 .. FetchLimit : Official(answer.scoped, i)) =>
                  answer.strategy = "registry"
            /\ answer.strategy = "registry" =>
                  /\ Cardinality(answer.named) = 1
                  /\ answer.source = "official_docs"
                  /\ Official(answer.results, 1)
                  /\ \A i \in DOMAIN answer.results : Official(answer.results, i)

\* The results are the best of the documents that match, up to a limit.
BestMatches(docs, limit, results) ==
    LET matching == {d \in ToSet(docs) : Matches(d)}
    IN  /\ ToSet(results) \subseteq matching
        /\ \A d \in matching \ ToSet(results) :
              /\ Len(results) = limit
              /\ \A i \in DOMAIN results : ~Before(d, results[i])
        /\ \A i, j \in DOMAIN results : i < j =>
              ~Before(results[j], results[i]) /\ results[i].id # results[j].id

\* Of the documents of the corpus in which every term of the query occurs, the best ones
\* are returned, in order, and their citations tell them apart.
BestDocuments ==
    answer.op = "local" => BestMatches(documents, LocalLimit(answer.max), answer.results)

\* The sources have the addresses of a list, each once, and none that is called recent
\* is older than another of the list.
SourcesOf(list, sources) ==
    /\ {sources[k].url : k \in DOMAIN sources} = {list[i].url : i \in DOMAIN list}
    /\ \A j, k \in DOMAIN sources : sources[j].url = sources[k].url => j = k
    /\ \A k \in DOMAIN sources : sources[k].recent =>
          \A i \in DOMAIN list : list[i].date <= sources[k].date

\* Of the sources listed by compare_sources each address comes once; one is the most
\* recent only if no item handed in, listed or not, is later.
MostRecentIsNewest ==
    answer.op = "compare" => SourcesOf(answer.list, answer.sources)

\* Key findings are about the query if any result is: the snippet of an unrelated result
\* appears only when it is the first one and nothing relevant was found.
FindingsRelevant ==
    answer.op \in {"summarize", "deep_research"} =>
        LET list == answer.list
            related == {list[i].phrase : i \in
                           {j \in DOMAIN list : list[j].common >= 2 /\ list[j].long}} \ {NoURL}
        IN  /\ Len(answer.findings) <= MaxFindings
            /\ related # {} => ToSet(answer.findings) \subseteq related
            /\ Len(answer.findings) = Cardinality(ToSet(answer.findings))

\* Where an element is in a list, and where in the themes.
Handed(list, x) == {i \in DOMAIN list : list[i] = x}

Shown(themes, x) ==
    UNION {{<<k, r>> : r \in Handed(themes[k].results, x)} : k \in DOMAIN themes}

\* The themes divide a list between them, the larger ones first.
Divides(themes, list) ==
    /\ \A x \in ToSet(list) \cup UNION {ToSet(themes[k].results) : k \in DOMAIN themes} :
          Cardinality(Shown(themes, x)) = Cardinality(Handed(list, x))
    /\ \A j, k \in DOMAIN themes : j < k =>
          /\ themes[j].theme # themes[k].theme
          /\ Len(themes[j].results) >= Len(themes[k].results)

\* Whichever way the maps are walked, every result handed to deep_research is counted in
\* one theme, as often as it was handed in, and the largest themes lead.
ThemesPartition ==
    answer.op = "deep_research" => Divides(answer.themes, answer.list)

\* A search of videos or papers returns no more than was asked for and nothing else than
\* was meant, misses none among the items it looks at, ranks them by scores that fall and
\* stay above zero, and gives no two papers one citation.
ListingsInOrder ==
    answer.op \in {"videos", "papers"} =>
        LET results == answer.results
            wanted == IF answer.op = "videos" THEN IsVideo ELSE IsPaper
        IN  /\ Len(results) <= Limit(answer.max)
            /\ \A i \in DOMAIN answer.raw :
                  i <= Limit(answer.max) /\ answer.raw[i] \in wanted =>
                      \E k \in DOMAIN results : results[k].url = answer.raw[i]
            /\ \A k \in DOMAIN results : results[k].url \in wanted /\ results[k].score > 0
            /\ \A j, k \in DOMAIN results : j < k =>
                  /\ results[j].score > results[k].score
                  /\ answer.op = "papers" => results[j].citation # results[k].citation

\* compare_sources does not call the sources divergent when half of the titles share a
\* word, and the words of a consensus are in some title.
ConsensusNotMissed ==
    answer.op = "compare" /\ Len(answer.list) >= 2 =>
        LET list == answer.list
            Naming(word) == {i \in DOMAIN list : word \in ToSet(list[i].title)}
            words == UNION {ToSet(list[i].title) : i \in DOMAIN list}
            said == answer.consensus
        IN  /\ said.verdict = "none" =>
                  \A word \in words : 2 * Cardinality(Naming(word)) < Len(list)
            /\ said.verdict = "agree" => said.words # {} /\ said.words \subseteq words

\* However the map of intents is walked, the intent named in a response is one of which
\* the query has most keywords, or general if it has none, and the tool called stays the
\* source of the response.
IntentIsStrongest ==
    answer.op = "plan" =>
        /\ answer.sourcesUsed = {answer.tool}
        /\ \A other \in Intents :
              IF answer.warning = General THEN answer.scores[other] = 0
              ELSE answer.scores[other] <= answer.scores[answer.warning]

\* However the map of connectors is walked and whichever of them fail, a search of all
\* keeps what each of the others found, once, and reports every failure.
FailuresAreLocal ==
    answer.op = "all" =>
        LET parts == answer.parts
            answering == {c \in Connectors : parts[c] # Failed}
            urls == UNION {ToSet(parts[c].urls) : c \in answering}
            results == answer.all.results
        IN  /\ ToSet(results) \subseteq urls
            /\ \A u \in urls : Cardinality(
                  {k \in DOMAIN results : Canonical[results[k]] = Canonical[u]}) = 1
            /\ answer.all.sources = answering
            /\ Connectors \ answering \subseteq answer.all.errors

\* In its default mode fetch_and_extract returns text for every page that has any.
TextIsExtracted ==
    answer.op = "extract" /\ answer.page.whole > 0 =>
        \E k \in DOMAIN answer.content : answer.content[k] > 0

\* The rows of all tables that have cells, with their tables.
RowsWithCells(tables) ==
    LET Full(table) == Kept(table, LAMBDA i : table[i] # <<>>)
    IN  FlattenSeq([t \in DOMAIN tables |->
            [r \in DOMAIN Full(tables[t]) |->
                [row |-> Full(tables[t])[r], table |-> tables[t]]]])

\* A map has the cells of a row, each in its place: under the heading of the same
\* number when the table has as many headings as the row has cells, and under the number
\* of its column when it has not.  Of cells with equal headings it has the last.
KeepsRow(map, row, table) ==
    LET heads == Headings(table)
        Place(i) == IF Len(heads) = Len(row) THEN Under(heads[i].text) ELSE Column(i)
    IN  /\ DOMAIN map = {Place(i) : i \in DOMAIN row}
        /\ \A i \in DOMAIN row :
              (\A j \in DOMAIN row : j > i => Place(j) # Place(i))
                  => map[Place(i)] = row[i].text

\* extract_structured keeps every row that has cells, in order over all the tables, and
\* of it every cell in its place, but for one that a later cell of the row with an equal
\* heading replaces.  The headings of a table are all its th cells, wherever they stand:
\* that the i-th of them is over column i is the page's affair.
CellsKeepTheirPlace ==
    answer.op = "tables" =>
        LET of == RowsWithCells(answer.tables)
        IN  /\ Len(answer.rows) = Len(of)
            /\ \A r \in DOMAIN of : KeepsRow(answer.rows[r], of[r].row, of[r].table)

-----------------------------------------------------------------------------
(* The selections together, by what could go wrong in them.                *)

\* A search that picks from upstream items returns what is best or first among those
\* that it means, each once, in order and within its limit.
ListsAreSound == BestPictureOnce /\ FirstMatches /\ ListingsInOrder

\* The most recent result of a synthesis is the newest of the whole list; its findings
\* are about the query if any result is; and it misses no consensus, though a consensus
\* may name a word of one title in three.
SynthesisIsSound == MostRecentIsNewest /\ FindingsRelevant /\ ConsensusNotMissed

\* The order in which Go walks the maps of themes, intents and connectors changes
\* answers only among equally good ones: nothing is lost, repeated or misplaced by it.
MapOrderIsHarmless == ThemesPartition /\ IntentIsStrongest /\ FailuresAreLocal

\* The extractor returns some text of a page that has any (not all of it: what is
\* outside of the area it picks is left out), and every cell of every table that no
\* other cell replaces.
ExtractionKeepsText == TextIsExtracted /\ CellsKeepTheirPlace
=============================================================================
