----------------------------- MODULE MCResults -----------------------------
(***************************************************************************)
(* A small directory, upstream answers of up to three items that repeat,   *)
(* outdo or hide one another, and lists that a client may hand in.         *)
(***************************************************************************)
EXTENDS Results

CONSTANTS u1, u2, u3, u4, f1, f2, link

-----------------------------------------------------------------------------
(* The directory.                                                          *)

MCKind == f1 :> "regular" @@ f2 :> "regular" @@ link :> f2

Doc(id, title, hits, phrase) == [id |-> id, title |-> title, hits |-> hits, phrase |-> phrase]

MCDocuments ==
    <<Doc(1, 2, <<{"tags"}, {"id", "snippet"}>>, "none"),
      Doc(2, 3, <<{"title"}, {}>>, "none"),
      Doc(3, 1, <<{"snippet"}, {"snippet"}>>, "snippet"),
      Doc(4, 1, <<{"title"}, {"title"}>>, "title"),
      Doc(5, 2, <<{"tags"}, {"id", "snippet"}>>, "none")>>

Text(mode, size, wellFormed, docs) ==
    [mode |-> mode, size |-> size, wellFormed |-> wellFormed, documents |-> docs]

MCContents ==
    {Text("private", 1, TRUE, MCDocuments),
     Text("shared", 1, TRUE, MCDocuments),
     Text("private", 2, TRUE, MCDocuments),
     Text("private", 1, TRUE, <<MCDocuments[1], MCDocuments[1]>>)}

-----------------------------------------------------------------------------
(* Addresses: u1 and u2 are one picture and one post, u3 is another and a  *)
(* page, u4 is neither.                                                    *)

MCPictureForm == u1 :> u1 @@ u2 :> u1 @@ u3 :> u3 @@ u4 :> NoURL @@ NoURL :> NoURL

MCPostForm == u1 :> u1 @@ u2 :> u1 @@ u3 :> u3 @@ u4 :> NoURL

MCCanonical == u1 :> u1 @@ u2 :> u1 @@ u3 :> u3

MCLibraryOf == u1 :> "go" @@ u2 :> "none" @@ u3 :> "searxng" @@ u4 :> "go"

Picture(img, thumb, page, inTitle, inContent) ==
    [img |-> img, thumb |-> thumb, page |-> page, title |-> inTitle, content |-> inContent]

MCPictures == BoundedSeq(
    {Picture(u1, NoURL, u3, 0, 1), Picture(u2, u3, u3, 1, 0), Picture(NoURL, u3, u4, 0, 1),
     Picture(u4, NoURL, u3, 1, 0), Picture(NoURL, NoURL, u4, 1, 1)}, 3)

MCPages == BoundedSeq({u1, u2, u3, u4}, 3)

NoteOf(url, date, phrase, common, long, title, categories) ==
    [url |-> url, date |-> date, phrase |-> phrase, common |-> common, long |-> long,
     title |-> title, categories |-> categories]

MCNotes == BoundedSeq(
    {NoteOf(u1, 1, u1, 2, TRUE, <<"test">>, {"code"}),
     NoteOf(u1, 2, NoURL, 0, FALSE, <<>>, {}),
     NoteOf(u2, 0, u1, 2, TRUE, <<"test", "test">>, {"code", "news"}),
     NoteOf(u3, 2, u2, 1, TRUE, <<"news", "test">>, {"news"}),
     NoteOf(u4, 1, u3, 2, FALSE, <<"news">>, {}),
     NoteOf(u4, 2, u4, 3, TRUE, <<"golang">>, {"code", "news"})}, 3)

MCNamed == SUBSET {"go", "searxng"}

-----------------------------------------------------------------------------
(* Plans, searches of all connectors, pages and tables.                    *)

MCScores == [Intents -> 0 .. 2]

MCParts == [Connectors -> {Failed} \cup
               {Found(urls, errors) : urls \in {<<>>, <<u1>>, <<u1, u2>>, <<u3, u2>>},
                                      errors \in BOOLEAN}]

\* A capture is no longer than the page it is from.
MCPageSet ==
    {p \in [areas : BoundedSeq(0 .. 2, 3), paragraphs : BoundedSeq(0 .. 2, 3), whole : 0 .. 3] :
        \A n \in ToSet(p.areas) \cup ToSet(p.paragraphs) : n <= p.whole}

MCCells == [text : {"a", "b"}, heading : BOOLEAN]

MCTables ==
    UNION {{<<t>>, <<t, <<<<[text |-> "a", heading |-> TRUE]>>>>>>} :
        t \in BoundedSeq(BoundedSeq(MCCells, 2), 2)}
=============================================================================
