SPECIFICATION Spec
CONSTANTS
    u1 = u1
    u2 = u2
    u3 = u3
    u4 = u4
    f1 = f1
    f2 = f2
    link = link
    NoURL = NoURL
    Files = {f1, f2, link}
    Kind <- MCKind
    Contents <- MCContents
    MaxBytes = 1
    MaxDocuments = 5
    MaxChanges = 1
    Pictures <- MCPictures
    Pages <- MCPages
    Notes <- MCNotes
    Limits = {0, 2, 4}
    DefaultLimit = 1
    FetchLimit = 2
    MaxFindings = 2
    MaxLimit = 2
    MaxLocalResults = 3
    NoFile = NoFile
    PictureForm <- MCPictureForm
    IsPicture = {u1, u2, u3}
    PostForm <- MCPostForm
    LibraryOf <- MCLibraryOf
    Named <- MCNamed
    Prefixed = {u1, u2}
    IsVideo = {u1, u2}
    IsPaper = {u2, u4}
    MaxAgreed = 1
    Intents = {"code", "news", "video"}
    Connectors = {"web", "github", "youtube"}
    Canonical <- MCCanonical
    Scores <- MCScores
    Parts <- MCParts
    FetchedPages <- MCPageSet
    FetchedTables <- MCTables
    MinArea = 1
    MinParagraph = 1
INVARIANTS CorpusVouched DocsAreOfficial BestDocuments ListsAreSound SynthesisIsSound  ExtractionKeepsText
CHECK_DEADLOCK FALSE
