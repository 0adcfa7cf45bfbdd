----------------------------- MODULE LocalIndex -----------------------------
(***************************************************************************)
(* The local index: loadLocalIndexCorpus reads a JSON corpus once, at      *)
(* startup, while whoever owns its directory may still move and rewrite    *)
(* files; scoreLocalIndexDocument and Search rank its documents.           *)
(*                                                                         *)
(* A corpus is a sequence of documents, whose well-formedness beyond the   *)
(* uniqueness of ids is one flag.                                          *)
(***************************************************************************)
EXTENDS Naturals, Sequences, FiniteSets, SequencesExt

CONSTANTS
    Files,              \* file objects of the directory, by inode
    Kind,               \* [Files -> {"regular", "other"} \cup links to Files]
    Contents,           \* what a file may hold: [mode, size, wellFormed, documents]
    MaxBytes,           \* maxLocalIndexBytes
    MaxDocuments,       \* maxLocalIndexDocuments
    MaxChanges,         \* bound on what the directory's owner does
    NoFile

\* hits[t] is the set of the fields of a document in which the t-th distinct term of the
\* query at hand occurs, phrase the first of title and snippet in which all of it does.
Document == [id : Nat, title : Nat, hits : Seq(SUBSET {"title", "tags", "snippet", "id"}),
             phrase : {"title", "snippet", "none"}]

ASSUME LocalIndexAssumption ==
    /\ Kind \in [Files -> {"regular", "other"} \cup Files]
    /\ MaxBytes \in Nat /\ MaxDocuments \in Nat /\ MaxChanges \in Nat
    /\ NoFile \notin Files /\ Contents # {}
    /\ \A c \in Contents : c.documents \in Seq(Document)

VARIABLES
    path,               \* the file that the configured name leads to, if any
    content,            \* what each file holds
    changes,            \* changes made to the directory
    boot,               \* where loadLocalIndexCorpus is
    info,               \* the file that Lstat described
    handle,             \* the file that was opened
    documents,          \* LocalIndexConnector.documents
    vouched             \* history: files seen to be regular and writable by the owner only

loadVars == <<path, content, changes, boot, info, handle, documents, vouched>>

TypeOK ==
    /\ path \in Files \cup {NoFile}
    /\ content \in [Files -> Contents]
    /\ changes \in 0 .. MaxChanges
    /\ boot \in {"unconfigured", "lstat", "open", "stat", "read", "ready", "failed"}
    /\ info \in Files \cup {NoFile}
    /\ handle \in Files \cup {NoFile}
    /\ boot \in {"open", "stat", "read", "ready"} => info \in Files
    /\ boot \in {"stat", "read", "ready"} => handle \in Files
    /\ documents \in {c.documents : c \in Contents} \cup {<<>>}
    /\ vouched \subseteq Files

\* Without a configured path there is no corpus, and no directory to speak of.
LoadInit ==
    /\ \/ /\ boot = "lstat"
          /\ path \in Files \cup {NoFile}
          /\ content \in [Files -> Contents]
       \/ /\ boot = "unconfigured"
          /\ path = NoFile
          /\ content = [f \in Files |-> CHOOSE c \in Contents : TRUE]
    /\ changes = 0
    /\ info = NoFile
    /\ handle = NoFile
    /\ documents = <<>>
    /\ vouched = {}

-----------------------------------------------------------------------------
(* The directory's owner, as long as it matters.                           *)

Loading == boot \in {"lstat", "open", "stat", "read"}

Replace ==
    /\ Loading
    /\ changes < MaxChanges
    /\ changes' = changes + 1
    /\ path' \in (Files \cup {NoFile}) \ {path}
    /\ UNCHANGED <<content, boot, info, handle, documents, vouched>>

Rewrite ==
    /\ Loading
    /\ changes < MaxChanges
    /\ changes' = changes + 1
    /\ \E f \in Files, c \in Contents :
          content[f] # c /\ content' = [content EXCEPT ![f] = c]
    /\ UNCHANGED <<path, boot, info, handle, documents, vouched>>

-----------------------------------------------------------------------------
(* loadLocalIndexCorpus.  An error ends main.                              *)

LoadFails ==
    /\ boot' = "failed"
    /\ UNCHANGED <<path, content, changes, info, handle, documents, vouched>>

Acceptable(f) ==
    /\ f # NoFile
    /\ Kind[f] = "regular"
    /\ content[f].mode = "private"
    /\ content[f].size <= MaxBytes

Inspect ==
    /\ boot = "lstat"
    /\ \/ /\ Acceptable(path)
          /\ boot' = "open"
          /\ info' = path
          /\ vouched' = vouched \cup {path}
          /\ UNCHANGED <<path, content, changes, handle, documents>>
       \/ ~Acceptable(path) /\ LoadFails

\* Opening follows a link that stays in the directory.
Target(f) == IF f # NoFile /\ Kind[f] \in Files THEN Kind[f] ELSE f

Open ==
    /\ boot = "open"
    /\ \/ /\ path # NoFile
          /\ handle' = Target(path)
          /\ boot' = "stat"
          /\ UNCHANGED <<path, content, changes, info, documents, vouched>>
       \/ path = NoFile /\ LoadFails

\* Mutant of SameFile: what was opened is taken to be what was inspected.
SameFileAssumed == handle # NoFile

SameFile == handle = info

Stat ==
    /\ boot = "stat"
    /\ \/ /\ SameFile
          /\ boot' = "read"
          /\ UNCHANGED <<path, content, changes, info, handle, documents, vouched>>
       \/ ~SameFile /\ LoadFails

DistinctIds(docs) == \A i, j \in DOMAIN docs : docs[i].id = docs[j].id => i = j

\* The limited read, the decoder and validateLocalIndexDocument.
Valid(c) ==
    /\ c.size <= MaxBytes
    /\ c.wellFormed
    /\ Len(c.documents) <= MaxDocuments
    /\ DistinctIds(c.documents)

Read ==
    /\ boot = "read"
    /\ \/ /\ Valid(content[handle])
          /\ documents' = content[handle].documents
          /\ boot' = "ready"
          /\ UNCHANGED <<path, content, changes, info, handle, vouched>>
       \/ ~Valid(content[handle]) /\ LoadFails

LoadNext == Replace \/ Rewrite \/ Inspect \/ Open \/ Stat \/ Read

-----------------------------------------------------------------------------
(* Search.                                                                 *)

Points(fields) ==
    (IF "title" \in fields THEN 4 ELSE 0) + (IF "tags" \in fields THEN 3 ELSE 0)
        + (IF "snippet" \in fields THEN 1 ELSE 0) + (IF "id" \in fields THEN 2 ELSE 0)

Bonus(phrase) == CASE phrase = "title" -> 8 [] phrase = "snippet" -> 2 [] OTHER -> 0

Matches(doc) == doc.hits # <<>> /\ \A t \in DOMAIN doc.hits : doc.hits[t] # {}

Score(doc) == FoldLeft(LAMBDA sum, fields : sum + Points(fields), Bonus(doc.phrase), doc.hits)

Before(a, b) == Score(a) > Score(b) \/ (Score(a) = Score(b) /\ a.title < b.title)

\* sort.Slice leaves documents of one score and one title in any order.
Rankings(docs) ==
    {s \in SetToSeqs(docs) : \A i, j \in DOMAIN s : Before(s[i], s[j]) => i < j}

Truncated(s, limit) == SubSeq(s, 1, IF Len(s) < limit THEN Len(s) ELSE limit)

\* Mutant of LocalResults: the corpus is cut before it is ranked.
LocalResultsCutFirst(limit) ==
    Rankings({d \in ToSet(Truncated(documents, limit)) : Matches(d)})

LocalResults(limit) ==
    {Truncated(s, limit) : s \in Rankings({d \in ToSet(documents) : Matches(d)})}

-----------------------------------------------------------------------------
\* Whatever happens to the directory meanwhile, the corpus that is served comes from a
\* file that was itself seen to be a regular file that nobody else may write, and no
\* two of its documents share an id, on which their citations rest.
CorpusVouched ==
    boot = "ready" => handle \in vouched /\ DistinctIds(documents)
=============================================================================
