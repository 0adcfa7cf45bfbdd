------------------------------ MODULE Planning ------------------------------
(***************************************************************************)
(* internal/search: the intent that the planner reads into a query, and    *)
(* the search of every connector at once.  Both walk Go maps, whose order  *)
(* is any order.                                                           *)
(*                                                                         *)
(* A query is the number of keywords of each intent that it contains; a    *)
(* connector's part in a search is an error or a response.                 *)
(***************************************************************************)
EXTENDS Selection, FiniteSets

CONSTANTS
    Intents,            \* the kinds of query that have keywords
    Connectors,         \* the registered connectors
    Canonical           \* ExtractCanonicalURL: [URLs -> URLs]

General == "general"

ASSUME PlanningAssumption ==
    /\ IsFiniteSet(Intents) /\ General \notin Intents
    /\ IsFiniteSet(Connectors)

Failed == [kind |-> "error"]

Found(urls, errors) == [kind |-> "response", urls |-> urls, errors |-> errors]

\* The best intent met so far, and how many of its keywords the query contains.
Stronger(best, intent, scores) ==
    IF scores[intent] > best.score THEN [intent |-> intent, score |-> scores[intent]] ELSE best

\* Mutant of ClassifyIntent: an intent is compared with nothing but zero.
ClassifyIntentLast(scores) ==
    {LET hits == {k \in DOMAIN order : scores[order[k]] > 0}
     IN  IF hits = {} THEN General ELSE order[CHOOSE k \in hits : \A j \in hits : j <= k] :
        order \in SetToSeqs(Intents)}

\* The loop over the intents in one order.
BestIntent(order, scores) ==
    LET best[k \in 0 .. Len(order)] ==
            IF k = 0 THEN [intent |-> General, score |-> 0]
            ELSE Stronger(best[k - 1], order[k], scores)
    IN  best[Len(order)].intent

\* What ClassifyIntent may return.
ClassifyIntent(scores) == {BestIntent(order, scores) : order \in SetToSeqs(Intents)}

\* The connectors of a plan: those that the request names, else those of the intent.
SelectSources(intent, sources) ==
    CASE sources # {} -> sources
      [] sources = {} /\ intent = "code" -> {"github", "stackoverflow"}
      [] sources = {} /\ intent = "technical" -> {"web", "stackoverflow"}
      [] sources = {} /\ intent = "academic" -> {"academic"}
      [] sources = {} /\ intent = "video" -> {"youtube"}
      [] sources = {} /\ intent = "package" -> {"nuget", "npm", "pypi"}
      [] OTHER -> {"web"}

\* makeSearchHandler: the plan decides about no connector.  Its intent becomes a warning,
\* and that it names any makes the tool's own the one source of the response.
Planned(tool, sources, scores, found) ==
    {[warning |-> intent,
      sourcesUsed |-> IF SelectSources(intent, sources) # {} THEN {tool} ELSE found] :
        intent \in ClassifyIntent(scores)}

-----------------------------------------------------------------------------
(* SearchAll.                                                              *)

\* What remains of all results, by the canonical form of their addresses.
Deduplicated(urls) == Firsts(urls, LAMBDA u : Canonical[u])

Merged(order, parts) ==
    LET answering == Kept(order, LAMBDA k : parts[order[k]].kind = "response")
    IN  [results |-> Deduplicated(FlattenSeq([k \in DOMAIN answering |-> parts[answering[k]].urls])),
         sources |-> ToSet(answering),
         errors |-> {c \in ToSet(order) : parts[c] = Failed \/ parts[c].errors}]

\* Mutant of SearchAllResponses: the first error ends the loop.
SearchAllUntilError(parts) ==
    {LET bad == {k \in DOMAIN order : parts[order[k]] = Failed}
         last == IF bad = {} THEN Len(order) ELSE CHOOSE k \in bad : \A j \in bad : k <= j
     IN  Merged(SubSeq(order, 1, last), parts) : order \in SetToSeqs(Connectors)}

\* What SearchAll may return; its error is always nil.
SearchAllResponses(parts) == {Merged(order, parts) : order \in SetToSeqs(Connectors)}
=============================================================================
