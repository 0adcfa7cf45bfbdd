-------------------------------- MODULE Http --------------------------------
(***************************************************************************)
(* What a request meets on its way through the HTTP server whose life is   *)
(* Server's: the routes and the middleware of Handler, HandleHTTP with its *)
(* check of the protocol version, and handleHTTPPost; and how it gets its  *)
(* answer, or does not.  Every step here is a step of Server, or adds to   *)
(* the request of one connection.                                          *)
(***************************************************************************)
EXTENDS Server, Rpc

CONSTANTS
    Keys,           \* credentials
    NoKey,          \* no credential, or an empty one
    HttpRequests,   \* what each client may send
    MaxTurns        \* bound: requests of each client

VARIABLES
    key,            \* the key the server is configured with
    turn,           \* history: requests each client has made
    cur,            \* the request on each connection
    late,           \* connections past httpWriteTimeout, where writes fail
    recorded,       \* RecordHTTPRequest, as records [call, status, again]
    agreed,         \* history: the version each client was last given by initialize
    lost            \* history: calls that ended with nobody to write an answer to

httpVars == <<key, turn, cur, late, recorded, agreed, lost>>

HttpRequest ==
    [path : {"healthz", "metrics", "mcp", "elsewhere"}, verb : {"GET", "POST", "OPTIONS", "PUT"},
     apiKey : Keys \cup {NoKey}, bearer : Keys \cup {NoKey},
     versions : SUBSET Versions, body : Payload]

ASSUME HttpAssumption ==
    /\ NoKey \notin Keys
    /\ \A c \in Clients : HttpRequests[c] # {} /\ HttpRequests[c] \subseteq HttpRequest
    /\ \A c \in Clients : \A r \in HttpRequests[c] :
          r.body.form = "single" => Len(r.body.requests) = 1

NoVersion == "none"

\* extractKey: the header of its own outranks the bearer token.
ExtractKey(r) == IF r.apiKey # NoKey THEN r.apiKey ELSE r.bearer

\* Mutant of Admits: without a configured key there is nothing to compare.
AdmitsUnconfigured(r) == ExtractKey(r) = key

\* Middleware: an empty credential matches nothing, not even an empty key.
Admits(r) == ExtractKey(r) # NoKey /\ ExtractKey(r) = key

\* HandleHTTP looks at every value of the header, on GET and POST only.
VersionOK(r) == r.verb \in {"GET", "POST"} => r.versions \subseteq Supported

\* Decode reads one value, and an array is none.
Decodes(r) == r.body.form = "single"

Message(r) == Head(r.body.requests)

-----------------------------------------------------------------------------
(* What the environment asked, for the ledger: whether the key was shown,  *)
(* the version spoken and the body a message that names a tool.            *)

Entitled(r) ==
    /\ r.path = "mcp" /\ r.verb = "POST"
    /\ \/ r.apiKey = key /\ key # NoKey
       \/ r.apiKey = NoKey /\ r.bearer = key /\ key # NoKey
    /\ r.versions \cap (Versions \ Supported) = {}
    /\ r.body.form = "single"

HttpCall(c, n, r) ==
    [from |-> c, turn |-> n, pos |-> 1,
     req |-> IF r.body.form = "single" THEN Message(r)
             ELSE [id |-> 0, method |-> "other", arg |-> "none"],
     tool |-> Entitled(r) /\ InvokesTool(Message(r)),
     wants |-> r.path = "mcp" /\ r.verb = "POST" /\ (Entitled(r) => Message(r).id # 0)]

Call(c) == HttpCall(c, turn[c], cur[c])

Lost(c) == c \in gone \cup late

\* The one answer to what c asked is given, unless it cannot be written or is not due.
Tell(c, code) ==
    IF Lost(c) \/ ~Call(c).wants THEN UNCHANGED <<told, given>>
    ELSE told' = told \cup {[call |-> Call(c), code |-> code]} /\ given' = given + 1

-----------------------------------------------------------------------------
HttpInit ==
    /\ Init
    /\ key \in Keys \cup {NoKey}
    /\ turn = [c \in Clients |-> 0]
    /\ cur = [c \in Clients |-> CHOOSE r \in HttpRequests[c] : TRUE]
    /\ late = {}
    /\ recorded = {}
    /\ agreed = [c \in Clients |-> NoVersion]
    /\ lost = {}

Arrive(c, r) ==
    /\ Connect(c) \/ NextRequest(c)
    /\ turn[c] < MaxTurns[c]
    /\ turn' = [turn EXCEPT ![c] = @ + 1]
    /\ cur' = [cur EXCEPT ![c] = r]
    /\ asked' = asked \cup {HttpCall(c, turn[c] + 1, r)}
    /\ UNCHANGED <<key, late, recorded, agreed, lost, ran, told, runs, given>>

\* The handler of c is over: the request is counted with the status it was given,
\* written or not.
Finish(c, status) ==
    /\ recorded' = recorded \cup
                      {[call |-> Call(c), status |-> status,
                        again |-> \E x \in recorded : x.call = Call(c)]}
    /\ late' = late \ {c}
    /\ lost' = IF Lost(c) THEN lost \cup {Call(c)} ELSE lost
    /\ UNCHANGED <<key, turn, cur>>

\* A refusal, answered with a code or, before JSON-RPC is reached, without one.
Refuse(c, status, code) ==
    /\ AnswerAtOnce(c)
    /\ Finish(c, status)
    /\ Tell(c, code)
    /\ UNCHANGED <<agreed, asked, ran, runs>>

Silent(c, status) ==
    /\ AnswerAtOnce(c)
    /\ Finish(c, status)
    /\ UNCHANGED <<agreed, ledger>>

\* Routes of Handler that nothing guards: the probe, and paths that do not exist.
Unguarded(c) ==
    \/ cur[c].path = "healthz" /\ Silent(c, 200)
    \/ cur[c].path = "elsewhere" /\ Silent(c, 404)

Guarded(c) == cur[c].path \in {"mcp", "metrics"}

Unauthorized(c) ==
    /\ Guarded(c)
    /\ ~Admits(cur[c])
    /\ Refuse(c, 401, Unauthenticated)

Scrape(c) ==
    /\ cur[c].path = "metrics"
    /\ Admits(cur[c])
    /\ Silent(c, 200)

\* The request has reached HandleHTTP.
Reached(c) == cur[c].path = "mcp" /\ Admits(cur[c])

RefuseVersion(c) ==
    /\ Reached(c)
    /\ ~VersionOK(cur[c])
    /\ Refuse(c, 400, InvalidRequest)

\* Past the check of the version, with this method.
Serves(c, verb) == Reached(c) /\ VersionOK(cur[c]) /\ cur[c].verb = verb

OtherVerb(c) ==
    \/ Serves(c, "OPTIONS") /\ Silent(c, 204)
    \/ Serves(c, "PUT") /\ Silent(c, 405)

RefuseBody(c) ==
    /\ Serves(c, "POST")
    /\ ~Decodes(cur[c])
    /\ Refuse(c, IF cur[c].body.form = "long" THEN 413 ELSE 400, ParseError)

-----------------------------------------------------------------------------
(* A message that decodes.                                                 *)

Dispatches(c) == Serves(c, "POST") /\ Decodes(cur[c])

\* The answer of handleRPCRequest: 200 with it, or 202 for a notification.
Respond(c, code) ==
    LET r == Message(cur[c])
    IN  /\ Finish(c, IF r.id = 0 THEN 202 ELSE 200)
        /\ Tell(c, code)
        /\ agreed' = IF r.method # "initialize" \/ r.id = 0 \/ Lost(c) THEN agreed
                     ELSE [agreed EXCEPT ![c] = Negotiate(r.arg)]
        /\ UNCHANGED <<asked, ran, runs>>

Answer(c) ==
    /\ Dispatches(c)
    /\ ~InvokesTool(Message(cur[c]))
    /\ AnswerAtOnce(c)
    /\ \E code \in Replies(Message(cur[c])) : Respond(c, code)

Invoke(c) ==
    /\ Dispatches(c)
    /\ InvokesTool(Message(cur[c]))
    /\ BeginCall(c)
    /\ ran' = ran \cup {Call(c)}
    /\ runs' = runs + 1
    /\ UNCHANGED <<httpVars, asked, told, given>>

\* Mutant of ToolReturns: a call whose answer cannot be written is not counted.
ToolReturnsUncounted(c) ==
    /\ CallReturns(c)
    /\ \E code \in Replies(Message(cur[c])) :
          IF Lost(c) THEN late' = late \ {c} /\ UNCHANGED <<key, turn, cur, recorded, agreed, lost, ledger>>
          ELSE Respond(c, code)

ToolReturns(c) ==
    /\ CallReturns(c)
    /\ \E code \in Replies(Message(cur[c])) : Respond(c, code)

\* The tool runs on past httpWriteTimeout: nothing stops it, and what it returns
\* cannot be written any more.
WriteTimeout(c) ==
    /\ Running
    /\ pc[c] \in Calling
    /\ c \notin late
    /\ late' = late \cup {c}
    /\ UNCHANGED <<vars, ledger, key, turn, cur, recorded, agreed, lost>>

-----------------------------------------------------------------------------
(* Event streams, which have deadlines of their own.                       *)

Stream(c) ==
    /\ Serves(c, "GET")
    /\ OpenStream(c)
    /\ UNCHANGED <<httpVars, ledger>>

StreamOver(c) ==
    /\ PingFails(c) \/ StreamEnds(c)
    /\ Finish(c, 200)
    /\ UNCHANGED <<agreed, ledger>>

\* What the requests do not notice.
Unseen(c) ==
    /\ PingWritten(c) \/ StreamTick(c) \/ AttemptFails(c) \/ BackoffElapses(c)
    /\ UNCHANGED <<httpVars, ledger>>

Lifecycle ==
    /\ \/ \E c \in Clients : ClientGone(c)
       \/ Signal \/ StopEndsStreams \/ ShutdownBegins \/ HookRuns
       \/ ShutdownReturns \/ ShutdownDeadline
    /\ UNCHANGED <<httpVars, ledger>>

\* What is done for a request without its client.
Serve(c) ==
    \/ Unguarded(c) \/ Unauthorized(c) \/ Scrape(c)
    \/ RefuseVersion(c) \/ OtherVerb(c) \/ RefuseBody(c)
    \/ Answer(c) \/ Invoke(c) \/ ToolReturns(c)
    \/ Stream(c) \/ StreamOver(c)
    \/ Unseen(c)

HttpNext ==
    \/ \E c \in Clients : \E r \in HttpRequests[c] : Arrive(c, r)
    \/ \E c \in Clients : Serve(c) \/ WriteTimeout(c)
    \/ Lifecycle

-----------------------------------------------------------------------------
\* The types of the state.
HttpCalls == [from : Clients, turn : Nat, pos : {1}, req : Request,
              tool : BOOLEAN, wants : BOOLEAN]

HttpTypeOK ==
    /\ key \in Keys \cup {NoKey}
    /\ turn \in [Clients -> Nat]
    /\ cur \in [Clients -> HttpRequest]
    /\ late \subseteq Clients
    /\ recorded \subseteq [call : HttpCalls, again : BOOLEAN,
                     status : {200, 202, 204, 400, 401, 404, 405, 413}]
    /\ agreed \in [Clients -> Supported \cup {NoVersion}]
    /\ lost \subseteq HttpCalls

\* A stream is open, or a tool running, only for a request that shows the key the
\* server was given; a server that was given none serves neither to anybody.
ServedHasKey ==
    \A c \in Clients :
        pc[c] \in Streaming \cup Calling =>
            /\ key # NoKey
            /\ cur[c].apiKey = key \/ (cur[c].apiKey = NoKey /\ cur[c].bearer = key)

\* When Stop reports success, every call that was ever accepted and wants an answer
\* has been given it, those in flight when the signal came included: a stop waits for
\* the handlers (CHANGELOG.md:21).  Only a client that had gone, or a tool that ran on
\* past httpWriteTimeout, is left without.
CleanStopAnswers ==
    stopErr = "nil" =>
        \A a \in asked : a.wants => (\E t \in told : t.call = a) \/ a \in lost

\* After a clean stop /metrics has counted every request that was ever accepted,
\* once (to count a call again would be another record), and every tool that ran as a
\* success of the HTTP layer, though nobody may have been there to read its answer.
CleanStopCounts ==
    stopErr = "nil" =>
        \A a \in asked :
            \E x \in recorded :
                /\ x.call = a
                /\ \A y \in recorded : y.call = a => y = x
                /\ a \in ran => x.status \in {200, 202}

\* A client that speaks the version it was last given by initialize is never
\* refused for it, whatever version it had asked for.
AgreedVersionAccepted ==
    [][\A c \in Clients : RefuseVersion(c) => cur[c].versions # {agreed[c]}]_<<vars, httpVars>>

\* A tool call ends, answered or not.
CallSettles == \A c \in Clients : pc[c] \in Calling ~> pc[c] \notin Calling
=============================================================================
