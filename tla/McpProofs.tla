----------------------------- MODULE McpProofs -----------------------------
(***************************************************************************)
(* Proofs about the server and the program, for any number of clients,     *)
(* keys, requests and lines: first Server alone, then what Mcp adds to it  *)
(* and how it implements Ledger, then the order of the answers on stdio.   *)
(***************************************************************************)
EXTENDS Mcp, SelectionProofs

-----------------------------------------------------------------------------
(* The server alone (Server).                                              *)

\* Whoever closes the channel of the streams has run the Once first.
OnceGuards ==
    /\ chan = "closed" => once
    /\ ~panicked

\* A call that backs off may make another attempt.
BackoffCounted == \A c \in Clients : pc[c] = "backoff" => tries[c] < MaxAttempts

\* The main invariant: the types, and what guards the channel and the attempts.
IndInv ==
    /\ TypeOK
    /\ OnceGuards
    /\ BackoffCounted

\* The server starts in the invariant.
LEMMA InitInv == Init => IndInv
<1>1. 0 \in 0 .. MaxAttempts
  BY ServerAssumption
<1>2. Init => TypeOK
  BY <1>1 DEF Init, TypeOK, Busy, Streaming, Calling
<1>3. Init => OnceGuards /\ BackoffCounted
  BY DEF Init, OnceGuards, BackoffCounted
<1>4. QED
  BY <1>2, <1>3 DEF IndInv

\* A handler that returns goes back to its connection and forgets its call.
LEMMA ReturnInv ==
  ASSUME IndInv, NEW c \in Clients, pc[c] \in Busy, Running, HandlerReturns(c)
  PROVE  IndInv'
  BY ServerAssumption
     DEF IndInv, TypeOK, OnceGuards, BackoffCounted, HandlerReturns, Busy, Streaming, Calling

\* What a client and its connection do.
LEMMA ConnectionInv ==
  ASSUME IndInv, NEW c \in Clients, Connect(c) \/ NextRequest(c) \/ ClientGone(c)
  PROVE  IndInv'
  BY ServerAssumption
     DEF IndInv, TypeOK, OnceGuards, BackoffCounted, Connect, NextRequest, ClientGone, Goto,
         Busy, Streaming, Calling

\* What an event stream does before it ends.
LEMMA StreamInv ==
  ASSUME IndInv, NEW c \in Clients, OpenStream(c) \/ PingWritten(c) \/ StreamTick(c)
  PROVE  IndInv'
  BY ServerAssumption
     DEF IndInv, TypeOK, OnceGuards, BackoffCounted, OpenStream, PingWritten, StreamTick, Goto,
         Busy, Streaming, Calling

\* What a tool call does before it returns: it counts to MaxAttempts.
LEMMA CallInv ==
  ASSUME IndInv, NEW c \in Clients, BeginCall(c) \/ AttemptFails(c) \/ BackoffElapses(c)
  PROVE  IndInv'
  BY ServerAssumption
     DEF IndInv, TypeOK, OnceGuards, BackoffCounted, BeginCall, AttemptFails, BackoffElapses, Goto,
         Busy, Streaming, Calling

\* The steps of main and of the registered hook.
LEMMA StopInv ==
  ASSUME IndInv,
         Signal \/ StopEndsStreams \/ ShutdownBegins \/ HookRuns \/ ShutdownReturns
           \/ ShutdownDeadline
  PROVE  IndInv'
<1>1. CASE Signal \/ ShutdownBegins
  BY <1>1 DEF IndInv, TypeOK, OnceGuards, BackoffCounted, Signal, ShutdownBegins
<1>2. CASE StopEndsStreams \/ HookRuns
  BY <1>2 DEF IndInv, TypeOK, OnceGuards, BackoffCounted, StopEndsStreams, HookRuns, EndStreams
<1>3. CASE ShutdownReturns \/ ShutdownDeadline
  BY <1>3 DEF IndInv, TypeOK, OnceGuards, BackoffCounted, ShutdownReturns, ShutdownDeadline, Exit
<1>4. QED
  BY <1>1, <1>2, <1>3

\* Every step keeps the invariant.
LEMMA NextInv == IndInv /\ [Next]_vars => IndInv'
<1>1. SUFFICES ASSUME IndInv, [Next]_vars PROVE IndInv'
  OBVIOUS
<1>2. ASSUME NEW c \in Clients,
             AnswerAtOnce(c) \/ PingFails(c) \/ StreamEnds(c) \/ CallReturns(c)
      PROVE  IndInv'
  BY <1>1, <1>2, ReturnInv
     DEF AnswerAtOnce, PingFails, StreamEnds, CallReturns, Busy, Streaming, Calling
<1>3. CASE UNCHANGED vars
  BY <1>1, <1>3 DEF vars, IndInv, TypeOK, OnceGuards, BackoffCounted
<1>4. QED
  BY <1>1, <1>2, <1>3, ConnectionInv, StreamInv, CallInv, StopInv DEF Next, Main, Handler

\* The invariant always holds.
LEMMA Invariance == Spec => []IndInv
  BY InitInv, NextInv, PTL DEF Spec

\* The state always has its types: no call makes more attempts than it may.
THEOREM ServerTypeCorrect == Spec => []TypeOK
<1>1. IndInv => TypeOK
  BY DEF IndInv
<1>2. QED
  BY <1>1, Invariance, PTL

\* The channel that ends the streams (endSSEStreams) is closed at most once, whatever
\* the order of Stop, of the hook of Shutdown and of the streams that open meanwhile.
THEOREM ChannelClosedOnce == Spec => []NoDoubleClose
<1>1. IndInv => NoDoubleClose
  BY DEF IndInv, OnceGuards, NoDoubleClose
<1>2. QED
  BY <1>1, Invariance, PTL

-----------------------------------------------------------------------------
(* The program (Mcp).                                                      *)

\* The call has been answered, and its sender can read the answer.
Answers(c) == \E t \in told : t.call = c

\* The code tells whether the tool of the call ran.
Truthful(call, code) ==
    IF call.tool THEN call \in ran /\ code \in {Result, InternalError}
    ELSE code \in Codes \ {InternalError}

\* What was asked was asked in a turn that has come; only what was asked is run,
\* answered or counted.
AskedInv ==
    /\ \A a \in asked :
          /\ transport = "stdio" => a.from = Stdin /\ a.turn <= lines
          /\ transport = "http" => a.from \in Clients /\ a.turn <= turn[a.from]
    /\ ran \subseteq asked
    /\ \A t \in told : t.call \in asked
    /\ \A x \in recorded : x.call \in asked

\* The line that is being handled: none of its calls has been answered, those still to
\* be handled have not run, and all are different.
LineInv ==
    /\ transport = "http" => loop = "scan"
    /\ loop = "scan" => todo = <<>> /\ replies = <<>>
    /\ loop = "write" => todo = <<>>
    /\ \A i \in DOMAIN todo :
          /\ todo[i] \in asked \ ran /\ ~Answers(todo[i])
          /\ todo[i].turn = lines
          /\ todo[i].tool = InvokesTool(todo[i].req)
    /\ \A i, j \in DOMAIN todo : todo[i] = todo[j] => i = j
    /\ \A i \in DOMAIN replies :
          /\ replies[i].call \in asked /\ ~Answers(replies[i].call)
          /\ replies[i].call.turn = lines
          /\ replies[i].call.wants
          /\ Truthful(replies[i].call, replies[i].code)
    /\ \A i, j \in DOMAIN replies : replies[i].call = replies[j].call => i = j
    /\ \A i \in DOMAIN todo, j \in DOMAIN replies : todo[i] # replies[j].call

\* While the loop runs, what ran and wants an answer has it or has it ready.
RanInv ==
    /\ transport = "stdio" /\ loop \in {"scan", "handle", "write"} =>
          \A a \in ran : a.wants => Answers(a) \/ \E i \in DOMAIN replies : replies[i].call = a
    /\ OneLineBehind

\* The request of a busy connection is the one asked last, and has been neither answered
\* nor counted; its tool runs, or its stream is open, for one that is let in.
BusyInv ==
    /\ \A c \in Clients : cur[c] \in HttpRequests[c]
    /\ \A c \in Clients : pc[c] \in Busy =>
          /\ Call(c) \in asked
          /\ ~Answers(Call(c))
          /\ \A x \in recorded : x.call # Call(c)
          /\ Call(c) \in ran <=> pc[c] \in Calling
          /\ pc[c] \in Calling => Dispatches(c) /\ InvokesTool(Message(cur[c]))
          /\ pc[c] \in Streaming => Serves(c, "GET")

\* The request is counted, once, and as a success if its tool ran.
Counted(a) ==
    \E x \in recorded :
        /\ x.call = a
        /\ \A y \in recorded : y.call = a => y = x
        /\ a \in ran => x.status \in {200, 202}

\* What was asked over HTTP is counted once, or its connection is busy with it.
CountInv ==
    /\ stopErr = "nil" => stage = "exited"
    /\ transport = "stdio" => stage = "serving" /\ recorded = {} /\ \A c \in Clients : pc[c] = "away"
    /\ transport = "http" /\ stage # "exited" =>
          \A a \in asked : Counted(a) \/ (pc[a.from] \in Busy /\ a = Call(a.from))
    /\ CleanStopCounts

\* The main invariant of the program.
McpInv ==
    /\ IndInv
    /\ McpTypeOK
    /\ AskedInv
    /\ LineInv
    /\ RanInv
    /\ BusyInv
    /\ CountInv

-----------------------------------------------------------------------------
(* The calls of HTTP requests.                                             *)

\* What a call says of its request.
LEMMA CallFields ==
  ASSUME NEW c, NEW n, NEW r
  PROVE  /\ HttpCall(c, n, r).from = c /\ HttpCall(c, n, r).turn = n
         /\ HttpCall(c, n, r).tool <=> Entitled(r) /\ InvokesTool(Message(r))
         /\ HttpCall(c, n, r).wants <=>
               /\ r.path = "mcp" /\ r.verb = "POST"
               /\ Entitled(r) => Message(r).id # 0
  BY DEF HttpCall

\* The parts of a request.
LEMMA RequestParts ==
  ASSUME NEW c \in Clients, NEW r \in HttpRequests[c]
  PROVE  /\ r \in HttpRequest
         /\ r.versions \subseteq Versions
         /\ r.apiKey \in Keys \cup {NoKey} /\ r.bearer \in Keys \cup {NoKey}
         /\ r.body.form = "single" => Message(r) \in Request
<1>1. r \in HttpRequest
  BY HttpAssumption
<1>2. r.body \in Payload /\ r.versions \subseteq Versions
  BY <1>1 DEF HttpRequest
<1>3. r.apiKey \in Keys \cup {NoKey} /\ r.bearer \in Keys \cup {NoKey}
  BY <1>1 DEF HttpRequest
<1>4. ASSUME r.body.form = "single"
      PROVE  Message(r) \in Request
  <2>1. r.body.requests \in Seq(Request) /\ Len(r.body.requests) = 1
    BY <1>2, <1>4, HttpAssumption DEF Payload
  <2>2. QED
    BY <2>1 DEF Message
<1>5. QED
  BY <1>1, <1>2, <1>3, <1>4

\* The record of a call is one.
LEMMA CallType ==
  ASSUME NEW c \in Clients, NEW n \in Nat, NEW r \in HttpRequests[c]
  PROVE  HttpCall(c, n, r) \in HttpCalls
<1>1. [id |-> 0, method |-> "other", arg |-> "none"] \in Request
  BY DEF Request, Methods, Args
<1>2. (IF r.body.form = "single" THEN Message(r)
       ELSE [id |-> 0, method |-> "other", arg |-> "none"]) \in Request
  BY <1>1, RequestParts
<1>3. (Entitled(r) /\ InvokesTool(Message(r))) \in BOOLEAN
  OBVIOUS
<1>4. (r.path = "mcp" /\ r.verb = "POST" /\ (Entitled(r) => Message(r).id # 0)) \in BOOLEAN
  OBVIOUS
<1>5. QED
  BY <1>2, <1>3, <1>4 DEF HttpCall, HttpCalls

\* What the middleware and HandleHTTP let through is what is entitled.
LEMMA EntitledIsServed ==
  ASSUME NEW c \in Clients, NEW r \in HttpRequests[c]
  PROVE  Entitled(r) <=> /\ r.path = "mcp" /\ Admits(r) /\ VersionOK(r)
                         /\ r.verb = "POST" /\ Decodes(r)
<1>1. Admits(r) <=> \/ r.apiKey = key /\ key # NoKey
                    \/ r.apiKey = NoKey /\ r.bearer = key /\ key # NoKey
  BY DEF Admits, ExtractKey
<1>2. r.verb = "POST" => (VersionOK(r) <=> r.versions \cap (Versions \ Supported) = {})
  BY RequestParts DEF VersionOK
<1>3. QED
  BY <1>1, <1>2 DEF Entitled, Decodes

\* The codes there are.
LEMMA CodesDistinct ==
  /\ InternalError \in Codes /\ Result \in Codes
  /\ {InvalidRequest, MethodNotFound, InvalidParams, ParseError, Unauthenticated, Result}
       \subseteq Codes \ {InternalError}
  BY DEF Codes, Result, InvalidRequest, MethodNotFound, InvalidParams, InternalError, ParseError,
         Unauthenticated

\* What runs no tool is not answered with an internal error.
LEMMA RepliesTruthful ==
  ASSUME NEW r, NEW code \in Replies(r)
  PROVE  /\ code \in Codes
         /\ InvokesTool(r) => code \in {Result, InternalError}
         /\ ~InvokesTool(r) => code \in Codes \ {InternalError}
<1>1. CASE InvokesTool(r)
  <2>1. Replies(r) = {Result, InternalError}
    BY <1>1 DEF Replies, InvokesTool
  <2>2. QED
    BY <1>1, <2>1, CodesDistinct
<1>2. CASE ~InvokesTool(r)
  <2>1. Replies(r) \in {{MethodNotFound}, {InvalidParams}, {Result}}
    BY <1>2 DEF Replies, InvokesTool
  <2>2. QED
    BY <1>2, <2>1, CodesDistinct
<1>3. QED
  BY <1>1, <1>2

-----------------------------------------------------------------------------
(* Over HTTP.                                                              *)

\* Every step of the program is one of the server whose life Server describes.
LEMMA StepsAreServers == [McpNext]_allVars => [Next]_vars
<1>1. SUFFICES ASSUME McpNext PROVE [Next]_vars
  BY DEF allVars
<1>2. ASSUME NEW c \in Clients, NEW r \in HttpRequests[c], Arrive(c, r)
      PROVE  Next
  BY <1>2 DEF Arrive, Next
<1>3. ASSUME NEW c \in Clients, Serve(c)
      PROVE  Next
  <2>1. Handler(c) \/ StreamEnds(c)
    BY <1>3
       DEF Serve, Unguarded, Unauthorized, Scrape, RefuseVersion, OtherVerb, RefuseBody, Answer, Invoke,
           ToolReturns, Stream, StreamOver, Unseen, Silent, Refuse, Handler
  <2>2. QED
    BY <2>1 DEF Next
<1>4. ASSUME NEW c \in Clients, WriteTimeout(c)
      PROVE  UNCHANGED vars
  BY <1>4 DEF WriteTimeout
<1>5. ASSUME Lifecycle
      PROVE  Next
  BY <1>5 DEF Lifecycle, Next, Main
<1>6. QED
  BY <1>1, <1>2, <1>3, <1>4, <1>5 DEF McpNext, HttpNext

\* What the other connections are busy with does not change when they and what was
\* asked, run, answered and counted of them stay.
LEMMA BusyOfOthers ==
  ASSUME BusyInv, NEW c \in Clients, UNCHANGED key,
         \A d \in Clients \ {c} : /\ pc'[d] = pc[d] /\ turn'[d] = turn[d] /\ cur'[d] = cur[d],
         asked \subseteq asked', ran \subseteq ran',
         \A a \in ran' \ ran : a.from = c,
         \A t \in told' \ told : t.call.from = c,
         \A x \in recorded' \ recorded : x.call.from = c,
         cur'[c] \in HttpRequests[c],
         pc'[c] \in Busy =>
            /\ Call(c)' \in asked' /\ ~Answers(Call(c))' /\ \A x \in recorded' : x.call # Call(c)'
            /\ Call(c)' \in ran' <=> pc'[c] \in Calling
            /\ pc'[c] \in Calling => Dispatches(c)' /\ InvokesTool(Message(cur[c]))'
            /\ pc'[c] \in Streaming => Serves(c, "GET")'
  PROVE  BusyInv'
<1>1. SUFFICES ASSUME NEW d \in Clients, d # c
               PROVE  /\ cur'[d] \in HttpRequests[d]
                      /\ pc'[d] \in Busy =>
                            /\ Call(d)' \in asked' /\ ~Answers(Call(d))'
                            /\ \A x \in recorded' : x.call # Call(d)'
                            /\ Call(d)' \in ran' <=> pc'[d] \in Calling
                            /\ pc'[d] \in Calling => Dispatches(d)' /\ InvokesTool(Message(cur[d]))'
                            /\ pc'[d] \in Streaming => Serves(d, "GET")'
  BY DEF BusyInv
<1>2. Call(d)' = Call(d) /\ Call(d).from = d
  BY <1>1, CallFields DEF Call, HttpCall, Entitled
<1>3. /\ Dispatches(d)' <=> Dispatches(d)
      /\ Serves(d, "GET")' <=> Serves(d, "GET")
      /\ InvokesTool(Message(cur[d]))' <=> InvokesTool(Message(cur[d]))
  BY <1>1 DEF Dispatches, Serves, Reached, Admits, VersionOK, Decodes, InvokesTool, Message
<1>4. QED
  BY <1>1, <1>2, <1>3 DEF BusyInv, Answers

\* The loop of the other transport stays where it began.
LEMMA LoopIdle ==
  ASSUME StdioTypeOK, LineInv, transport = "http", UNCHANGED <<transport, stdioVars>>, AskedInv'
  PROVE  StdioTypeOK' /\ LineInv' /\ RanInv'
<1>1. UNCHANGED <<transport, loop, batch, todo, replies, out, lines, due>>
  BY DEF stdioVars
<1>2. loop = "scan" /\ todo = <<>> /\ replies = <<>>
  BY DEF LineInv
<1>3. StdioTypeOK'
  BY <1>1 DEF StdioTypeOK
<1>4. LineInv'
  BY <1>1, <1>2 DEF LineInv
<1>5. \A a \in ran' : a.from # Stdin
  BY <1>1, McpAssumption DEF AskedInv
<1>6. RanInv'
  BY <1>1, <1>5 DEF RanInv, OneLineBehind
<1>7. QED
  BY <1>3, <1>4, <1>6

\* The handler of a connection finishes a request that it answers, or not.
Finishes(c, status) ==
    /\ pc[c] \in Busy
    /\ HandlerReturns(c)
    /\ Finish(c, status)
    /\ Call(c) \in ran => status \in {200, 202}
    /\ UNCHANGED <<transport, stdioVars, asked, ran, runs>>
    /\ \/ UNCHANGED <<told, given>> /\ (Lost(c) \/ ~Call(c).wants)
       \/ \E code \in Codes : /\ told' = told \cup {[call |-> Call(c), code |-> code]}
                              /\ given' = given + 1
                              /\ Call(c).wants /\ Truthful(Call(c), code)

\* What is left of a finished request: the count of it.
LEMMA FinishKeepsCounts ==
  ASSUME McpInv, transport = "http", stage # "exited", NEW c \in Clients, NEW status,
         Finishes(c, status)
  PROVE  CountInv'
<1> DEFINE again == \E x \in recorded : x.call = Call(c)
<1>1. /\ recorded' = recorded \cup {[call |-> Call(c), status |-> status, again |-> again]}
      /\ UNCHANGED <<transport, stage, stopErr, asked, ran, key, turn, cur>>
      /\ \A d \in Clients \ {c} : pc'[d] = pc[d]
      /\ \A x \in recorded : x.call # Call(c)
      /\ stopErr # "nil"
  BY DEF McpInv, IndInv, TypeOK, BusyInv, CountInv, Finishes, Finish, HandlerReturns
<1> HIDE DEF again
<1>2. ASSUME NEW a \in asked
      PROVE  Counted(a)' \/ (pc'[a.from] \in Busy /\ a = Call(a.from)')
  <2>1. CASE a = Call(c)
    <3> DEFINE x == [call |-> Call(c), status |-> status, again |-> again]
    <3>1. x \in recorded' /\ x.call = a /\ x.status = status
      BY <1>1, <2>1
    <3>2. \A y \in recorded' : y.call = a => y = x
      BY <1>1, <2>1
    <3>3. a \in ran' => x.status \in {200, 202}
      BY <1>1, <2>1, <3>1 DEF Finishes
    <3>4. QED
      BY <3>1, <3>2, <3>3 DEF Counted
  <2>2. CASE a # Call(c) /\ Counted(a)
    <3>1. PICK x \in recorded : /\ x.call = a
                                /\ \A y \in recorded : y.call = a => y = x
                                /\ a \in ran => x.status \in {200, 202}
      BY <2>2 DEF Counted
    <3>2. x \in recorded' /\ \A y \in recorded' : y.call = a => y = x
      BY <1>1, <2>2, <3>1
    <3>3. QED
      BY <1>1, <3>1, <3>2 DEF Counted
  <2>3. CASE a # Call(c) /\ pc[a.from] \in Busy /\ a = Call(a.from)
    <3>1. a.from \in Clients /\ a.from # c
      BY <2>3 DEF McpInv, AskedInv
    <3>2. Call(a.from)' = Call(a.from)
      BY <1>1 DEF Call, HttpCall, Entitled
    <3>3. QED
      BY <1>1, <2>3, <3>1, <3>2
  <2>4. QED
    BY <2>1, <2>2, <2>3, <1>1 DEF McpInv, CountInv
<1>3. QED
  BY <1>1, <1>2 DEF McpInv, CountInv, CleanStopCounts

\* Answers that tell the truth are what Ledger promises.
LEMMA TellingTruth ==
  ASSUME UNCHANGED <<asked, ran, runs>>, told \subseteq told',
         given' = given + Cardinality(told' \ told),
         \A t \in told' \ told :
            t.call \in asked /\ t.call.wants /\ ~Answers(t.call) /\ Truthful(t.call, t.code),
         \A t, u \in told' \ told : t.call = u.call => t = u
  PROVE  Promise!Tell
<1>1. /\ Promise!Result = Result /\ Promise!InternalError = InternalError /\ Promise!Codes = Codes
  BY DEF Promise!Result, Promise!InternalError, Promise!Codes, Result, InternalError, Codes,
         Promise!InvalidRequest, Promise!MethodNotFound, Promise!InvalidParams, Promise!ParseError,
         Promise!Unauthenticated, InvalidRequest, MethodNotFound, InvalidParams, ParseError,
         Unauthenticated
<1>2. \A call : Promise!Told(call) <=> Answers(call)
  BY DEF Promise!Told, Answers
<1>3. Promise!Cardinality(told' \ told) = Cardinality(told' \ told)
  BY DEF Promise!Cardinality, Cardinality
<1>4. QED
  BY <1>1, <1>2, <1>3 DEF Promise!Tell, Truthful

\* A finished request keeps the invariant, and keeps the promise.
LEMMA FinishKeeps ==
  ASSUME McpInv, transport = "http", stage # "exited", NEW c \in Clients,
         NEW status \in {200, 202, 204, 400, 401, 404, 405, 413}, Finishes(c, status),
         agreed' \in [Clients -> Supported \cup {NoVersion}], IndInv'
  PROVE  McpInv' /\ [Promise!Next]_ledger
<1> DEFINE again == \E x \in recorded : x.call = Call(c)
<1>1. /\ recorded' = recorded \cup {[call |-> Call(c), status |-> status, again |-> again]}
      /\ late' = late \ {c} /\ (lost' = lost \/ lost' = lost \cup {Call(c)})
      /\ UNCHANGED <<transport, asked, ran, runs, key, turn, cur>>
      /\ \A d \in Clients \ {c} : pc'[d] = pc[d]
      /\ pc'[c] \notin Busy
  BY DEF McpInv, IndInv, TypeOK, Finishes, Finish, HandlerReturns, Busy, Streaming, Calling
<1>0. again \in BOOLEAN
  OBVIOUS
<1> HIDE DEF again
<1>2. /\ Call(c) \in asked /\ ~Answers(Call(c)) /\ Call(c).from = c
      /\ cur[c] \in HttpRequests[c] /\ Call(c) \in HttpCalls
  <2>1. Call(c) \in asked /\ ~Answers(Call(c)) /\ cur[c] \in HttpRequests[c] /\ turn[c] \in Nat
    BY DEF McpInv, BusyInv, Finishes, McpTypeOK, HttpTypeOK
  <2>2. QED
    BY <2>1, CallType, CallFields DEF Call
<1>3. \/ UNCHANGED <<told, given>>
      \/ \E code \in Codes : /\ told' = told \cup {[call |-> Call(c), code |-> code]}
                             /\ given' = given + 1
                             /\ Call(c).wants /\ Truthful(Call(c), code)
  BY DEF Finishes
<1>4. AskedInv'
  BY <1>1, <1>2, <1>3 DEF McpInv, AskedInv, Finishes, stdioVars
<1>5. StdioTypeOK' /\ LineInv' /\ RanInv'
  BY <1>4, LoopIdle DEF McpInv, McpTypeOK, Finishes
<1>6. McpTypeOK'
  <2>1. told' \subseteq [call : HttpCalls \cup StdioCalls, code : Codes]
    BY <1>2, <1>3 DEF McpInv, McpTypeOK
  <2>2. recorded' \subseteq [call : HttpCalls, again : BOOLEAN,
                            status : {200, 202, 204, 400, 401, 404, 405, 413}]
    BY <1>0, <1>1, <1>2 DEF McpInv, McpTypeOK, HttpTypeOK
  <2>3. given' \in Nat /\ lost' \subseteq HttpCalls
    BY <1>1, <1>2, <1>3 DEF McpInv, McpTypeOK, HttpTypeOK
  <2>4. QED
    BY <1>1, <1>5, <2>1, <2>2, <2>3 DEF McpInv, McpTypeOK, HttpTypeOK
<1>7. BusyInv'
  <2>1. /\ \A t \in told' \ told : t.call.from = c
        /\ \A x \in recorded' \ recorded : x.call.from = c
    BY <1>1, <1>2, <1>3
  <2>2. BusyInv /\ cur'[c] \in HttpRequests[c]
    BY <1>1, <1>2 DEF McpInv
  <2>3. QED
    BY <1>1, <2>1, <2>2, BusyOfOthers
<1>8. [Promise!Next]_ledger
  <2>1. CASE UNCHANGED <<told, given>>
    BY <1>1, <2>1 DEF ledger
  <2>2. ASSUME NEW code \in Codes, told' = told \cup {[call |-> Call(c), code |-> code]},
               given' = given + 1, Call(c).wants, Truthful(Call(c), code)
        PROVE  Promise!Tell
    <3> DEFINE t == [call |-> Call(c), code |-> code]
    <3>1. t.call = Call(c) /\ t.code = code /\ told' = told \cup {t}
      BY <2>2
    <3> HIDE DEF t
    <3>2. t \notin told
      BY <1>2, <3>1 DEF Answers
    <3>3. told' \ told = {t}
      BY <3>1, <3>2
    <3>4. given' = given + Cardinality(told' \ told)
      <4>1. Cardinality({t}) = 1
        BY FS_Singleton
      <4>2. Cardinality(told' \ told) = 1
        BY <3>3, <4>1
      <4>3. QED
        BY <2>2, <4>2
    <3>5. \A u \in told' \ told : u = t
      BY <3>3
    <3>6. QED
      BY <1>1, <1>2, <2>2, <3>1, <3>4, <3>5, TellingTruth
  <2>3. QED
    BY <1>3, <2>1, <2>2 DEF Promise!Next
<1>9. QED
  BY <1>4, <1>5, <1>6, <1>7, <1>8, FinishKeepsCounts DEF McpInv

\* The status codes of Http.
Statuses == {200, 202, 204, 400, 401, 404, 405, 413}

\* What is refused or answered without a tool is finished.
LEMMA AnswersFinish ==
  ASSUME McpInv, NEW c \in Clients, UNCHANGED <<transport, stdioVars>>,
         \/ Unguarded(c) \/ Unauthorized(c) \/ Scrape(c)
         \/ RefuseVersion(c) \/ OtherVerb(c) \/ RefuseBody(c) \/ Answer(c)
  PROVE  /\ \E status \in Statuses : Finishes(c, status)
         /\ agreed' \in [Clients -> Supported \cup {NoVersion}]
<1>1. /\ pc[c] = "enter" /\ HandlerReturns(c) /\ Call(c) \notin ran
      /\ cur[c] \in HttpRequests[c]
      /\ agreed \in [Clients -> Supported \cup {NoVersion}]
  <2>1. pc[c] = "enter" /\ HandlerReturns(c)
    BY DEF Unguarded, Unauthorized, Scrape, RefuseVersion, OtherVerb, RefuseBody, Answer, Silent, Refuse,
           AnswerAtOnce
  <2>2. QED
    BY <2>1 DEF McpInv, McpTypeOK, HttpTypeOK, BusyInv, Busy, Calling, Streaming
<1>2. pc[c] \in Busy
  BY <1>1 DEF Busy
<1>3. Call(c).tool <=> Entitled(cur[c]) /\ InvokesTool(Message(cur[c]))
  BY CallFields DEF Call
<1>4. ASSUME NEW status \in Statuses, Silent(c, status), ~Call(c).wants
      PROVE  Finishes(c, status) /\ agreed' = agreed
  BY <1>1, <1>2, <1>4 DEF Silent, Finishes, ledger
<1>5. ASSUME NEW status \in Statuses, NEW code \in Codes \ {InternalError},
             ~Entitled(cur[c]), Refuse(c, status, code)
      PROVE  Finishes(c, status) /\ agreed' = agreed
  BY <1>1, <1>2, <1>3, <1>5 DEF Refuse, Tell, Finishes, Truthful
<1>6. CASE Unguarded(c) \/ Scrape(c) \/ OtherVerb(c)
  <2>1. ~Call(c).wants
    BY <1>6, CallFields DEF Call, Unguarded, Scrape, OtherVerb, Serves
  <2>2. QED
    BY <1>1, <1>4, <1>6, <2>1 DEF Unguarded, Scrape, OtherVerb, Statuses
<1>7. CASE Unauthorized(c)
  <2>1. ~Entitled(cur[c])
    BY <1>1, <1>7, EntitledIsServed DEF Unauthorized
  <2>2. QED
    BY <1>1, <1>5, <1>7, <2>1, CodesDistinct DEF Unauthorized, Statuses
<1>8. CASE RefuseVersion(c)
  <2>1. ~Entitled(cur[c])
    BY <1>1, <1>8, EntitledIsServed DEF RefuseVersion
  <2>2. QED
    BY <1>1, <1>5, <1>8, <2>1, CodesDistinct DEF RefuseVersion, Statuses
<1>9. CASE RefuseBody(c)
  <2>1. ~Entitled(cur[c])
    BY <1>1, <1>9, EntitledIsServed DEF RefuseBody
  <2>2. QED
    BY <1>1, <1>5, <1>9, <2>1, CodesDistinct DEF RefuseBody, Statuses
<1>10. CASE Answer(c)
  <2>1. PICK code \in Replies(Message(cur[c])) : Respond(c, code)
    BY <1>10 DEF Answer
  <2>2. ~InvokesTool(Message(cur[c])) /\ code \in Codes \ {InternalError}
    BY <1>10, <2>1, RepliesTruthful DEF Answer
  <2>3. ~Call(c).tool
    BY <1>3, <2>2
  <2>5. Finishes(c, IF Message(cur[c]).id = 0 THEN 202 ELSE 200)
    BY <1>1, <1>2, <2>1, <2>2, <2>3 DEF Respond, Tell, Finishes, Truthful
  <2>6. agreed' \in [Clients -> Supported \cup {NoVersion}]
    BY <1>1, <2>1 DEF Respond, Negotiate, Preferred, Supported
  <2>7. QED
    BY <2>5, <2>6 DEF Statuses
<1>11. QED
  BY <1>6, <1>7, <1>8, <1>9, <1>10

\* A tool that returns and a stream that ends are finished.
LEMMA ReturnsFinish ==
  ASSUME McpInv, NEW c \in Clients, UNCHANGED <<transport, stdioVars>>, ToolReturns(c) \/ StreamOver(c)
  PROVE  /\ \E status \in Statuses : Finishes(c, status)
         /\ agreed' \in [Clients -> Supported \cup {NoVersion}]
<1>1. cur[c] \in HttpRequests[c] /\ agreed \in [Clients -> Supported \cup {NoVersion}]
  BY DEF McpInv, McpTypeOK, HttpTypeOK, BusyInv
<1>2. CASE ToolReturns(c)
  <2>1. pc[c] \in Calling /\ HandlerReturns(c)
    BY <1>2 DEF ToolReturns, CallReturns, Calling
  <2>2. pc[c] \in Busy /\ Call(c) \in ran /\ Dispatches(c) /\ InvokesTool(Message(cur[c]))
    BY <2>1 DEF McpInv, BusyInv, Busy
  <2>3. Entitled(cur[c])
    BY <1>1, <2>2, EntitledIsServed DEF Dispatches, Serves, Reached
  <2>4. PICK code \in Replies(Message(cur[c])) : Respond(c, code)
    BY <1>2 DEF ToolReturns
  <2>5. code \in {Result, InternalError} /\ code \in Codes
    BY <2>2, <2>4, RepliesTruthful
  <2>6. Call(c).tool
    BY <2>2, <2>3, CallFields DEF Call
  <2>7. Finishes(c, IF Message(cur[c]).id = 0 THEN 202 ELSE 200)
    BY <2>1, <2>2, <2>4, <2>5, <2>6 DEF Respond, Tell, Finishes, Truthful
  <2>8. agreed' \in [Clients -> Supported \cup {NoVersion}]
    BY <1>1, <2>4 DEF Respond, Negotiate, Preferred, Supported
  <2>9. QED
    BY <2>7, <2>8 DEF Statuses
<1>3. CASE StreamOver(c)
  <2>1. pc[c] \in Streaming /\ HandlerReturns(c)
    BY <1>3 DEF StreamOver, PingFails, StreamEnds, Streaming
  <2>2. cur[c].verb = "GET"
    BY <2>1 DEF McpInv, BusyInv, Busy, Serves
  <2>3. ~Call(c).wants
    BY <2>2, CallFields DEF Call
  <2>4. Finishes(c, 200) /\ agreed' = agreed
    BY <1>3, <2>1, <2>3 DEF StreamOver, Finishes, Busy, ledger
  <2>5. QED
    BY <1>1, <2>4 DEF Statuses
<1>4. QED
  BY <1>2, <1>3

\* A request that arrives is a new one.
LEMMA ArriveKeeps ==
  ASSUME McpInv, transport = "http", UNCHANGED <<transport, stdioVars>>, IndInv',
         NEW c \in Clients, NEW r \in HttpRequests[c], Arrive(c, r)
  PROVE  McpInv' /\ [Promise!Next]_ledger
<1> DEFINE new == HttpCall(c, turn[c] + 1, r)
<1>1. /\ asked' = asked \cup {new}
      /\ turn' = [turn EXCEPT ![c] = @ + 1] /\ cur' = [cur EXCEPT ![c] = r]
      /\ pc' = [pc EXCEPT ![c] = "enter"] /\ pc[c] \notin Busy
      /\ UNCHANGED <<key, late, recorded, agreed, lost, ran, told, runs, given, stage, stopErr>>
      /\ stage # "exited"
  BY DEF Arrive, Connect, NextRequest, Goto, Listening, Running, Busy, Streaming, Calling
<1>2. pc \in [Clients -> {"away", "idle"} \cup Busy] /\ turn \in [Clients -> Nat]
      /\ cur \in [Clients -> HttpRequest]
  BY DEF McpInv, IndInv, TypeOK, McpTypeOK, HttpTypeOK
<1>3. /\ new.from = c /\ new.turn = turn[c] + 1 /\ turn[c] + 1 \in Nat /\ turn[c] \in Nat
      /\ new \in HttpCalls
  BY <1>2, CallFields, CallType
<1>4. /\ turn'[c] = turn[c] + 1 /\ cur'[c] = r /\ pc'[c] = "enter"
      /\ \A d \in Clients \ {c} : /\ turn'[d] = turn[d] /\ cur'[d] = cur[d] /\ pc'[d] = pc[d]
  BY <1>1, <1>2
<1>5. Call(c)' = new
  BY <1>1, <1>4 DEF Call, HttpCall, Entitled
<1> HIDE DEF new
<1>6. new \notin asked
  BY <1>3 DEF McpInv, AskedInv
<1>7. AskedInv'
  <2>1. \A a \in asked : a.from \in Clients /\ a.turn <= turn'[a.from]
    <3>1. ASSUME NEW a \in asked
          PROVE  a.from \in Clients /\ a.turn <= turn'[a.from]
      <4>1. a.from \in Clients /\ a.turn <= turn[a.from]
        BY <3>1 DEF McpInv, AskedInv
      <4>2. a.turn \in Nat
        BY <3>1 DEF McpInv, McpTypeOK, HttpCalls, StdioCalls
      <4>3. QED
        BY <1>2, <1>3, <1>4, <4>1, <4>2
    <3>2. QED
      BY <3>1
  <2>2. QED
    BY <1>1, <1>3, <1>4, <2>1 DEF McpInv, AskedInv
<1>8. StdioTypeOK' /\ LineInv' /\ RanInv'
  BY <1>7, LoopIdle DEF McpInv, McpTypeOK
<1>9. McpTypeOK'
  <2>1. turn' \in [Clients -> Nat] /\ cur' \in [Clients -> HttpRequest]
    BY <1>1, <1>2, <1>3, RequestParts
  <2>2. asked' \subseteq HttpCalls \cup StdioCalls /\ ran' \subseteq asked'
    BY <1>1, <1>3 DEF McpInv, McpTypeOK
  <2>3. QED
    BY <1>1, <1>8, <2>1, <2>2 DEF McpInv, McpTypeOK, HttpTypeOK
<1>10. BusyInv'
  <2>1. /\ new \notin ran /\ ~Answers(new) /\ \A x \in recorded : x.call # new
    BY <1>6 DEF McpInv, AskedInv, Answers
  <2>2. BusyInv /\ cur'[c] \in HttpRequests[c]
    BY <1>4 DEF McpInv
  <2>3. pc'[c] \notin Calling /\ pc'[c] \notin Streaming
    BY <1>4 DEF Calling, Streaming
  <2>4. ~Answers(Call(c))'
    BY <1>1, <1>5, <2>1 DEF Answers
  <2>5. QED
    BY <1>1, <1>4, <1>5, <2>1, <2>2, <2>3, <2>4, BusyOfOthers
<1>11. CountInv'
  <2>1. ASSUME NEW a \in asked'
        PROVE  Counted(a)' \/ (pc'[a.from] \in Busy /\ a = Call(a.from)')
    <3>1. CASE a = new
      BY <1>3, <1>4, <1>5, <3>1 DEF Busy
    <3>2. CASE a \in asked /\ Counted(a)
      BY <1>1, <3>2 DEF Counted
    <3>3. CASE a \in asked /\ pc[a.from] \in Busy /\ a = Call(a.from)
      <4>1. a.from \in Clients /\ a.from # c
        BY <1>1, <3>3 DEF McpInv, AskedInv
      <4>2. Call(a.from)' = Call(a.from)
        BY <1>1, <1>4, <4>1 DEF Call, HttpCall, Entitled
      <4>3. QED
        BY <1>4, <3>3, <4>1, <4>2
    <3>4. QED
      BY <1>1, <2>1, <3>1, <3>2, <3>3 DEF McpInv, CountInv
  <2>2. stopErr' # "nil"
    BY <1>1 DEF McpInv, CountInv
  <2>3. QED
    BY <1>1, <2>1, <2>2 DEF McpInv, CountInv, CleanStopCounts
<1>12. [Promise!Next]_ledger
  BY <1>1, <1>9 DEF Promise!Next, Promise!Ask, McpTypeOK
<1>13. QED
  BY <1>7, <1>8, <1>9, <1>10, <1>11, <1>12 DEF McpInv

\* A tool starts once, and only for a request that is entitled to it.
LEMMA InvokeKeeps ==
  ASSUME McpInv, transport = "http", UNCHANGED <<transport, stdioVars>>, IndInv',
         NEW c \in Clients, Invoke(c)
  PROVE  McpInv' /\ [Promise!Next]_ledger
<1>1. /\ ran' = ran \cup {Call(c)} /\ runs' = runs + 1
      /\ pc[c] = "enter" /\ pc' = [pc EXCEPT ![c] = "attempt"]
      /\ UNCHANGED <<key, turn, cur, late, recorded, agreed, lost, asked, told, given, stage, stopErr>>
      /\ Dispatches(c) /\ InvokesTool(Message(cur[c])) /\ stage # "exited"
  BY DEF Invoke, BeginCall, Goto, httpVars, Running
<1>2. pc \in [Clients -> {"away", "idle"} \cup Busy]
  BY DEF McpInv, IndInv, TypeOK
<1>3. /\ pc[c] \in Busy /\ pc'[c] = "attempt" /\ pc'[c] \in Busy /\ pc'[c] \in Calling
      /\ pc'[c] \notin Streaming
      /\ \A d \in Clients \ {c} : pc'[d] = pc[d]
  BY <1>1, <1>2 DEF Busy, Calling, Streaming
<1>4. /\ Call(c) \in asked /\ Call(c) \notin ran /\ ~Answers(Call(c))
      /\ \A x \in recorded : x.call # Call(c)
      /\ cur[c] \in HttpRequests[c] /\ Call(c).from = c
  BY <1>1, <1>3, CallFields DEF McpInv, BusyInv, Calling, Call
<1>5. Call(c).tool
  <2>1. Entitled(cur[c])
    BY <1>1, <1>4, EntitledIsServed DEF Dispatches, Serves, Reached
  <2>2. QED
    BY <1>1, <2>1, CallFields DEF Call
<1>6. \A d \in Clients : Call(d)' = Call(d)
  BY <1>1 DEF Call, HttpCall, Entitled
<1>7. AskedInv'
  BY <1>1, <1>4 DEF McpInv, AskedInv
<1>8. StdioTypeOK' /\ LineInv' /\ RanInv'
  BY <1>7, LoopIdle DEF McpInv, McpTypeOK
<1>9. McpTypeOK'
  BY <1>1, <1>4, <1>8 DEF McpInv, McpTypeOK, HttpTypeOK
<1>10. BusyInv'
  <2>1. Dispatches(c)' /\ InvokesTool(Message(cur[c]))'
    BY <1>1 DEF Dispatches, Serves, Reached, Admits, VersionOK, Decodes, InvokesTool, Message
  <2>2. ~Answers(Call(c))'
    BY <1>1, <1>4, <1>6 DEF Answers
  <2>3. BusyInv
    BY DEF McpInv
  <2>4. QED
    BY <1>1, <1>3, <1>4, <1>6, <2>1, <2>2, <2>3, BusyOfOthers
<1>11. CountInv'
  <2>1. ASSUME NEW a \in asked
        PROVE  Counted(a)' \/ (pc'[a.from] \in Busy /\ a = Call(a.from)')
    <3>1. CASE a = Call(c)
      BY <1>3, <1>4, <1>6, <3>1
    <3>2. CASE a # Call(c) /\ Counted(a)
      BY <1>1, <3>2 DEF Counted
    <3>3. CASE a # Call(c) /\ pc[a.from] \in Busy /\ a = Call(a.from)
      <4>1. a.from \in Clients /\ a.from # c
        BY <3>3 DEF McpInv, AskedInv
      <4>2. QED
        BY <1>3, <1>6, <3>3, <4>1
    <3>4. QED
      BY <1>1, <3>1, <3>2, <3>3 DEF McpInv, CountInv
  <2>2. stopErr' # "nil"
    BY <1>1 DEF McpInv, CountInv
  <2>3. QED
    BY <1>1, <2>1, <2>2 DEF McpInv, CountInv, CleanStopCounts
<1>12. [Promise!Next]_ledger
  <2>1. ~Promise!Told(Call(c))
    BY <1>4 DEF Answers, Promise!Told
  <2>2. Promise!Run(Call(c))
    BY <1>1, <1>5, <2>1 DEF Promise!Run
  <2>3. QED
    BY <1>4, <2>2 DEF Promise!Next
<1>13. QED
  BY <1>7, <1>8, <1>9, <1>10, <1>11, <1>12 DEF McpInv

\* A step that only moves a connection, within the handler that it is in, or moves none.
LEMMA MoveKeeps ==
  ASSUME McpInv, transport = "http", UNCHANGED <<transport, stdioVars, ledger>>, IndInv',
         UNCHANGED <<key, turn, cur, recorded, agreed, lost, stopErr>>,
         stage' = "exited" <=> stage = "exited",
         late' \subseteq Clients,
         \A c \in Clients :
            \/ pc'[c] = pc[c]
            \/ pc[c] \in Calling /\ pc'[c] \in Calling
            \/ pc[c] \in Streaming /\ pc'[c] \in Streaming
            \/ pc[c] = "enter" /\ pc'[c] \in Streaming /\ Serves(c, "GET")
  PROVE  McpInv' /\ [Promise!Next]_ledger
<1>1. /\ UNCHANGED <<key, turn, cur, recorded, agreed, lost, stopErr, transport>>
      /\ UNCHANGED <<asked, ran, told, runs, given>>
      /\ stage' = "exited" <=> stage = "exited"
  BY DEF ledger
<1>2. \A c \in Clients : Call(c)' = Call(c)
  BY <1>1 DEF Call, HttpCall, Entitled
<1>3. \A c \in Clients : /\ pc'[c] \in Busy <=> pc[c] \in Busy
                         /\ pc'[c] \in Calling <=> pc[c] \in Calling
                         /\ pc'[c] \in Streaming => pc[c] \in Streaming \/ Serves(c, "GET")
  BY DEF Busy, Calling, Streaming
<1>4. \A c \in Clients :
         /\ Dispatches(c)' <=> Dispatches(c)
         /\ Serves(c, "GET")' <=> Serves(c, "GET")
         /\ InvokesTool(Message(cur[c]))' <=> InvokesTool(Message(cur[c]))
         /\ Answers(Call(c))' <=> Answers(Call(c))
  BY <1>1, <1>2 DEF Dispatches, Serves, Reached, Admits, VersionOK, Decodes, InvokesTool, Message, Answers
<1>5. AskedInv'
  BY <1>1 DEF McpInv, AskedInv, stdioVars
<1>6. StdioTypeOK' /\ LineInv' /\ RanInv'
  BY <1>5, LoopIdle DEF McpInv, McpTypeOK
<1>7. McpTypeOK'
  BY <1>1, <1>6 DEF McpInv, McpTypeOK, HttpTypeOK
<1>8. BusyInv'
  BY <1>1, <1>2, <1>3, <1>4 DEF McpInv, BusyInv
<1>9. CountInv'
  <2>1. ASSUME NEW a \in asked, stage # "exited"
        PROVE  Counted(a)' \/ (pc'[a.from] \in Busy /\ a = Call(a.from)')
    <3>1. a.from \in Clients
      BY <2>1 DEF McpInv, AskedInv
    <3>2. Counted(a) => Counted(a)'
      BY <1>1 DEF Counted
    <3>3. QED
      BY <1>2, <1>3, <2>1, <3>1, <3>2 DEF McpInv, CountInv
  <2>2. CleanStopCounts'
    BY <1>1 DEF McpInv, CountInv, CleanStopCounts
  <2>3. QED
    BY <1>1, <2>1, <2>2 DEF McpInv, CountInv
<1>10. [Promise!Next]_ledger
  BY <1>1 DEF ledger
<1>11. QED
  BY <1>5, <1>6, <1>7, <1>8, <1>9, <1>10 DEF McpInv

\* When main returns, nobody is busy, or it says that the deadline was reached.
LEMMA ExitKeeps ==
  ASSUME McpInv, transport = "http", UNCHANGED <<transport, stdioVars, httpVars, ledger>>, IndInv',
         ShutdownReturns \/ ShutdownDeadline
  PROVE  McpInv' /\ [Promise!Next]_ledger
<1>1. /\ UNCHANGED <<key, turn, cur, late, recorded, agreed, lost, transport>>
      /\ UNCHANGED <<asked, ran, told, runs, given>>
      /\ stage = "draining" /\ stage' = "exited"
      /\ pc' = [c \in Clients |-> "away"]
      /\ stopErr' = "nil" => \A c \in Clients : pc[c] \notin Busy
  BY DEF ShutdownReturns, ShutdownDeadline, Exit, ledger, httpVars
<1>2. AskedInv'
  BY <1>1 DEF McpInv, AskedInv, stdioVars
<1>3. StdioTypeOK' /\ LineInv' /\ RanInv'
  BY <1>2, LoopIdle DEF McpInv, McpTypeOK
<1>4. McpTypeOK'
  BY <1>1, <1>3 DEF McpInv, McpTypeOK, HttpTypeOK
<1>5. BusyInv'
  BY <1>1 DEF McpInv, BusyInv, Busy, Calling, Streaming
<1>6. CountInv'
  <2>1. ASSUME stopErr' = "nil", NEW a \in asked
        PROVE  Counted(a)
    BY <1>1, <2>1 DEF McpInv, AskedInv, CountInv
  <2>2. CleanStopCounts'
    BY <1>1, <2>1 DEF CleanStopCounts, Counted
  <2>3. QED
    BY <1>1, <2>2 DEF McpInv, CountInv
<1>7. [Promise!Next]_ledger
  BY <1>1 DEF ledger
<1>8. QED
  BY <1>2, <1>3, <1>4, <1>5, <1>6, <1>7 DEF McpInv

\* Every step over HTTP keeps the invariant and the promise.
LEMMA HttpStep ==
  ASSUME McpInv, transport = "http", HttpNext, UNCHANGED <<transport, stdioVars>>, IndInv'
  PROVE  McpInv' /\ [Promise!Next]_ledger
<1>1. ASSUME NEW c \in Clients, NEW r \in HttpRequests[c], Arrive(c, r)
      PROVE  McpInv' /\ [Promise!Next]_ledger
  BY <1>1, ArriveKeeps
<1>2. ASSUME NEW c \in Clients,
             \/ Unguarded(c) \/ Unauthorized(c) \/ Scrape(c)
             \/ RefuseVersion(c) \/ OtherVerb(c) \/ RefuseBody(c) \/ Answer(c)
             \/ ToolReturns(c) \/ StreamOver(c)
      PROVE  McpInv' /\ [Promise!Next]_ledger
  <2>1. /\ \E status \in Statuses : Finishes(c, status)
        /\ agreed' \in [Clients -> Supported \cup {NoVersion}]
    BY <1>2, AnswersFinish, ReturnsFinish
  <2>2. stage # "exited"
    BY <1>2
       DEF Unguarded, Unauthorized, Scrape, RefuseVersion, OtherVerb, RefuseBody, Answer, ToolReturns,
           StreamOver, Silent, Refuse, AnswerAtOnce, CallReturns, PingFails, StreamEnds, Running
  <2>3. QED
    BY <2>1, <2>2, FinishKeeps DEF Statuses
<1>3. ASSUME NEW c \in Clients, Invoke(c)
      PROVE  McpInv' /\ [Promise!Next]_ledger
  BY <1>3, InvokeKeeps
<1>4. pc \in [Clients -> {"away", "idle"} \cup Busy] /\ late \subseteq Clients
  BY DEF McpInv, IndInv, TypeOK, McpTypeOK, HttpTypeOK
<1>5. ASSUME NEW c \in Clients, Stream(c) \/ Unseen(c)
      PROVE  McpInv' /\ [Promise!Next]_ledger
  <2>1. /\ UNCHANGED <<key, turn, cur, recorded, agreed, lost, stopErr, stage, late, ledger>>
        /\ \/ pc[c] = "enter" /\ pc' = [pc EXCEPT ![c] = "ping"] /\ Serves(c, "GET")
           \/ pc[c] = "ping" /\ pc' = [pc EXCEPT ![c] = "stream"]
           \/ pc[c] = "stream" /\ pc' = [pc EXCEPT ![c] = "ping"]
           \/ pc[c] = "attempt" /\ pc' = [pc EXCEPT ![c] = "backoff"]
           \/ pc[c] = "backoff" /\ pc' = [pc EXCEPT ![c] = "attempt"]
    BY <1>5 DEF Stream, Unseen, OpenStream, PingWritten, StreamTick, AttemptFails, BackoffElapses, Goto,
                httpVars
  <2>2. \A d \in Clients :
            \/ pc'[d] = pc[d]
            \/ pc[d] \in Calling /\ pc'[d] \in Calling
            \/ pc[d] \in Streaming /\ pc'[d] \in Streaming
            \/ pc[d] = "enter" /\ pc'[d] \in Streaming /\ Serves(d, "GET")
    BY <1>4, <2>1 DEF Calling, Streaming
  <2>3. QED
    BY <1>4, <2>1, <2>2, MoveKeeps
<1>6. ASSUME NEW c \in Clients, WriteTimeout(c)
      PROVE  McpInv' /\ [Promise!Next]_ledger
  <2>1. /\ UNCHANGED <<key, turn, cur, recorded, agreed, lost, stopErr, stage, pc, ledger>>
        /\ late' \subseteq Clients
    BY <1>4, <1>6 DEF WriteTimeout, vars
  <2>2. QED
    BY <2>1, MoveKeeps
<1>7. ASSUME Lifecycle
      PROVE  McpInv' /\ [Promise!Next]_ledger
  <2>1. CASE ShutdownReturns \/ ShutdownDeadline
    BY <1>7, <2>1, ExitKeeps DEF Lifecycle
  <2>2. CASE \/ \E c \in Clients : ClientGone(c)
             \/ Signal \/ StopEndsStreams \/ ShutdownBegins \/ HookRuns
    <3>1. UNCHANGED <<key, turn, cur, late, recorded, agreed, lost, stopErr, pc, ledger>>
      BY <1>7, <2>2
         DEF Lifecycle, httpVars, ClientGone, Signal, StopEndsStreams, ShutdownBegins, HookRuns
    <3>2. stage' = "exited" <=> stage = "exited"
      BY <2>2 DEF ClientGone, Signal, StopEndsStreams, ShutdownBegins, HookRuns
    <3>3. QED
      BY <1>4, <3>1, <3>2, MoveKeeps
  <2>3. QED
    BY <1>7, <2>1, <2>2 DEF Lifecycle
<1>8. QED
  BY <1>1, <1>2, <1>3, <1>5, <1>6, <1>7 DEF HttpNext, Serve

-----------------------------------------------------------------------------
(* Over standard input and output.                                         *)

\* The server of the other transport stays where it began.
LEMMA ServerIdle ==
  ASSUME McpInv, transport = "stdio", UNCHANGED <<transport, vars, httpVars>>
  PROVE  IndInv' /\ HttpTypeOK' /\ BusyInv' /\ CountInv'
<1>1. /\ UNCHANGED <<transport, stage, hook, chan, once, panicked, pc, tries, gone, stopErr>>
      /\ UNCHANGED <<key, turn, cur, late, recorded, agreed, lost>>
  BY DEF vars, httpVars
<1>2. stage = "serving" /\ recorded = {} /\ stopErr # "nil" /\ \A c \in Clients : pc[c] = "away"
  BY DEF McpInv, CountInv
<1>3. IndInv'
  BY NextInv DEF McpInv
<1>4. HttpTypeOK'
  BY <1>1 DEF McpInv, McpTypeOK, HttpTypeOK
<1>5. BusyInv'
  BY <1>1, <1>2 DEF McpInv, BusyInv, Busy, Calling, Streaming
<1>6. CountInv'
  BY <1>1, <1>2 DEF CountInv, CleanStopCounts
<1>7. QED
  BY <1>3, <1>4, <1>5, <1>6

\* Sequences that are read one by one.
LEMMA TailShape ==
  ASSUME NEW S, NEW s \in Seq(S), s # <<>>
  PROVE  /\ Head(s) = s[1] /\ 1 \in DOMAIN s /\ Head(s) \in S
         /\ Tail(s) \in Seq(S)
         /\ \A i \in DOMAIN Tail(s) : i + 1 \in DOMAIN s /\ i + 1 # 1 /\ Tail(s)[i] = s[i + 1]
  OBVIOUS

\* Sequences that are added to.
LEMMA AppendShape ==
  ASSUME NEW S, NEW s \in Seq(S), NEW e \in S
  PROVE  /\ Append(s, e) \in Seq(S)
         /\ \A i \in DOMAIN Append(s, e) :
               \/ i \in DOMAIN s /\ Append(s, e)[i] = s[i]
               \/ i = Len(s) + 1 /\ Append(s, e)[i] = e
         /\ \A i \in DOMAIN s : i \in DOMAIN Append(s, e) /\ Append(s, e)[i] = s[i]
         /\ Len(s) + 1 \in DOMAIN Append(s, e) /\ Append(s, e)[Len(s) + 1] = e
  OBVIOUS

\* A line that is read brings new calls.
LEMMA AsksKeep ==
  ASSUME McpInv, transport = "stdio", UNCHANGED <<transport, vars, httpVars>>,
         loop = "scan", lines' = lines + 1, loop' \in {"scan", "handle", "write", "failed"},
         loop' # "handle" => todo' = <<>>, loop' \notin {"write"} => replies' = <<>>,
         batch' \in BOOLEAN, UNCHANGED <<out, ran, told, runs, given>>,
         todo' \in Seq(StdioCalls), replies' \in Seq([call : StdioCalls, code : Codes]),
         asked \subseteq asked',
         \A a \in asked' \ asked : a \in StdioCalls /\ a.turn = lines + 1,
         \A i \in DOMAIN todo' : /\ todo'[i] \in asked' /\ todo'[i].turn = lines + 1
                                 /\ todo'[i].tool = InvokesTool(todo'[i].req),
         \A i, j \in DOMAIN todo' : todo'[i] = todo'[j] => i = j,
         \A i \in DOMAIN replies' :
            /\ replies'[i].call \in asked' /\ replies'[i].call.turn = lines + 1
            /\ replies'[i].call.wants /\ ~replies'[i].call.tool
            /\ replies'[i].code \in Codes \ {InternalError},
         \A i, j \in DOMAIN replies' : i = j
  PROVE  McpInv' /\ [Promise!Next]_ledger
<1>1. IndInv' /\ HttpTypeOK' /\ BusyInv' /\ CountInv'
  BY ServerIdle
<1>2. lines \in Nat /\ lines + 1 \in Nat
  BY DEF McpInv, McpTypeOK, StdioTypeOK
<1>3. \A a \in asked : a.from = Stdin /\ a.turn <= lines /\ a.turn \in Nat
  BY DEF McpInv, AskedInv, McpTypeOK, HttpCalls, StdioCalls
<1>4. \A a \in asked' : a.from = Stdin /\ a.turn <= lines'
  <2>1. ASSUME NEW a \in asked' \ asked
        PROVE  a.from = Stdin /\ a.turn <= lines'
    BY <1>2, <2>1 DEF StdioCalls
  <2>2. QED
    BY <1>2, <1>3, <2>1
<1>5. AskedInv'
  <2>1. recorded = {} /\ recorded' = recorded /\ transport' = "stdio"
    BY DEF McpInv, CountInv, httpVars
  <2>2. QED
    BY <1>4, <2>1 DEF McpInv, AskedInv
<1>6. McpTypeOK'
  BY <1>1, <1>2 DEF McpInv, McpTypeOK, StdioTypeOK
<1>7. \A a \in asked' : a.turn = lines + 1 => a \notin ran /\ ~Answers(a)
  BY <1>2, <1>3 DEF McpInv, AskedInv, Answers
<1>8. LineInv'
  <2>1. ASSUME NEW i \in DOMAIN todo'
        PROVE  /\ todo'[i] \in asked' \ ran' /\ ~(\E t \in told' : t.call = todo'[i])
               /\ todo'[i].turn = lines'
               /\ todo'[i].tool = InvokesTool(todo'[i].req)
    BY <1>7, <2>1 DEF Answers
  <2>2. ASSUME NEW i \in DOMAIN replies'
        PROVE  /\ replies'[i].call \in asked' /\ ~(\E t \in told' : t.call = replies'[i].call)
               /\ replies'[i].call.turn = lines' /\ replies'[i].call.wants
               /\ Truthful(replies[i].call, replies[i].code)'
    BY <1>7, <2>2 DEF Answers, Truthful
  <2>3. /\ transport' = transport
        /\ \A i \in DOMAIN todo', j \in DOMAIN replies' : todo'[i] # replies'[j].call
    OBVIOUS
  <2>4. QED
    BY <2>1, <2>2, <2>3 DEF LineInv, Answers
<1>9. RanInv'
  <2>1. \A a \in ran : a.wants => Answers(a)
    BY DEF McpInv, RanInv, LineInv
  <2>2. QED
    BY <2>1 DEF RanInv, OneLineBehind, Answers
<1>10. [Promise!Next]_ledger
  BY <1>6 DEF Promise!Next, Promise!Ask, McpTypeOK, StdioCalls
<1>11. QED
  BY <1>1, <1>5, <1>6, <1>8, <1>9, <1>10 DEF McpInv

\* The calls of a line that is read.
LEMMA ScanMessageKeeps ==
  ASSUME McpInv, transport = "stdio", UNCHANGED <<transport, vars, httpVars>>,
         NEW l \in Lines, ScanMessage(l)
  PROVE  McpInv' /\ [Promise!Next]_ledger
<1>1. /\ loop = "scan" /\ lines' = lines + 1 /\ loop' = "handle"
      /\ batch' = (l.form = "batch")
      /\ todo' = [i \in DOMAIN l.requests |-> LineCall(i, l.requests[i])]
      /\ asked' = asked \cup {todo'[i] : i \in DOMAIN todo'}
      /\ replies' = replies /\ UNCHANGED <<out, ran, told, runs, given>>
  BY DEF ScanMessage, Read, ToSet
<1>2. l.requests \in Seq(Request)
  BY StdioAssumption DEF Payload
<1>3. DOMAIN todo' = 1 .. Len(l.requests) /\ DOMAIN l.requests = 1 .. Len(l.requests)
  BY <1>1, <1>2
<1>4. lines \in Nat /\ lines + 1 \in Nat /\ replies = <<>>
  BY <1>1 DEF McpInv, McpTypeOK, StdioTypeOK, LineInv
<1>5. ASSUME NEW i \in DOMAIN todo'
      PROVE  /\ todo'[i] = LineCall(i, l.requests[i])
             /\ todo'[i] \in StdioCalls /\ todo'[i].turn = lines + 1 /\ todo'[i].pos = i
             /\ todo'[i].tool = InvokesTool(todo'[i].req)
  <2>1. i \in Nat /\ l.requests[i] \in Request
    BY <1>2, <1>3, <1>5
  <2>2. todo'[i] = LineCall(i, l.requests[i])
    BY <1>1, <1>3, <1>5
  <2>3. InvokesTool(l.requests[i]) \in BOOLEAN /\ (l.requests[i].id # 0) \in BOOLEAN
    BY DEF InvokesTool
  <2>4. LineCall(i, l.requests[i]) \in StdioCalls
    BY <1>4, <2>1, <2>3 DEF LineCall, StdioCalls
  <2>5. QED
    BY <2>2, <2>4 DEF LineCall
<1>6. todo' \in Seq(StdioCalls)
  <2>1. Len(l.requests) \in Nat
    BY <1>2
  <2>2. todo' \in [1 .. Len(l.requests) -> StdioCalls]
    BY <1>1, <1>3, <1>5
  <2>3. QED
    BY <2>1, <2>2
<1>7. /\ asked \subseteq asked'
      /\ \A a \in asked' \ asked : a \in StdioCalls /\ a.turn = lines + 1
      /\ \A i \in DOMAIN todo' : todo'[i] \in asked'
  BY <1>1, <1>5
<1>8. \A i, j \in DOMAIN todo' : todo'[i] = todo'[j] => i = j
  BY <1>5
<1>9. /\ replies' = <<>> /\ replies' \in Seq([call : StdioCalls, code : Codes])
      /\ DOMAIN replies' = {}
  BY <1>1, <1>4
<1>10. batch' \in BOOLEAN
  BY <1>1
<1>11. QED
  BY <1>1, <1>5, <1>6, <1>7, <1>8, <1>9, <1>10, AsksKeep

\* A line that does not decode is one call, which is answered.
LEMMA ScanGarbageKeeps ==
  ASSUME McpInv, transport = "stdio", UNCHANGED <<transport, vars, httpVars>>,
         NEW l \in Lines, ScanGarbage(l)
  PROVE  McpInv' /\ [Promise!Next]_ledger
<1> DEFINE answer == [call |-> BadCall, code |-> ParseError]
<1>1. /\ loop = "scan" /\ lines' = lines + 1 /\ loop' = "write" /\ batch' = FALSE
      /\ replies' = <<answer>> /\ asked' = asked \cup {BadCall}
      /\ todo' = todo /\ UNCHANGED <<out, ran, told, runs, given>>
  BY DEF ScanGarbage, Read
<1>2. lines \in Nat /\ lines + 1 \in Nat /\ todo = <<>>
  BY <1>1 DEF McpInv, McpTypeOK, StdioTypeOK, LineInv
<1>3. /\ BadCall \in StdioCalls /\ BadCall.turn = lines + 1 /\ BadCall.wants /\ ~BadCall.tool
  <2>1. [id |-> 0, method |-> "other", arg |-> "none"] \in Request
    BY DEF Request, Methods, Args
  <2>2. QED
    BY <1>2, <2>1 DEF BadCall, StdioCalls
<1>4. ParseError \in Codes \ {InternalError} /\ ParseError \in Codes
  BY CodesDistinct
<1>5. answer \in [call : StdioCalls, code : Codes] /\ answer.call = BadCall
      /\ answer.code = ParseError
  BY <1>3, <1>4
<1> HIDE DEF answer
<1>6. /\ replies' \in Seq([call : StdioCalls, code : Codes])
      /\ \A i \in DOMAIN replies' : i = 1 /\ replies'[i] = answer
  BY <1>1, <1>5
<1>7. todo' \in Seq(StdioCalls) /\ DOMAIN todo' = {} /\ todo' = <<>>
  BY <1>1, <1>2
<1>8. \A i \in DOMAIN replies' :
         /\ replies'[i].call \in asked' /\ replies'[i].call.turn = lines + 1
         /\ replies'[i].call.wants /\ ~replies'[i].call.tool
         /\ replies'[i].code \in Codes \ {InternalError}
  BY <1>1, <1>3, <1>4, <1>5, <1>6
<1>9. /\ asked \subseteq asked'
      /\ \A a \in asked' \ asked : a \in StdioCalls /\ a.turn = lines + 1
  BY <1>1, <1>3
<1>10. QED
  BY <1>1, <1>6, <1>7, <1>8, <1>9, AsksKeep

\* A line that brings no call.
LEMMA ScanNothingKeeps ==
  ASSUME McpInv, transport = "stdio", UNCHANGED <<transport, vars, httpVars>>,
         NEW l \in Lines, ScanBlank(l) \/ ScanTooLong(l)
  PROVE  McpInv' /\ [Promise!Next]_ledger
<1>1. /\ loop = "scan" /\ lines' = lines + 1 /\ loop' \in {"scan", "failed"}
      /\ UNCHANGED <<batch, todo, replies, out, asked, ran, told, runs, given>>
  BY DEF ScanBlank, ScanTooLong, Read, ledger
<1>2. /\ todo = <<>> /\ replies = <<>> /\ DOMAIN todo = {} /\ DOMAIN replies = {}
      /\ batch \in BOOLEAN
      /\ todo \in Seq(StdioCalls) /\ replies \in Seq([call : StdioCalls, code : Codes])
  BY <1>1 DEF McpInv, McpTypeOK, StdioTypeOK, LineInv
<1>3. QED
  BY <1>1, <1>2, AsksKeep

\* A step that only moves the loop.
LEMMA LoopMoves ==
  ASSUME McpInv, transport = "stdio", UNCHANGED <<transport, vars, httpVars>>,
         UNCHANGED <<batch, todo, replies, out, lines, ledger>>,
         \/ loop' \in {"eof", "failed", "killed"}
         \/ loop = "handle" /\ loop' = "scan" /\ todo = <<>> /\ replies = <<>>
  PROVE  McpInv' /\ [Promise!Next]_ledger
<1>1. IndInv' /\ HttpTypeOK' /\ BusyInv' /\ CountInv'
  BY ServerIdle
<1>2. UNCHANGED <<transport, asked, ran, told, runs, given, turn, recorded>>
  BY DEF ledger, httpVars
<1>3. AskedInv'
  BY <1>2 DEF McpInv, AskedInv
<1>4. LineInv'
  BY <1>2 DEF McpInv, LineInv, Answers, Truthful
<1>5. McpTypeOK'
  BY <1>1, <1>2 DEF McpInv, McpTypeOK, StdioTypeOK
<1>6. RanInv'
  BY <1>2 DEF McpInv, RanInv, OneLineBehind, Answers
<1>7. QED
  BY <1>1, <1>2, <1>3, <1>4, <1>5, <1>6 DEF McpInv, ledger

\* A call that is handled leaves its answer behind, if it wants one.
LEMMA HandleRequestKeeps ==
  ASSUME McpInv, transport = "stdio", UNCHANGED <<transport, vars, httpVars>>, HandleRequest
  PROVE  McpInv' /\ [Promise!Next]_ledger
<1> DEFINE h == Head(todo)
<1>1. /\ loop = "handle" /\ todo # <<>> /\ todo' = Tail(todo) /\ loop' = loop
      /\ ran' = IF h.tool THEN ran \cup {h} ELSE ran
      /\ runs' = IF h.tool THEN runs + 1 ELSE runs
      /\ UNCHANGED <<transport, batch, out, lines, asked, told, given, turn, recorded>>
  BY DEF HandleRequest, Start, httpVars
<1>2. PICK code \in Replies(h.req) :
         replies' = IF h.wants THEN Append(replies, [call |-> h, code |-> code]) ELSE replies
  BY DEF HandleRequest
<1> DEFINE answer == [call |-> h, code |-> code]
<1>3. /\ todo \in Seq(StdioCalls) /\ replies \in Seq([call : StdioCalls, code : Codes])
      /\ Len(replies) \in Nat
  BY DEF McpInv, McpTypeOK, StdioTypeOK
<1>4. /\ h = todo[1] /\ 1 \in DOMAIN todo /\ h \in StdioCalls
      /\ todo' \in Seq(StdioCalls)
      /\ \A i \in DOMAIN todo' : i + 1 \in DOMAIN todo /\ i + 1 # 1 /\ todo'[i] = todo[i + 1]
                               /\ i \in Nat
  BY <1>1, <1>3, TailShape
<1>5. /\ h \in asked /\ h \notin ran /\ ~Answers(h) /\ h.turn = lines
      /\ h.tool = InvokesTool(h.req)
  BY <1>4 DEF McpInv, LineInv
<1> HIDE DEF h
<1>6. code \in Codes /\ answer \in [call : StdioCalls, code : Codes]
      /\ answer.call = h /\ answer.code = code
  BY <1>2, <1>4, RepliesTruthful
<1>7. IF h.tool THEN h \in ran' /\ code \in {Result, InternalError}
      ELSE code \in Codes \ {InternalError}
  BY <1>1, <1>2, <1>5, RepliesTruthful
<1> HIDE DEF answer
<1>8. /\ replies' \in Seq([call : StdioCalls, code : Codes])
      /\ \A i \in DOMAIN replies' :
            \/ i \in DOMAIN replies /\ replies'[i] = replies[i]
            \/ i = Len(replies) + 1 /\ replies'[i] = answer /\ h.wants
      /\ \A i \in DOMAIN replies : i \in DOMAIN replies' /\ replies'[i] = replies[i]
      /\ h.wants => Len(replies) + 1 \in DOMAIN replies' /\ replies'[Len(replies) + 1] = answer
  <2>1. replies' = IF h.wants THEN Append(replies, answer) ELSE replies
    BY <1>2 DEF answer
  <2>2. CASE h.wants
    <3>1. replies' = Append(replies, answer)
      BY <2>1, <2>2
    <3>2. QED
      BY <1>3, <1>6, <2>2, <3>1, AppendShape
  <2>3. CASE ~h.wants
    BY <1>3, <2>1, <2>3
  <2>4. QED
    BY <2>2, <2>3
<1>9. IndInv' /\ HttpTypeOK' /\ BusyInv' /\ CountInv'
  BY ServerIdle
<1>10. AskedInv'
  BY <1>1, <1>5 DEF McpInv, AskedInv
<1>11. McpTypeOK'
  BY <1>1, <1>4, <1>5, <1>8, <1>9 DEF McpInv, McpTypeOK, StdioTypeOK
<1>12. LineInv'
  <2>1. ASSUME NEW i \in DOMAIN todo'
        PROVE  /\ todo'[i] \in asked' \ ran' /\ ~(\E t \in told' : t.call = todo'[i])
               /\ todo'[i].turn = lines'
               /\ todo'[i].tool = InvokesTool(todo'[i].req)
               /\ todo'[i] # h
    <3>1. todo'[i] # h
      BY <1>4, <2>1 DEF McpInv, LineInv
    <3>2. QED
      BY <1>1, <1>4, <2>1, <3>1 DEF McpInv, LineInv, Answers
  <2>2. ASSUME NEW i \in DOMAIN todo', NEW j \in DOMAIN todo', todo'[i] = todo'[j]
        PROVE  i = j
    <3>1. i + 1 = j + 1
      BY <1>4, <2>2 DEF McpInv, LineInv
    <3>2. QED
      BY <1>4, <3>1
  <2>3. ASSUME NEW i \in DOMAIN replies'
        PROVE  /\ replies'[i].call \in asked' /\ ~(\E t \in told' : t.call = replies'[i].call)
               /\ replies'[i].call.turn = lines' /\ replies'[i].call.wants
               /\ Truthful(replies[i].call, replies[i].code)'
    <3>1. CASE i \in DOMAIN replies /\ replies'[i] = replies[i]
      <4>1. /\ replies[i].call \in asked /\ ~Answers(replies[i].call)
            /\ replies[i].call.turn = lines /\ replies[i].call.wants
            /\ Truthful(replies[i].call, replies[i].code)
        BY <3>1 DEF McpInv, LineInv
      <4>2. ran \subseteq ran'
        BY <1>1
      <4>3. QED
        BY <1>1, <3>1, <4>1, <4>2 DEF Answers, Truthful
    <3>2. CASE replies'[i] = answer /\ h.wants
      BY <1>1, <1>5, <1>6, <1>7, <3>2 DEF Answers, Truthful
    <3>3. QED
      BY <1>8, <2>3, <3>1, <3>2
  <2>4. \A i \in DOMAIN replies : replies[i].call # h
    BY <1>4 DEF McpInv, LineInv
  <2>5. ASSUME NEW i \in DOMAIN replies', NEW j \in DOMAIN replies',
               replies'[i].call = replies'[j].call
        PROVE  i = j
    BY <1>6, <1>8, <2>4, <2>5 DEF McpInv, LineInv
  <2>6. ASSUME NEW i \in DOMAIN todo', NEW j \in DOMAIN replies'
        PROVE  todo'[i] # replies'[j].call
    BY <1>4, <1>6, <1>8, <2>1, <2>6 DEF McpInv, LineInv
  <2>7. loop' = "handle" /\ transport' = transport
    BY <1>1
  <2>8. QED
    BY <2>1, <2>2, <2>3, <2>5, <2>6, <2>7 DEF McpInv, LineInv, Answers
<1>13. RanInv'
  <2>1. ASSUME NEW a \in ran', a.wants
        PROVE  (\E t \in told' : t.call = a) \/ \E i \in DOMAIN replies' : replies'[i].call = a
    <3>1. CASE a \in ran
      BY <1>1, <1>8, <2>1, <3>1 DEF McpInv, RanInv, Answers
    <3>2. CASE a = h
      BY <1>6, <1>8, <2>1, <3>2
    <3>3. QED
      BY <1>1, <2>1, <3>1, <3>2
  <2>2. OneLineBehind'
    BY <1>1, <1>5 DEF McpInv, RanInv, OneLineBehind
  <2>3. QED
    BY <2>1, <2>2 DEF RanInv, Answers
<1>14. [Promise!Next]_ledger
  <2>1. CASE ~h.tool
    BY <1>1, <2>1 DEF ledger
  <2>2. CASE h.tool
    <3>1. Promise!Run(h)
      BY <1>1, <1>5, <2>2 DEF Promise!Run, Promise!Told, Answers
    <3>2. QED
      BY <1>5, <3>1 DEF Promise!Next
  <2>3. QED
    BY <2>1, <2>2
<1>15. QED
  BY <1>9, <1>10, <1>11, <1>12, <1>13, <1>14 DEF McpInv

\* The answers of a line are given together.
LEMMA WriteKeeps ==
  ASSUME McpInv, transport = "stdio", UNCHANGED <<transport, vars, httpVars>>, Write
  PROVE  McpInv' /\ [Promise!Next]_ledger
<1>1. /\ loop \in {"handle", "write"} /\ todo = <<>> /\ loop' = "scan" /\ replies' = <<>>
      /\ out' = Append(out, [batch |-> batch, answers |-> replies])
      /\ told' = told \cup {replies[i] : i \in DOMAIN replies}
      /\ given' = given + Len(replies)
      /\ UNCHANGED <<transport, batch, todo, lines, asked, ran, runs, turn, recorded>>
  BY DEF McpInv, LineInv, Write, ToSet, httpVars
<1>2. IndInv' /\ HttpTypeOK' /\ BusyInv' /\ CountInv'
  BY ServerIdle
<1>3. replies \in Seq([call : StdioCalls, code : Codes]) /\ batch \in BOOLEAN
  BY DEF McpInv, McpTypeOK, StdioTypeOK
<1>4. \A i \in DOMAIN replies : replies[i] \in [call : StdioCalls, code : Codes]
  BY <1>3, ElementType
<1>5. AskedInv'
  BY <1>1 DEF McpInv, AskedInv, LineInv
<1>6. McpTypeOK'
  <2>1. [batch |-> batch, answers |-> replies] \in
            [batch : BOOLEAN, answers : Seq([call : StdioCalls, code : Codes])]
    BY <1>3
  <2>2. out' \in Seq([batch : BOOLEAN, answers : Seq([call : StdioCalls, code : Codes])])
    BY <1>1, <2>1, AppendShape DEF McpInv, McpTypeOK, StdioTypeOK
  <2>3. told' \subseteq [call : HttpCalls \cup StdioCalls, code : Codes]
    BY <1>1, <1>4 DEF McpInv, McpTypeOK
  <2>4. given' \in Nat
    BY <1>1, <1>3 DEF McpInv, McpTypeOK
  <2>5. QED
    BY <1>1, <1>2, <2>2, <2>3, <2>4 DEF McpInv, McpTypeOK, StdioTypeOK
<1>7. LineInv'
  BY <1>1 DEF McpInv, LineInv
<1>8. RanInv'
  <2>1. \A a \in ran : a.wants => \E t \in told' : t.call = a
    BY <1>1 DEF McpInv, RanInv, Answers
  <2>2. QED
    BY <1>1, <2>1 DEF RanInv, OneLineBehind, Answers
<1>9. Promise!Tell
  <2>1. \A t \in told' \ told : \E i \in DOMAIN replies : t = replies[i]
    BY <1>1
  <2>2. \A t \in told' \ told :
            t.call \in asked /\ t.call.wants /\ ~Answers(t.call) /\ Truthful(t.call, t.code)
    BY <2>1 DEF McpInv, LineInv
  <2>3. \A t, u \in told' \ told : t.call = u.call => t = u
    BY <2>1 DEF McpInv, LineInv
  <2>4. told' \ told = {replies[i] : i \in 1 .. Len(replies)}
    <3>1. \A i \in DOMAIN replies : replies[i] \notin told
      BY DEF McpInv, LineInv, Answers
    <3>2. DOMAIN replies = 1 .. Len(replies)
      BY <1>3
    <3>3. QED
      BY <1>1, <3>1, <3>2
  <2>5. Cardinality(told' \ told) = Len(replies)
    <3>1. DOMAIN replies = 1 .. Len(replies) /\ Len(replies) \in Nat
      BY <1>3
    <3>2. \A i, j \in 1 .. Len(replies) : replies[i] = replies[j] => i = j
      BY <3>1 DEF McpInv, LineInv
    <3>3. QED
      BY <2>4, <3>1, <3>2, ImageCount
  <2>6. QED
    BY <1>1, <2>2, <2>3, <2>5, TellingTruth
<1>10. QED
  BY <1>2, <1>5, <1>6, <1>7, <1>8, <1>9 DEF McpInv, Promise!Next

\* Every step over standard input and output keeps the invariant and the promise.
LEMMA StdioStep ==
  ASSUME McpInv, transport = "stdio", StdioNext, UNCHANGED <<transport, vars, httpVars>>
  PROVE  McpInv' /\ [Promise!Next]_ledger
<1>1. CASE ScanEnd \/ NothingToWrite \/ WriteFails \/ Kill
  <2>1. /\ UNCHANGED <<batch, todo, replies, out, lines, ledger>>
        /\ \/ loop' \in {"eof", "failed", "killed"}
           \/ loop = "handle" /\ loop' = "scan" /\ todo = <<>> /\ replies = <<>>
    BY <1>1 DEF ScanEnd, NothingToWrite, WriteFails, Kill
  <2>2. QED
    BY <2>1, LoopMoves
<1>2. QED
  BY <1>1, ScanMessageKeeps, ScanGarbageKeeps, ScanNothingKeeps, HandleRequestKeeps, WriteKeeps
     DEF StdioNext, HandleLine

-----------------------------------------------------------------------------
(* Both.                                                                   *)

\* The program starts in the invariant.
LEMMA McpStarts == McpInit => McpInv
<1>1. SUFFICES ASSUME McpInit PROVE McpInv
  OBVIOUS
<1>2. IndInv
  BY <1>1, InitInv DEF McpInit, HttpInit
<1>3. \A c \in Clients : cur[c] \in HttpRequests[c] /\ cur[c] \in HttpRequest
  BY <1>1, HttpAssumption DEF McpInit, HttpInit
<1>4. /\ transport \in {"stdio", "http"} /\ asked = {} /\ ran = {} /\ told = {} /\ recorded = {}
      /\ runs = 0 /\ given = 0
      /\ loop = "scan" /\ batch = FALSE /\ todo = <<>> /\ replies = <<>> /\ out = <<>> /\ lines = 0
      /\ stage = "serving" /\ stopErr = "none" /\ \A c \in Clients : pc[c] = "away"
  BY <1>1 DEF McpInit, HttpInit, StdioInit, Init
<1>5. HttpTypeOK
  BY <1>1, <1>3 DEF McpInit, HttpInit, HttpTypeOK
<1>6. McpTypeOK
  <2>1. StdioTypeOK
    <3>1. \A S : <<>> \in Seq(S)
      OBVIOUS
    <3>2. QED
      BY <1>4, <3>1 DEF StdioTypeOK
  <2>2. QED
    BY <1>4, <1>5, <2>1 DEF McpTypeOK
<1>7. AskedInv /\ LineInv /\ RanInv
  BY <1>4 DEF AskedInv, LineInv, RanInv, OneLineBehind
<1>8. BusyInv /\ CountInv
  BY <1>3, <1>4 DEF BusyInv, CountInv, CleanStopCounts, Busy, Calling, Streaming
<1>9. QED
  BY <1>2, <1>6, <1>7, <1>8 DEF McpInv

\* Every step keeps the invariant and the promise.
LEMMA McpStep == McpInv /\ [McpNext]_allVars => McpInv' /\ [Promise!Next]_ledger
<1>1. SUFFICES ASSUME McpInv, [McpNext]_allVars PROVE McpInv' /\ [Promise!Next]_ledger
  OBVIOUS
<1>2. IndInv'
  BY <1>1, StepsAreServers, NextInv DEF McpInv
<1>3. CASE transport = "http" /\ HttpNext /\ UNCHANGED <<transport, stdioVars>>
  BY <1>1, <1>2, <1>3, HttpStep
<1>4. CASE transport = "stdio" /\ StdioNext /\ UNCHANGED <<transport, vars, httpVars>>
  BY <1>1, <1>4, StdioStep
<1>5. CASE UNCHANGED allVars
  <2>1. UNCHANGED <<transport, loop, batch, todo, replies, out, lines, asked, ran, told,
                    runs, given>>
    BY <1>5 DEF allVars, stdioVars, ledger
  <2>2. /\ UNCHANGED <<stage, pc, stopErr>>
        /\ UNCHANGED <<key, turn, cur, late, recorded, agreed, lost>>
    BY <1>5 DEF allVars, vars, httpVars
  <2>3. McpTypeOK' /\ AskedInv' /\ RanInv'
    BY <1>1, <2>1, <2>2
       DEF McpInv, McpTypeOK, HttpTypeOK, StdioTypeOK, AskedInv, RanInv, OneLineBehind, Answers
  <2>4. LineInv'
    BY <1>1, <2>1 DEF McpInv, LineInv, Answers, Truthful
  <2>5. BusyInv'
    <3>1. \A c \in Clients :
             /\ Call(c)' = Call(c)
             /\ Dispatches(c)' = Dispatches(c)
             /\ Serves(c, "GET")' = Serves(c, "GET")
      BY <2>2 DEF Call, HttpCall, Entitled, Dispatches, Serves, Reached, Admits
    <3>2. \A x : Answers(x)' <=> Answers(x)
      BY <2>1 DEF Answers
    <3>3. QED
      BY <1>1, <2>1, <2>2, <3>1, <3>2 DEF McpInv, BusyInv
  <2>6. CountInv'
    BY <1>1, <2>1, <2>2
       DEF McpInv, CountInv, CleanStopCounts, Counted, Call, HttpCall, Entitled
  <2>7. QED
    BY <1>2, <2>1, <2>3, <2>4, <2>5, <2>6 DEF McpInv, ledger
<1>6. QED
  BY <1>1, <1>3, <1>4, <1>5 DEF McpNext

\* The invariant always holds.
LEMMA McpInvariance == McpSpec => []McpInv
<1>1. McpInv /\ [McpNext]_allVars => McpInv'
  BY McpStep
<1>2. QED
  BY <1>1, McpStarts, PTL DEF McpSpec

\* The call has the answer it wants, or nobody was left to write it to.
Settled(a) == a.wants => Answers(a) \/ a \in lost

\* What was asked over HTTP is settled, or its connection is busy with it.
SettleInv ==
    /\ transport = "http" /\ stage # "exited" =>
          \A a \in asked : Settled(a) \/ (pc[a.from] \in Busy /\ a = Call(a.from))
    /\ CleanStopAnswers

\* A finished request is settled.
LEMMA FinishSettles ==
  ASSUME McpInv, SettleInv, transport = "http", stage # "exited", NEW c \in Clients, NEW status,
         Finishes(c, status)
  PROVE  SettleInv'
<1>1. /\ told \subseteq told' /\ lost \subseteq lost'
      /\ UNCHANGED <<stage, stopErr, asked, key, turn, cur>>
      /\ \A d \in Clients \ {c} : pc'[d] = pc[d]
      /\ stopErr # "nil"
  BY DEF McpInv, IndInv, TypeOK, CountInv, Finishes, Finish, HandlerReturns
<1>2. \A a : Settled(a) => Settled(a)'
  BY <1>1 DEF Settled, Answers
<1>3. ASSUME NEW a, a = Call(c)
      PROVE  Settled(a)'
  <2>1. CASE Lost(c)
    BY <1>3, <2>1 DEF Finishes, Finish, Settled
  <2>2. CASE ~Call(c).wants
    BY <1>3, <2>2 DEF Settled
  <2>3. ASSUME NEW code, told' = told \cup {[call |-> Call(c), code |-> code]}
        PROVE  Settled(a)'
    <3>1. [call |-> Call(c), code |-> code].call = a
      BY <1>3
    <3>2. QED
      BY <2>3, <3>1 DEF Settled, Answers
  <2>4. QED
    BY <2>1, <2>2, <2>3 DEF Finishes
<1>4. ASSUME NEW a \in asked, pc[a.from] \in Busy, a = Call(a.from)
      PROVE  Settled(a)' \/ (pc'[a.from] \in Busy /\ a = Call(a.from)')
  <2>1. CASE a.from = c
    BY <1>1, <1>3, <1>4, <2>1 DEF Call, HttpCall, Entitled
  <2>2. CASE a.from # c
    <3>1. a.from \in Clients
      BY DEF McpInv, AskedInv
    <3>2. Call(a.from)' = Call(a.from)
      BY <1>1 DEF Call, HttpCall, Entitled
    <3>3. QED
      BY <1>1, <1>4, <2>2, <3>1, <3>2
  <2>3. QED
    BY <2>1, <2>2
<1>5. QED
  BY <1>1, <1>2, <1>4 DEF SettleInv, CleanStopAnswers

\* A step that answers nothing and lets no handler return settles nothing.
LEMMA BusyStaysUnsettled ==
  ASSUME McpInv, SettleInv, transport = "http", stage # "exited",
         UNCHANGED <<key, lost, stopErr, told>>, asked \subseteq asked',
         NEW c, \A d \in Clients : pc[d] \in Busy => /\ pc'[d] \in Busy
                                             /\ turn'[d] = turn[d] /\ cur'[d] = cur[d],
         \A a \in asked' \ asked : a.from = c /\ pc'[c] \in Busy /\ a = Call(c)'
  PROVE  SettleInv'
<1>1. stopErr' # "nil"
  BY DEF McpInv, CountInv
<1>2. ASSUME NEW a \in asked'
      PROVE  Settled(a)' \/ (pc'[a.from] \in Busy /\ a = Call(a.from)')
  <2>1. CASE a \in asked /\ Settled(a)
    BY <2>1 DEF Settled, Answers
  <2>2. CASE a \in asked /\ pc[a.from] \in Busy /\ a = Call(a.from)
    <3>1. a.from \in Clients
      BY <2>2 DEF McpInv, AskedInv
    <3>2. Call(a.from)' = Call(a.from)
      BY <2>2, <3>1 DEF Call, HttpCall, Entitled
    <3>3. QED
      BY <2>2, <3>1, <3>2
  <2>3. QED
    BY <1>2, <2>1, <2>2 DEF SettleInv
<1>3. QED
  BY <1>1, <1>2 DEF SettleInv, CleanStopAnswers

\* When main returns without an error, every call is settled.
LEMMA ExitSettles ==
  ASSUME McpInv, SettleInv, transport = "http", UNCHANGED <<transport, httpVars, ledger>>,
         ShutdownReturns \/ ShutdownDeadline
  PROVE  SettleInv'
<1>1. /\ UNCHANGED <<lost, asked, told>>
      /\ stage = "draining" /\ stage' = "exited"
      /\ stopErr' = "nil" => \A c \in Clients : pc[c] \notin Busy
  BY DEF ShutdownReturns, ShutdownDeadline, Exit, ledger, httpVars
<1>2. ASSUME stopErr' = "nil", NEW a \in asked
      PROVE  Settled(a)
  BY <1>1, <1>2 DEF McpInv, AskedInv, SettleInv
<1>3. QED
  BY <1>1, <1>2 DEF SettleInv, CleanStopAnswers, Settled, Answers

\* Every step settles what it ends.
LEMMA SettleStep ==
  ASSUME McpInv, SettleInv, [McpNext]_allVars, McpInv'
  PROVE  SettleInv'
<1>1. CASE UNCHANGED allVars
  <2>1. UNCHANGED <<transport, stage, stopErr, pc, key, turn, cur, lost, asked, told>>
    BY <1>1 DEF allVars, vars, httpVars, ledger
  <2>2. QED
    BY <2>1 DEF SettleInv, CleanStopAnswers, Settled, Answers, Call, HttpCall, Entitled
<1>2. CASE transport = "stdio" /\ transport' = transport
  BY <1>2 DEF McpInv, CountInv, SettleInv, CleanStopAnswers
<1>3. CASE transport = "http" /\ HttpNext /\ UNCHANGED <<transport, stdioVars>>
  <2>1. pc \in [Clients -> {"away", "idle"} \cup Busy] /\ turn \in [Clients -> Nat]
        /\ cur \in [Clients -> HttpRequest]
    BY DEF McpInv, IndInv, TypeOK, McpTypeOK, HttpTypeOK
  <2>2. ASSUME NEW c \in Clients, NEW r \in HttpRequests[c], Arrive(c, r)
        PROVE  SettleInv'
    <3>1. /\ asked' = asked \cup {HttpCall(c, turn[c] + 1, r)}
          /\ turn' = [turn EXCEPT ![c] = @ + 1] /\ cur' = [cur EXCEPT ![c] = r]
          /\ pc' = [pc EXCEPT ![c] = "enter"] /\ pc[c] \notin Busy
          /\ UNCHANGED <<key, lost, stopErr, told>> /\ stage # "exited"
      BY <2>2 DEF Arrive, Connect, NextRequest, Goto, Listening, Running, Busy, Streaming, Calling
    <3>2. HttpCall(c, turn[c] + 1, r).from = c /\ Call(c)' = HttpCall(c, turn[c] + 1, r)
      BY <2>1, <3>1, CallFields DEF Call, HttpCall, Entitled
    <3>3. pc'[c] \in Busy
      BY <2>1, <3>1 DEF Busy
    <3>4. \A d \in Clients : pc[d] \in Busy => /\ pc'[d] \in Busy
                                              /\ turn'[d] = turn[d] /\ cur'[d] = cur[d]
      BY <2>1, <3>1
    <3>5. QED
      BY <1>3, <3>1, <3>2, <3>3, <3>4, BusyStaysUnsettled
  <2>3. ASSUME NEW c \in Clients,
               \/ Unguarded(c) \/ Unauthorized(c) \/ Scrape(c)
               \/ RefuseVersion(c) \/ OtherVerb(c) \/ RefuseBody(c) \/ Answer(c)
               \/ ToolReturns(c) \/ StreamOver(c)
        PROVE  SettleInv'
    <3>1. \E status \in Statuses : Finishes(c, status)
      BY <1>3, <2>3, AnswersFinish, ReturnsFinish
    <3>2. stage # "exited"
      BY <2>3
         DEF Unguarded, Unauthorized, Scrape, RefuseVersion, OtherVerb, RefuseBody, Answer, ToolReturns,
             StreamOver, Silent, Refuse, AnswerAtOnce, CallReturns, PingFails, StreamEnds, Running
    <3>3. QED
      BY <1>3, <3>1, <3>2, FinishSettles
  <2>4. ASSUME UNCHANGED <<key, turn, cur, lost, stopErr, asked, told>>, stage # "exited",
               \A d \in Clients : pc[d] \in Busy => pc'[d] \in Busy
        PROVE  SettleInv'
    BY <1>3, <2>4, BusyStaysUnsettled
  <2>5. ASSUME NEW c \in Clients, Invoke(c) \/ Stream(c) \/ Unseen(c) \/ WriteTimeout(c)
        PROVE  SettleInv'
    <3>1. /\ UNCHANGED <<key, turn, cur, lost, stopErr, asked, told>> /\ stage # "exited"
          /\ pc' = pc \/ \E to \in Busy : pc' = [pc EXCEPT ![c] = to]
      BY <2>5 DEF Invoke, Stream, Unseen, WriteTimeout, BeginCall, OpenStream, PingWritten, StreamTick,
                  AttemptFails, BackoffElapses, Goto, Running, Busy, Streaming, Calling, httpVars, vars,
                  ledger
    <3>2. QED
      BY <2>1, <2>4, <3>1
  <2>6. CASE Lifecycle
    <3>1. CASE ShutdownReturns \/ ShutdownDeadline
      BY <1>3, <2>6, <3>1, ExitSettles DEF Lifecycle
    <3>2. CASE \/ \E c \in Clients : ClientGone(c)
               \/ Signal \/ StopEndsStreams \/ ShutdownBegins \/ HookRuns
      <4>1. UNCHANGED <<key, turn, cur, lost, stopErr, pc, asked, told>> /\ stage # "exited"
        BY <2>6, <3>2
           DEF Lifecycle, httpVars, ledger, ClientGone, Signal, StopEndsStreams, ShutdownBegins,
               HookRuns, Running
      <4>2. QED
        BY <2>4, <4>1
    <3>3. QED
      BY <2>6, <3>1, <3>2 DEF Lifecycle
  <2>7. QED
    BY <1>3, <2>2, <2>3, <2>5, <2>6 DEF HttpNext, Serve
<1>4. QED
  BY <1>1, <1>2, <1>3 DEF McpNext

\* When Stop reports success, every call that wants an answer has it, or had nobody left
\* to write it to (CHANGELOG.md:21): a stop cuts no call short.
THEOREM CleanStopHasAnswered == McpSpec => []CleanStopAnswers
<1>1. McpInit => SettleInv
  BY DEF McpInit, HttpInit, SettleInv, CleanStopAnswers
<1>2. McpInv /\ McpInv' /\ SettleInv /\ [McpNext]_allVars => SettleInv'
  BY SettleStep
<1>3. SettleInv => CleanStopAnswers
  BY DEF SettleInv
<1>4. QED
  BY <1>1, <1>2, <1>3, McpInvariance, PTL DEF McpSpec

\* The state always has its types.
THEOREM McpTypeCorrect == McpSpec => []McpTypeOK
<1>1. McpInv => McpTypeOK
  BY DEF McpInv
<1>2. QED
  BY <1>1, McpInvariance, PTL

\* The HTTP side of the program is the server of Server: what is proved of that one
\* holds of the program with its requests, keys and answers.
THEOREM McpImplementsServer == McpSpec => Spec
<1>1. McpInit => Init
  BY DEF McpInit, HttpInit
<1>2. QED
  BY <1>1, StepsAreServers, PTL DEF McpSpec, Spec

\* The program keeps the promise of Ledger to its clients, over either transport.
THEOREM McpKeepsPromise == McpSpec => KeepsPromise
<1>1. McpInit => Promise!Init
  BY DEF McpInit, Promise!Init
<1>2. McpInv /\ [McpNext]_allVars => [Promise!Next]_ledger
  BY McpStep
<1>3. QED
  BY <1>1, <1>2, McpInvariance, PTL DEF McpSpec, KeepsPromise, Promise!Spec, Promise!ledger, ledger

\* The middleware lets nobody open a stream or run a tool without the configured key.
THEOREM ServedAlwaysHasKey == McpSpec => []ServedHasKey
<1>1. ASSUME McpInv, NEW c \in Clients, pc[c] \in Streaming \cup Calling
      PROVE  /\ key # NoKey
             /\ cur[c].apiKey = key \/ (cur[c].apiKey = NoKey /\ cur[c].bearer = key)
  <2>1. Admits(cur[c])
    BY <1>1 DEF McpInv, BusyInv, Busy, Dispatches, Serves, Reached
  <2>2. QED
    BY <2>1 DEF Admits, ExtractKey
<1>2. McpInv => ServedHasKey
  BY <1>1 DEF ServedHasKey
<1>3. QED
  BY <1>2, McpInvariance, PTL

\* After a clean stop RecordHTTPRequest has counted every request once.
THEOREM CleanStopHasCounted == McpSpec => []CleanStopCounts
<1>1. McpInv => CleanStopCounts
  BY DEF McpInv, CountInv
<1>2. QED
  BY <1>1, McpInvariance, PTL

\* Whenever the loop of Start ends, only the last line can have run without an answer.
THEOREM OnlyOneLineBehind == McpSpec => []OneLineBehind
<1>1. McpInv => OneLineBehind
  BY DEF McpInv, RanInv
<1>2. QED
  BY <1>1, McpInvariance, PTL

\* HandleHTTP never refuses the version that initialize agreed to.
THEOREM AgreedVersionIsAccepted == McpSpec => AgreedVersionAccepted
<1>1. ASSUME McpInv, NEW c \in Clients, RefuseVersion(c)
      PROVE  cur[c].versions # {agreed[c]}
  <2>1. ~(cur[c].versions \subseteq Supported)
    BY <1>1 DEF RefuseVersion, VersionOK
  <2>2. agreed[c] \in Supported \cup {NoVersion} /\ cur[c].versions \subseteq Versions
    BY <1>1, RequestParts DEF McpInv, McpTypeOK, HttpTypeOK, BusyInv
  <2>3. NoVersion \notin Versions
    BY DEF NoVersion, Versions, Supported, Unsupported
  <2>4. QED
    BY <2>1, <2>2, <2>3
<1>2. McpInv => [\A c \in Clients : RefuseVersion(c) => cur[c].versions # {agreed[c]}]_<<vars, httpVars>>
  BY <1>1
<1>3. QED
  BY <1>2, McpInvariance, PTL DEF AgreedVersionAccepted

-----------------------------------------------------------------------------
(* The order of the answers over standard input and output.                *)

\* An answer to a call of a line.
StdioAnswer == [call : StdioCalls, code : Codes]

\* What the calls of a line want, without its first call.
LEMMA WantedTail ==
  ASSUME NEW calls \in Seq(StdioCalls), calls # <<>>
  PROVE  Wanted(calls) = (IF Head(calls).wants THEN <<Head(calls)>> \o Wanted(Tail(calls))
                          ELSE Wanted(Tail(calls)))
<1> DEFINE at == {i \in DOMAIN calls : calls[i].wants}
           rest == {i \in DOMAIN Tail(calls) : Tail(calls)[i].wants}
<1>1. /\ DOMAIN calls = 1 .. Len(calls) /\ 1 \in DOMAIN calls /\ Head(calls) = calls[1]
      /\ Tail(calls) \in Seq(StdioCalls)
      /\ \A i \in DOMAIN Tail(calls) : i + 1 \in DOMAIN calls /\ Tail(calls)[i] = calls[i + 1]
  OBVIOUS
<1>2. Wanted(calls) = Picked(calls, at) /\ Wanted(Tail(calls)) = Picked(Tail(calls), rest)
  BY DEF Wanted, Kept
<1>3. /\ at \in SUBSET DOMAIN calls /\ rest \in SUBSET DOMAIN Tail(calls)
      /\ \A i \in DOMAIN Tail(calls) : i \in rest <=> i + 1 \in at
      /\ 1 \in at <=> Head(calls).wants
  BY <1>1
<1> HIDE DEF at, rest
<1>4. Picked(calls, at) = (IF 1 \in at THEN <<Head(calls)>> \o Picked(Tail(calls), rest)
                           ELSE Picked(Tail(calls), rest))
  BY <1>3, PickedTail
<1> QED
  BY <1>2, <1>3, <1>4

\* What the calls of a line want is a sequence of calls.
LEMMA WantedType ==
  ASSUME NEW calls \in Seq(StdioCalls)
  PROVE  Wanted(calls) \in Seq(StdioCalls) /\ (calls = <<>> => Wanted(calls) = <<>>)
<1> DEFINE at == {i \in DOMAIN calls : calls[i].wants}
<1>1. Wanted(calls) = Picked(calls, at)
  BY DEF Wanted, Kept
<1>2. at \in SUBSET DOMAIN calls /\ (calls = <<>> => at = {})
  OBVIOUS
<1> HIDE DEF at
<1>3. Picked(calls, at) \in Seq(StdioCalls)
  BY <1>2, PickedFacts
<1>4. Picked(calls, at) = <<>> <=> at = {}
  BY <1>2, PickedElements
<1> QED
  BY <1>1, <1>2, <1>3, <1>4

\* The calls of answers, one by one.
LEMMA AnsweredAppend ==
  ASSUME NEW answers \in Seq(StdioAnswer), NEW a \in StdioAnswer
  PROVE  /\ Answered(answers) \in Seq(StdioCalls)
         /\ Answered(<<>>) = <<>>
         /\ answers # <<>> => Answered(answers) # <<>>
         /\ Answered(Append(answers, a)) = Append(Answered(answers), a.call)
<1> DEFINE n == Len(answers)
           u == Answered(answers)
           v == Answered(Append(answers, a))
           w == Append(u, a.call)
<1>1. /\ n \in Nat /\ DOMAIN answers = 1 .. n /\ a.call \in StdioCalls
      /\ \A i \in 1 .. n : answers[i].call \in StdioCalls
      /\ answers # <<>> => n # 0
  <2>1. \A i \in DOMAIN answers : answers[i] \in StdioAnswer
    BY ElementType
  <2>2. n \in Nat /\ DOMAIN answers = 1 .. n /\ (answers # <<>> => n # 0)
    OBVIOUS
  <2>3. \A b \in StdioAnswer : b.call \in StdioCalls
    BY DEF StdioAnswer
  <2> QED
    BY <2>1, <2>2, <2>3
<1>2. u \in [1 .. n -> StdioCalls] /\ \A i \in 1 .. n : u[i] = answers[i].call
  BY <1>1 DEF Answered
<1>3. u \in Seq(StdioCalls) /\ Len(u) = n
  BY <1>1, <1>2
<1>4. /\ DOMAIN Append(answers, a) = 1 .. n + 1
      /\ \A i \in 1 .. n : Append(answers, a)[i] = answers[i]
      /\ Append(answers, a)[n + 1] = a
  OBVIOUS
<1>5. v \in [1 .. n + 1 -> StdioCalls] /\ (\A i \in 1 .. n : v[i] = answers[i].call)
      /\ v[n + 1] = a.call
  <2>1. \A i \in 1 .. n + 1 : i \in 1 .. n \/ i = n + 1
    BY <1>1
  <2>2. \A i \in 1 .. n + 1 : Append(answers, a)[i].call \in StdioCalls
    BY <1>1, <1>4, <2>1
  <2>3. v = [i \in 1 .. n + 1 |-> Append(answers, a)[i].call]
    BY <1>4 DEF Answered
  <2>4. n + 1 \in 1 .. n + 1 /\ \A i \in 1 .. n : i \in 1 .. n + 1
    BY <1>1
  <2> QED
    BY <1>4, <2>2, <2>3, <2>4
<1> HIDE DEF u, v
<1>6. /\ w \in Seq(StdioCalls) /\ Len(w) = n + 1
      /\ \A i \in 1 .. n : w[i] = u[i]
      /\ w[n + 1] = a.call
  BY <1>1, <1>3
<1> HIDE DEF w
<1>7. v \in Seq(StdioCalls) /\ Len(v) = n + 1
  BY <1>1, <1>5
<1>8. \A i \in 1 .. Len(v) : v[i] = w[i]
  <2>1. \A i \in 1 .. n + 1 : i \in 1 .. n \/ i = n + 1
    BY <1>1
  <2> QED
    BY <1>2, <1>5, <1>6, <1>7, <2>1
<1>9. v = w
  BY <1>6, <1>7, <1>8, SameSeq
<1>10. answers # <<>> => u # <<>>
  BY <1>1, <1>3
<1>11. Answered(<<>>) = <<>>
  BY DEF Answered
<1> QED
  BY <1>3, <1>9, <1>10, <1>11 DEF u, v, w

\* A sequence with nothing before or after it, and with an element between two.
LEMMA Between ==
  ASSUME NEW s \in Seq(StdioCalls), NEW t \in Seq(StdioCalls), NEW e \in StdioCalls
  PROVE  /\ <<>> \o t = t /\ s \o <<>> = s
         /\ s \o (<<e>> \o t) = Append(s, e) \o t
<1> DEFINE a == s \o (<<e>> \o t)
           b == Append(s, e) \o t
           n == Len(s)
           m == Len(t)
<1>0. <<>> \o t = t /\ s \o <<>> = s
  OBVIOUS
<1>1. a \in Seq(StdioCalls) /\ b \in Seq(StdioCalls) /\ n \in Nat /\ m \in Nat
  OBVIOUS
<1>2. Len(a) = n + 1 + m /\ Len(b) = n + 1 + m
  OBVIOUS
<1>3. /\ \A i \in 1 .. n : a[i] = s[i] /\ b[i] = s[i]
      /\ a[n + 1] = e /\ b[n + 1] = e
      /\ \A i \in n + 2 .. n + 1 + m : a[i] = t[i - n - 1] /\ b[i] = t[i - n - 1]
  OBVIOUS
<1> HIDE DEF a, b, n, m
<1>4. \A i \in 1 .. n + 1 + m : i \in 1 .. n \/ i = n + 1 \/ i \in n + 2 .. n + 1 + m
  BY <1>1
<1>5. \A i \in 1 .. Len(a) : a[i] = b[i]
  BY <1>2, <1>3, <1>4
<1>6. Len(a) = Len(b)
  BY <1>2
<1>7. a = b
  BY <1>1, <1>5, <1>6, SameSeq
<1> QED
  BY <1>0, <1>7 DEF a, b

\* What was written, with one line more.
LEMMA WrittenAppend ==
  ASSUME NEW answers, NEW b, NEW S, out \in Seq(S), out' = Append(out, [batch |-> b, answers |-> answers])
  PROVE  Written' = Append(Written, [batch |-> b, calls |-> Answered(answers)])
<1> DEFINE l == [batch |-> b, answers |-> answers]
           k == [batch |-> b, calls |-> Answered(answers)]
           X == {[batch |-> o.batch, calls |-> Answered(o.answers)] : o \in S \cup {l}}
           w == [i \in DOMAIN out |-> [batch |-> out[i].batch, calls |-> Answered(out[i].answers)]]
           v == [i \in DOMAIN out' |-> [batch |-> out'[i].batch, calls |-> Answered(out'[i].answers)]]
           n == Len(out)
<1>1. Written = w /\ Written' = v
  BY DEF Written, Answered
<1>2. /\ n \in Nat /\ DOMAIN out = 1 .. n /\ DOMAIN out' = 1 .. n + 1
      /\ \A i \in 1 .. n : out[i] \in S /\ out'[i] = out[i]
      /\ out'[n + 1] = l
  OBVIOUS
<1>3. k \in X /\ \A o \in S : [batch |-> o.batch, calls |-> Answered(o.answers)] \in X
  <2>1. l.batch = b /\ l.answers = answers
    OBVIOUS
  <2> QED
    BY <2>1
<1> DEFINE line(o) == [batch |-> o.batch, calls |-> Answered(o.answers)]
<1>4. line(l) = k
  OBVIOUS
<1>5. w = [i \in 1 .. n |-> line(out[i])] /\ v = [i \in 1 .. n + 1 |-> line(out'[i])]
  BY <1>2
<1>6. \A o \in S : line(o) \in X
  BY <1>3
<1> HIDE DEF l, k, X, w, v, n, line
<1>7. w \in Seq(X) /\ Len(w) = n /\ \A i \in 1 .. n : w[i] = line(out[i])
  <2>1. w \in [1 .. n -> X]
    BY <1>2, <1>5, <1>6
  <2>2. w \in Seq(X) /\ Len(w) = n
    BY <1>2, <2>1
  <2> QED
    BY <1>5, <2>2
<1>8. \A i \in 1 .. n + 1 : i \in 1 .. n \/ i = n + 1
  BY <1>2
<1>9. v \in Seq(X) /\ Len(v) = n + 1 /\ (\A i \in 1 .. n : v[i] = line(out[i])) /\ v[n + 1] = k
  <2>1. \A i \in 1 .. n : i \in 1 .. n + 1 /\ out'[i] = out[i] /\ line(out[i]) \in X
    BY <1>2, <1>6
  <2>2. n + 1 \in 1 .. n + 1 /\ line(out'[n + 1]) = k
    BY <1>2, <1>4
  <2>3. \A i \in 1 .. n + 1 : v[i] = line(out'[i])
    BY <1>5
  <2>4. \A i \in 1 .. n + 1 : line(out'[i]) \in X
    BY <1>3, <1>8, <2>1, <2>2
  <2>5. v \in [1 .. n + 1 -> X]
    BY <1>5, <2>4
  <2>6. v \in Seq(X) /\ Len(v) = n + 1
    BY <1>2, <2>5
  <2> QED
    BY <2>1, <2>2, <2>3, <2>6
<1> DEFINE u == Append(w, k)
<1>10. u \in Seq(X) /\ Len(u) = n + 1 /\ (\A i \in 1 .. n : u[i] = w[i]) /\ u[n + 1] = k
  BY <1>2, <1>3, <1>7
<1> HIDE DEF u
<1>11. \A i \in 1 .. Len(v) : v[i] = u[i]
  BY <1>7, <1>8, <1>9, <1>10
<1>12. Len(v) = Len(u)
  BY <1>9, <1>10
<1>13. v = u
  BY <1>9, <1>10, <1>11, <1>12, SameSeq
<1> QED
  BY <1>1, <1>13 DEF u, k

\* The types that the order of the answers needs.
LEMMA StdioShapes ==
  ASSUME McpInv
  PROVE  /\ todo \in Seq(StdioCalls) /\ replies \in Seq(StdioAnswer)
         /\ Wanted(todo) \in Seq(StdioCalls) /\ Answered(replies) \in Seq(StdioCalls)
         /\ todo = <<>> => Wanted(todo) = <<>>
         /\ replies = <<>> => Answered(replies) = <<>>
         /\ replies # <<>> => Answered(replies) # <<>>
         /\ loop = "scan" => todo = <<>> /\ replies = <<>>
         /\ loop = "write" => todo = <<>>
<1>1. todo \in Seq(StdioCalls) /\ replies \in Seq(StdioAnswer)
  BY DEF McpInv, McpTypeOK, StdioTypeOK, StdioAnswer
<1>2. Wanted(todo) \in Seq(StdioCalls) /\ (todo = <<>> => Wanted(todo) = <<>>)
  BY <1>1, WantedType
<1>3. /\ Answered(replies) \in Seq(StdioCalls)
      /\ replies # <<>> => Answered(replies) # <<>>
  <2>1. CASE replies = <<>>
    <3>1. Answered(<<>>) = <<>> /\ <<>> \in Seq(StdioCalls)
      BY DEF Answered
    <3> QED
      BY <2>1, <3>1
  <2>2. CASE replies # <<>>
    <3>1. 1 \in DOMAIN replies
      BY <1>1, <2>2
    <3>2. replies[1] \in StdioAnswer
      BY <1>1, <3>1, ElementType
    <3> QED
      BY <1>1, <3>2, AnsweredAppend
  <2> QED
    BY <2>1, <2>2
<1>4. replies = <<>> => Answered(replies) = <<>>
  BY DEF Answered
<1>5. /\ loop = "scan" => todo = <<>> /\ replies = <<>>
      /\ loop = "write" => todo = <<>>
  BY DEF McpInv, LineInv
<1> QED
  BY <1>1, <1>2, <1>3, <1>4, <1>5

\* Answers come in the order of the requests, whatever the step.
LEMMA OrderStep ==
  ASSUME McpInv, McpInv', transport = "stdio", StdioNext, RepliesInOrder
  PROVE  RepliesInOrder'
<1>1. RepliesInOrder <=> due = Owing(Written, batch, Answered(replies) \o Wanted(todo))
  BY DEF RepliesInOrder
<1>2. /\ \A s, b : Owing(s, b, <<>>) = s
      /\ \A s, b, calls : calls # <<>> => Owing(s, b, calls) = Append(s, [batch |-> b, calls |-> calls])
  BY DEF Owing
<1>3. <<>> \in Seq(StdioCalls) /\ (<<>> \o <<>>) = <<>>
  OBVIOUS
<1>4. /\ Wanted(todo) \in Seq(StdioCalls) /\ Answered(replies) \in Seq(StdioCalls)
      /\ todo = <<>> => Wanted(todo) = <<>>
      /\ replies = <<>> => Answered(replies) = <<>>
      /\ replies # <<>> => Answered(replies) # <<>>
      /\ loop = "scan" => todo = <<>> /\ replies = <<>>
      /\ loop = "write" => todo = <<>>
  BY StdioShapes
<1>5. loop = "scan" => due = Written
  BY <1>1, <1>2, <1>3, <1>4
<1>6. out' = out => Written' = Written
  BY DEF Written, Answered
<1>7. SUFFICES due' = Owing(Written', batch', Answered(replies') \o Wanted(todo'))
  BY DEF RepliesInOrder
<1>8. CASE UNCHANGED <<batch, todo, replies, out, due>>
  BY <1>1, <1>6, <1>8
<1>9. ASSUME NEW l \in Lines, ScanGarbage(l)
      PROVE  due' = Owing(Written', batch', Answered(replies') \o Wanted(todo'))
  <2>1. /\ loop = "scan" /\ batch' = FALSE /\ todo' = todo /\ out' = out
        /\ replies' = <<[call |-> BadCall, code |-> ParseError]>>
        /\ due' = Append(due, [batch |-> FALSE, calls |-> <<BadCall>>])
    BY <1>9 DEF ScanGarbage, Read
  <2>2. Answered(replies') = <<BadCall>>
    BY <2>1 DEF Answered
  <2> DEFINE bad == <<BadCall>>
  <2>3. (bad \o <<>>) = bad /\ bad # <<>>
    OBVIOUS
  <2>4. Wanted(todo') = <<>>
    BY <1>4, <2>1
  <2>5. Answered(replies') = bad /\ due' = Append(due, [batch |-> FALSE, calls |-> bad])
    BY <2>1, <2>2
  <2> HIDE DEF bad
  <2>6. Answered(replies') \o Wanted(todo') = bad
    BY <2>3, <2>4, <2>5
  <2>7. Owing(Written', batch', bad) = Append(Written', [batch |-> FALSE, calls |-> bad])
    BY <1>2, <2>1, <2>3
  <2>8. due = Written /\ Written' = Written
    BY <1>5, <1>6, <2>1
  <2> QED
    BY <2>5, <2>6, <2>7, <2>8
<1>10. ASSUME NEW l \in Lines, ScanMessage(l)
       PROVE  due' = Owing(Written', batch', Answered(replies') \o Wanted(todo'))
  <2>1. /\ loop = "scan" /\ out' = out /\ replies' = replies
        /\ due' = Owing(due, batch', Wanted(todo'))
    BY <1>10 DEF ScanMessage, Read
  <2>2. Wanted(todo') \in Seq(StdioCalls)
    BY WantedType DEF McpInv, McpTypeOK, StdioTypeOK
  <2>3. Answered(replies') = <<>> /\ (<<>> \o Wanted(todo')) = Wanted(todo')
    BY <1>4, <2>1, <2>2
  <2> QED
    BY <1>5, <1>6, <2>1, <2>3
<1>11. ASSUME HandleRequest
       PROVE  due' = Owing(Written', batch', Answered(replies') \o Wanted(todo'))
  <2> DEFINE h == Head(todo)
  <2>1. /\ todo # <<>> /\ todo' = Tail(todo) /\ UNCHANGED <<batch, out, due>>
    BY <1>11 DEF HandleRequest
  <2>2. PICK code \in Replies(h.req) :
           replies' = IF h.wants THEN Append(replies, [call |-> h, code |-> code]) ELSE replies
    BY <1>11 DEF HandleRequest
  <2> DEFINE a == [call |-> h, code |-> code]
  <2>3. todo \in Seq(StdioCalls) /\ replies \in Seq(StdioAnswer) /\ h \in StdioCalls
    BY <2>1, StdioShapes, TailShape
  <2>4. a \in StdioAnswer /\ a.call = h
    BY <2>2, <2>3, RepliesTruthful DEF StdioAnswer
  <2>5. replies' = IF h.wants THEN Append(replies, a) ELSE replies
    BY <2>2
  <2>6. Wanted(todo) = IF h.wants THEN <<h>> \o Wanted(todo') ELSE Wanted(todo')
    BY <2>1, <2>3, WantedTail
  <2>7. Wanted(todo') \in Seq(StdioCalls)
    BY WantedType DEF McpInv, McpTypeOK, StdioTypeOK
  <2> HIDE DEF h, a
  <2>8. Answered(Append(replies, a)) = Append(Answered(replies), h)
    BY <2>3, <2>4, AnsweredAppend
  <2>9. Answered(replies) \o (<<h>> \o Wanted(todo')) = Append(Answered(replies), h) \o Wanted(todo')
    BY <1>4, <2>3, <2>7, Between
  <2>10. Answered(replies') \o Wanted(todo') = Answered(replies) \o Wanted(todo)
    BY <2>5, <2>6, <2>8, <2>9
  <2> QED
    BY <1>1, <1>6, <2>1, <2>10
<1>12. ASSUME Write
       PROVE  due' = Owing(Written', batch', Answered(replies') \o Wanted(todo'))
  <2>1. /\ todo = <<>> /\ replies # <<>> /\ replies' = <<>>
        /\ out' = Append(out, [batch |-> batch, answers |-> replies])
        /\ UNCHANGED <<todo, due>>
    BY <1>4, <1>12 DEF Write
  <2>2. Written' = Append(Written, [batch |-> batch, calls |-> Answered(replies)])
    BY <2>1, WrittenAppend DEF McpInv, McpTypeOK, StdioTypeOK
  <2>3. Answered(replies) \o Wanted(todo) = Answered(replies)
    BY <1>4, <2>1
  <2>4. due = Append(Written, [batch |-> batch, calls |-> Answered(replies)])
    BY <1>1, <1>2, <1>4, <2>1, <2>3
  <2>5. Answered(replies') = <<>>
    BY <2>1 DEF Answered
  <2> QED
    BY <1>2, <1>3, <1>4, <2>1, <2>2, <2>4, <2>5
<1>13. CASE \/ \E l \in Lines : ScanBlank(l) \/ ScanTooLong(l)
            \/ ScanEnd \/ NothingToWrite \/ WriteFails \/ Kill
  <2>1. UNCHANGED <<batch, todo, replies, out, due>>
    BY <1>13 DEF ScanBlank, ScanTooLong, ScanEnd, NothingToWrite, WriteFails, Kill
  <2> QED
    BY <1>8, <2>1
<1> QED
  BY <1>9, <1>10, <1>11, <1>12, <1>13 DEF StdioNext, HandleLine

\* Over standard input and output, every line is answered in its turn, with the answers
\* that it wants and no others, each line as an object or an array like what it answers;
\* only the last may be missing.
THEOREM AnswersComeInOrder == McpSpec => []RepliesInOrder
<1>1. McpInit => RepliesInOrder
  <2>1. SUFFICES ASSUME McpInit PROVE RepliesInOrder
    OBVIOUS
  <2>2. todo = <<>> /\ replies = <<>> /\ out = <<>> /\ due = <<>>
    BY <2>1 DEF McpInit, StdioInit
  <2>3. Answered(<<>>) = <<>> /\ Written = <<>>
    BY <2>2 DEF Answered, Written
  <2>4. <<>> \in Seq(StdioCalls) /\ (<<>> \o <<>>) = <<>>
    OBVIOUS
  <2>5. Wanted(<<>>) = <<>>
    BY <2>4, WantedType
  <2> QED
    BY <2>2, <2>3, <2>4, <2>5 DEF RepliesInOrder, Owing
<1>2. McpInv /\ McpInv' /\ RepliesInOrder /\ [McpNext]_allVars => RepliesInOrder'
  <2>1. SUFFICES ASSUME McpInv, McpInv', RepliesInOrder, [McpNext]_allVars PROVE RepliesInOrder'
    OBVIOUS
  <2>2. CASE transport = "stdio" /\ StdioNext
    BY <2>1, <2>2, OrderStep
  <2>3. CASE UNCHANGED stdioVars
    <3>1. UNCHANGED <<batch, todo, replies, due>> /\ Written' = Written
      BY <2>3 DEF stdioVars, Written
    <3> QED
      BY <2>1, <3>1 DEF RepliesInOrder
  <2> QED
    BY <2>1, <2>2, <2>3 DEF McpNext, allVars
<1> QED
  BY <1>1, <1>2, McpInvariance, PTL DEF McpSpec
=============================================================================
