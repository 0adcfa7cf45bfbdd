------------------------------- MODULE Stdio -------------------------------
(***************************************************************************)
(* STDIOTransport of internal/mcp/transport.go: one loop that reads a      *)
(* line, decodes it, runs its requests one after the other, writes the     *)
(* answers they want together, and reads on.  A client may send a batch,   *)
(* may close its end, and may stop reading; a line may be longer than the  *)
(* scanner's buffer; and a signal kills the process between any two steps, *)
(* for main does not handle signals in this mode.                          *)
(***************************************************************************)
EXTENDS Rpc, Selection

CONSTANTS
    Stdin,          \* the one client
    Lines,          \* the payloads a line may hold
    MaxLines        \* bound: lines read

ASSUME StdioAssumption ==
    /\ Lines \subseteq Payload
    /\ \A l \in Lines : /\ l.form = "single" => Len(l.requests) = 1
                       /\ l.form = "batch" => l.requests # <<>>

VARIABLES
    loop,           \* where Start is
    batch,          \* the line being handled came as an array
    todo,           \* its calls that have not been handled
    replies,        \* the answers collected for it
    out,            \* the lines written, each with its answers
    lines,          \* history: the number of lines read
    due             \* history: for each line that wants an answer, what it wants

stdioVars == <<loop, batch, todo, replies, out, lines, due>>

\* The calls of a line.  A line that cannot be decoded is one call, which runs
\* nothing and wants an answer.
LineCall(i, r) ==
    [from |-> Stdin, turn |-> lines + 1, pos |-> i, req |-> r,
     tool |-> InvokesTool(r), wants |-> r.id # 0]

StdioCalls == [from : {Stdin}, turn : Nat, pos : Nat, req : Request,
               tool : BOOLEAN, wants : BOOLEAN]

BadCall == [from |-> Stdin, turn |-> lines + 1, pos |-> 1,
            req |-> [id |-> 0, method |-> "other", arg |-> "none"],
            tool |-> FALSE, wants |-> TRUE]

Wanted(calls) == Kept(calls, LAMBDA i : calls[i].wants)

\* The lines of s, and one more if it asks for anything.
Owing(s, b, calls) == IF calls = <<>> THEN s ELSE Append(s, [batch |-> b, calls |-> calls])

Answered(answers) == [i \in DOMAIN answers |-> answers[i].call]

-----------------------------------------------------------------------------
StdioInit ==
    /\ loop = "scan"
    /\ batch = FALSE
    /\ todo = <<>>
    /\ replies = <<>>
    /\ out = <<>>
    /\ lines = 0
    /\ due = <<>>

Read(l) ==
    /\ loop = "scan"
    /\ l \in Lines
    /\ lines < MaxLines
    /\ lines' = lines + 1

ScanBlank(l) ==
    /\ Read(l)
    /\ l.form = "blank"
    /\ UNCHANGED <<loop, batch, todo, replies, out, due, ledger>>

\* handleMessage: what does not decode as a whole is answered without an id, and
\* none of it is handled.
ScanGarbage(l) ==
    /\ Read(l)
    /\ l.form = "garbage"
    /\ loop' = "write"
    /\ batch' = FALSE
    /\ replies' = <<[call |-> BadCall, code |-> ParseError]>>
    /\ asked' = asked \cup {BadCall}
    /\ due' = Append(due, [batch |-> FALSE, calls |-> <<BadCall>>])
    /\ UNCHANGED <<todo, out, ran, told, runs, given>>

ScanMessage(l) ==
    /\ Read(l)
    /\ l.form \in {"single", "batch"}
    /\ loop' = "handle"
    /\ batch' = (l.form = "batch")
    /\ todo' = [i \in DOMAIN l.requests |-> LineCall(i, l.requests[i])]
    /\ asked' = asked \cup ToSet(todo')
    /\ due' = Owing(due, batch', Wanted(todo'))
    /\ UNCHANGED <<replies, out, ran, told, runs, given>>

\* Scan returns false: the client has closed its end.
ScanEnd ==
    /\ loop = "scan"
    /\ loop' = "eof"
    /\ UNCHANGED <<batch, todo, replies, out, lines, due, ledger>>

\* Scan returns false: the line does not fit, and main ends with log.Fatalf.
ScanTooLong(l) ==
    /\ Read(l)
    /\ l.form = "long"
    /\ loop' = "failed"
    /\ UNCHANGED <<batch, todo, replies, out, due, ledger>>

\* A request that names a tool starts it.
Start(call) ==
    /\ ran' = IF call.tool THEN ran \cup {call} ELSE ran
    /\ runs' = IF call.tool THEN runs + 1 ELSE runs

\* Mutant of HandleRequest: a tool that fails is called again.
HandleRequestRetried ==
    /\ loop = "handle"
    /\ todo # <<>>
    /\ \E code \in Replies(Head(todo).req) :
          /\ todo' = IF code = InternalError THEN todo ELSE Tail(todo)
          /\ replies' = IF Head(todo).wants /\ code # InternalError
                        THEN Append(replies, [call |-> Head(todo), code |-> code])
                        ELSE replies
    /\ Start(Head(todo))
    /\ UNCHANGED <<loop, batch, out, lines, due, asked, told, given>>

\* Mutant of HandleRequest: the last answer comes first.
HandleRequestBackwards ==
    /\ loop = "handle"
    /\ todo # <<>>
    /\ todo' = Tail(todo)
    /\ \E code \in Replies(Head(todo).req) :
          replies' = IF Head(todo).wants
                     THEN <<[call |-> Head(todo), code |-> code]>> \o replies
                     ELSE replies
    /\ Start(Head(todo))
    /\ UNCHANGED <<loop, batch, out, lines, due, asked, told, given>>

\* Mutant of HandleRequest: whatever is handled is answered.
HandleRequestAloud ==
    /\ loop = "handle"
    /\ todo # <<>>
    /\ todo' = Tail(todo)
    /\ \E code \in Replies(Head(todo).req) :
          replies' = Append(replies, [call |-> Head(todo), code |-> code])
    /\ Start(Head(todo))
    /\ UNCHANGED <<loop, batch, out, lines, due, asked, told, given>>

HandleRequest ==
    /\ loop = "handle"
    /\ todo # <<>>
    /\ todo' = Tail(todo)
    /\ \E code \in Replies(Head(todo).req) :
          replies' = IF Head(todo).wants
                     THEN Append(replies, [call |-> Head(todo), code |-> code])
                     ELSE replies
    /\ Start(Head(todo))
    /\ UNCHANGED <<loop, batch, out, lines, due, asked, told, given>>

\* Mutant of NothingToWrite: an array is expected to have something to write.
NothingToWriteSingle ==
    /\ loop = "handle" /\ ~batch
    /\ todo = <<>>
    /\ replies = <<>>
    /\ loop' = "scan"
    /\ UNCHANGED <<batch, todo, replies, out, lines, due, ledger>>

\* Nobody wants an answer: nothing is written, not even an empty array.
NothingToWrite ==
    /\ loop = "handle"
    /\ todo = <<>>
    /\ replies = <<>>
    /\ loop' = "scan"
    /\ UNCHANGED <<batch, todo, replies, out, lines, due, ledger>>

Write ==
    /\ loop = "write" \/ (loop = "handle" /\ todo = <<>>)
    /\ replies # <<>>
    /\ out' = Append(out, [batch |-> batch, answers |-> replies])
    /\ told' = told \cup ToSet(replies)
    /\ given' = given + Len(replies)
    /\ replies' = <<>>
    /\ loop' = "scan"
    /\ UNCHANGED <<batch, todo, lines, due, asked, ran, runs>>

\* Mutant of WriteFails: the loop reads on, and the answers are gone.
WriteFailsQuietly ==
    /\ loop = "write" \/ (loop = "handle" /\ todo = <<>>)
    /\ replies # <<>>
    /\ loop' = "scan"
    /\ replies' = <<>>
    /\ UNCHANGED <<batch, todo, out, lines, due, ledger>>

\* The client no longer reads: Encode fails, and main ends with log.Fatalf.
WriteFails ==
    /\ loop = "write" \/ (loop = "handle" /\ todo = <<>>)
    /\ replies # <<>>
    /\ loop' = "failed"
    /\ UNCHANGED <<batch, todo, replies, out, lines, due, ledger>>

Kill ==
    /\ loop \in {"scan", "handle", "write"}
    /\ loop' = "killed"
    /\ UNCHANGED <<batch, todo, replies, out, lines, due, ledger>>
-----------------------------------------------------------------------------
\* What the loop does on its own once it has a line.
HandleLine == HandleRequest \/ NothingToWrite \/ Write

StdioNext ==
    \/ \E l \in Lines : ScanBlank(l) \/ ScanGarbage(l) \/ ScanMessage(l) \/ ScanTooLong(l)
    \/ ScanEnd
    \/ HandleLine
    \/ WriteFails \/ Kill

-----------------------------------------------------------------------------
\* The types of the state; due is equal to a sequence with a type (RepliesInOrder).
StdioTypeOK ==
    /\ loop \in {"scan", "handle", "write", "eof", "failed", "killed"}
    /\ batch \in BOOLEAN
    /\ todo \in Seq(StdioCalls)
    /\ replies \in Seq([call : StdioCalls, code : Codes])
    /\ out \in Seq([batch : BOOLEAN, answers : Seq([call : StdioCalls, code : Codes])])
    /\ lines \in Nat

\* The lines written, as what they answer.
Written == [i \in DOMAIN out |-> [batch |-> out[i].batch, calls |-> Answered(out[i].answers)]]

\* The lines written are the answers that the lines read want: in their order, each
\* as one object or as one array, like what it answers, with exactly the answers of
\* the requests that are not notifications, and nothing at all for a line without
\* any; only the last of them may still be missing.
RepliesInOrder ==
    due = Owing(Written, batch, Answered(replies) \o Wanted(todo))

\* However the process ends, and whatever breaks, the only work whose outcome its
\* client never learns is that of the last line it sent.
OneLineBehind ==
    \A c \in ran :
        c.from = Stdin /\ c.wants => c.turn = lines \/ \E t \in told : t.call = c

\* A line that was read is handled to its end, or the process is.
LineHandled == loop \in {"handle", "write"} ~> loop \notin {"handle", "write"}
=============================================================================
