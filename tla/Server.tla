------------------------------- MODULE Server -------------------------------
(***************************************************************************)
(* The life of the HTTP server: main (cmd/sourcerudder/main.go), Start,    *)
(* Stop and the handlers of internal/mcp/server.go, over net/http.  Each   *)
(* client has one connection, on which it makes one request after another: *)
(* a GET is an event stream that lives until somebody ends it, a POST may  *)
(* be a tool call, here one that fetches and backs off between attempts.   *)
(*                                                                         *)
(* The streams are told to end by closing one channel, which is made by    *)
(* whoever needs it first and closed by whoever comes first of Stop and    *)
(* the hook that Start registered.  The contexts of tool calls end with    *)
(* their connections only.                                                 *)
(***************************************************************************)
EXTENDS Naturals, FiniteSets

CONSTANTS
    Clients,        \* connections
    MaxAttempts     \* fetch.Config.MaxAttempts

ASSUME ServerAssumption == MaxAttempts \in Nat \ {0}

VARIABLES
    stage,          \* where main is
    hook,           \* the goroutine that Shutdown starts for endSSEStreams
    chan,           \* Server.sseShutdown
    once,           \* Server.sseShutdownOnce has run
    panicked,       \* a closed channel was closed
    pc,             \* what each connection is doing
    tries,          \* attempts begun by the tool call of each connection
    gone,           \* connections whose request's context is done
    stopErr         \* what Stop returned

vars == <<stage, hook, chan, once, panicked, pc, tries, gone, stopErr>>

Streaming == {"ping", "stream"}

Calling == {"attempt", "backoff"}

Busy == {"enter"} \cup Streaming \cup Calling

Init ==
    /\ stage = "serving"
    /\ hook = "none"
    /\ chan = "none"
    /\ once = FALSE
    /\ panicked = FALSE
    /\ pc = [c \in Clients |-> "away"]
    /\ tries = [c \in Clients |-> 0]
    /\ gone = {}
    /\ stopErr = "none"

Goto(c, from, to) == pc[c] = from /\ pc' = [pc EXCEPT ![c] = to]

Listening == stage \in {"serving", "signalled", "ended"}

Running == stage # "exited"

-----------------------------------------------------------------------------
(* Connections.  net/http keeps a connection for the next request unless   *)
(* the server is shutting down or the client has gone.                     *)

Connect(c) ==
    /\ Listening
    /\ Goto(c, "away", "enter")
    /\ UNCHANGED <<stage, hook, chan, once, panicked, tries, gone, stopErr>>

NextRequest(c) ==
    /\ Running
    /\ Goto(c, "idle", "enter")
    /\ UNCHANGED <<stage, hook, chan, once, panicked, tries, gone, stopErr>>

\* The connection breaks, and net/http cancels the context of its request.
ClientGone(c) ==
    /\ Running
    /\ pc[c] \in Busy
    /\ c \notin gone
    /\ gone' = gone \cup {c}
    /\ UNCHANGED <<stage, hook, chan, once, panicked, pc, tries, stopErr>>

\* A handler returns.
HandlerReturns(c) ==
    /\ pc' = [pc EXCEPT ![c] =
                IF stage = "draining" \/ c \in gone THEN "away" ELSE "idle"]
    /\ gone' = gone \ {c}
    /\ tries' = [tries EXCEPT ![c] = 0]
    /\ UNCHANGED <<stage, hook, chan, once, panicked, stopErr>>

\* Refused by the middleware, the version check or the parser, or answered without
\* waiting for anything: initialize, the lists, ping, a notification.
AnswerAtOnce(c) ==
    /\ Running
    /\ pc[c] = "enter"
    /\ HandlerReturns(c)

-----------------------------------------------------------------------------
(* handleHTTPGet: take the channel, ping, then wait for an end or a tick.  *)

OpenStream(c) ==
    /\ Running
    /\ Goto(c, "enter", "ping")
    /\ chan' = IF chan = "none" THEN "open" ELSE chan
    /\ UNCHANGED <<stage, hook, once, panicked, tries, gone, stopErr>>

PingWritten(c) ==
    /\ Running
    /\ Goto(c, "ping", "stream")
    /\ UNCHANGED <<stage, hook, chan, once, panicked, tries, gone, stopErr>>

\* The write fails, at the latest at its own deadline.
PingFails(c) ==
    /\ Running
    /\ pc[c] = "ping"
    /\ HandlerReturns(c)

StreamTick(c) ==
    /\ Running
    /\ Goto(c, "stream", "ping")
    /\ UNCHANGED <<stage, hook, chan, once, panicked, tries, gone, stopErr>>

StreamEnds(c) ==
    /\ Running
    /\ pc[c] = "stream"
    /\ c \in gone \/ chan = "closed"
    /\ HandlerReturns(c)

-----------------------------------------------------------------------------
(* A tools/call that fetches: doFetchWithRetries on the request's context. *)

BeginCall(c) ==
    /\ Running
    /\ Goto(c, "enter", "attempt")
    /\ tries' = [tries EXCEPT ![c] = 1]
    /\ UNCHANGED <<stage, hook, chan, once, panicked, gone, stopErr>>

AttemptFails(c) ==
    /\ Running
    /\ tries[c] < MaxAttempts
    /\ c \notin gone
    /\ Goto(c, "attempt", "backoff")
    /\ UNCHANGED <<stage, hook, chan, once, panicked, tries, gone, stopErr>>

\* Mutant of BackoffElapses: the attempt is not counted.
BackoffElapsesUncounted(c) ==
    /\ Running
    /\ Goto(c, "backoff", "attempt")
    /\ UNCHANGED <<stage, hook, chan, once, panicked, tries, gone, stopErr>>

BackoffElapses(c) ==
    /\ Running
    /\ Goto(c, "backoff", "attempt")
    /\ tries' = [tries EXCEPT ![c] = @ + 1]
    /\ UNCHANGED <<stage, hook, chan, once, panicked, gone, stopErr>>

\* The fetch is over, or the context is done.
CallReturns(c) ==
    /\ Running
    /\ pc[c] = "attempt" \/ (pc[c] = "backoff" /\ c \in gone)
    /\ HandlerReturns(c)

-----------------------------------------------------------------------------
(* The end of the server.                                                  *)

Signal ==
    /\ stage = "serving"
    /\ stage' = "signalled"
    /\ UNCHANGED <<hook, chan, once, panicked, pc, tries, gone, stopErr>>

\* Mutant of EndStreams: no Once around the close.
EndStreamsUnguarded ==
    /\ once' = TRUE
    /\ chan' = "closed"
    /\ panicked' = (panicked \/ chan = "closed")

\* Mutant of EndStreams: a channel that nobody has made yet is not made here.
EndStreamsUnmade ==
    /\ once' = TRUE
    /\ chan' = IF chan = "open" THEN "closed" ELSE chan
    /\ UNCHANGED panicked

\* endSSEStreams: make the channel if need be, and close it once.
EndStreams ==
    /\ once' = TRUE
    /\ chan' = IF once THEN chan ELSE "closed"
    /\ panicked' = (panicked \/ (~once /\ chan = "closed"))

\* Stop, first statement.
StopEndsStreams ==
    /\ stage = "signalled"
    /\ stage' = "ended"
    /\ EndStreams
    /\ UNCHANGED <<hook, pc, tries, gone, stopErr>>

\* Shutdown closes the listener and starts the registered function.
ShutdownBegins ==
    /\ stage = "ended"
    /\ stage' = "draining"
    /\ hook' = "pending"
    /\ UNCHANGED <<chan, once, panicked, pc, tries, gone, stopErr>>

HookRuns ==
    /\ Running
    /\ hook = "pending"
    /\ hook' = "done"
    /\ EndStreams
    /\ UNCHANGED <<stage, pc, tries, gone, stopErr>>

\* main returns after Stop, and the process takes every goroutine with it.
Exit(err) ==
    /\ stage' = "exited"
    /\ stopErr' = err
    /\ pc' = [c \in Clients |-> "away"]
    /\ UNCHANGED <<hook, chan, once, panicked, tries, gone>>

\* Mutant of ShutdownReturns: Close where Shutdown should be.
ShutdownClosesAll ==
    /\ stage = "draining"
    /\ Exit("nil")

\* Shutdown polls until it has closed every connection as idle.
ShutdownReturns ==
    /\ stage = "draining"
    /\ \A c \in Clients : pc[c] \notin Busy
    /\ Exit("nil")

\* The ten seconds that main gives to Stop are over.
ShutdownDeadline ==
    /\ stage = "draining"
    /\ Exit("deadline")

-----------------------------------------------------------------------------
\* What a handler does without its client.
Handler(c) ==
    \/ AnswerAtOnce(c)
    \/ OpenStream(c) \/ PingWritten(c) \/ PingFails(c) \/ StreamTick(c)
    \/ BeginCall(c) \/ AttemptFails(c) \/ BackoffElapses(c) \/ CallReturns(c)

Main == StopEndsStreams \/ ShutdownBegins \/ ShutdownReturns

Next ==
    \/ \E c \in Clients :
          Connect(c) \/ NextRequest(c) \/ ClientGone(c) \/ Handler(c) \/ StreamEnds(c)
    \/ Signal \/ Main \/ ShutdownDeadline \/ HookRuns

Spec == Init /\ [][Next]_vars

-----------------------------------------------------------------------------
\* The types of the state.
TypeOK ==
    /\ stage \in {"serving", "signalled", "ended", "draining", "exited"}
    /\ hook \in {"none", "pending", "done"}
    /\ chan \in {"none", "open", "closed"}
    /\ once \in BOOLEAN
    /\ panicked \in BOOLEAN
    /\ pc \in [Clients -> {"away", "idle"} \cup Busy]
    /\ tries \in [Clients -> 0 .. MaxAttempts]
    /\ gone \subseteq Clients
    /\ stopErr \in {"none", "nil", "deadline"}

\* Stop and the registered hook both end the streams, in any order and at any time
\* relative to streams that open: the channel is closed at most once.
NoDoubleClose == ~panicked

\* After a signal the server stops on its own, without the help of its deadline,
\* whatever streams are open or still opening, once the calls in flight are done.
Stops == stage = "signalled" ~> stage = "exited"

-----------------------------------------------------------------------------
\* "SIGTERM during a 1.6s exponential backoff stops the lifecycle immediately
\* instead of waiting out the full window" (fetcher.go:469): after the signal no
\* backoff runs to its end.
SignalStopsBackoff ==
    [][\A c \in Clients : stage # "serving" => ~BackoffElapses(c)]_vars
=============================================================================
