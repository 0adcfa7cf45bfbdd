-------------------------------- MODULE Mcp --------------------------------
(***************************************************************************)
(* The program as its clients meet it: main (cmd/sourcerudder/main.go)     *)
(* picks one transport and runs it to its end.                             *)
(***************************************************************************)
EXTENDS Http, Stdio

ASSUME McpAssumption == Stdin \notin Clients

VARIABLE transport      \* the flag

allVars == <<transport, vars, httpVars, stdioVars, ledger>>

McpInit ==
    /\ transport \in {"stdio", "http"}
    /\ HttpInit
    /\ StdioInit
    /\ asked = {}
    /\ ran = {}
    /\ told = {}
    /\ runs = 0
    /\ given = 0

McpNext ==
    \/ transport = "http" /\ HttpNext /\ UNCHANGED <<transport, stdioVars>>
    \/ transport = "stdio" /\ StdioNext /\ UNCHANGED <<transport, vars, httpVars>>

McpSpec == McpInit /\ [][McpNext]_allVars

\* Handlers run and tools return: every write has a deadline and every attempt a
\* timeout, and the reader of a line takes what is written to it or is gone.  Nothing
\* says that the deadline of Stop is reached.  A stream that can end and can tick does
\* not tick for ever, since select chooses at random.
McpFairSpec ==
    /\ McpSpec
    /\ WF_allVars(transport = "stdio" /\ HandleLine /\ UNCHANGED <<transport, vars, httpVars>>)
    /\ WF_allVars(transport = "http" /\ Main /\ UNCHANGED <<transport, stdioVars, httpVars, ledger>>)
    /\ \A c \in Clients :
          /\ WF_allVars(transport = "http" /\ Serve(c) /\ UNCHANGED <<transport, stdioVars>>)
          /\ SF_allVars(/\ transport = "http"
                        /\ StreamEnds(c) /\ StreamOver(c)
                        /\ UNCHANGED <<transport, stdioVars>>)

-----------------------------------------------------------------------------
\* The types of the state.
McpTypeOK ==
    /\ transport \in {"stdio", "http"}
    /\ HttpTypeOK
    /\ StdioTypeOK
    /\ asked \subseteq HttpCalls \cup StdioCalls
    /\ ran \subseteq asked
    /\ told \subseteq [call : HttpCalls \cup StdioCalls, code : Codes]
    /\ runs \in Nat
    /\ given \in Nat

Promise == INSTANCE Ledger WITH Calls <- HttpCalls \cup StdioCalls

\* Over either transport the program keeps the promises of Ledger: at most one run and
\* one answer for each call (both are counted, so that a repeat is seen), no run without
\* the right to it, no answer to a notification, and an answer that tells whether the
\* tool ran.
KeepsPromise == Promise!Spec

\* Over either transport, a line that was read is handled to its end and a tool call
\* ends, answered or not, or the process does.
RequestsSettle == LineHandled /\ CallSettles
=============================================================================
