------------------------------- MODULE MCMcp -------------------------------
(***************************************************************************)
(* A small instance of the program and its two transports for TLC.         *)
(***************************************************************************)
EXTENDS Mcp, TLC

CONSTANTS k1, k2, c1, c2

Msg(id, method, arg) == [id |-> id, method |-> method, arg |-> arg]

Tool(id) == Msg(id, "tools/call", "known")

One(r) == [form |-> "single", requests |-> <<r>>]

Bare(form) == [form |-> form, requests |-> <<>>]

\* Lines: nothing, what does not decode, what does not fit, single messages, and
\* arrays with and without notifications.
MCLines ==
    {Bare("blank"), Bare("garbage"), Bare("long"),
     One(Tool(1)), One(Tool(0)), One(Msg(2, "other", "none")),
     [form |-> "batch", requests |-> <<Tool(1), Tool(0), Msg(2, "resources/read", "unknown")>>],
     [form |-> "batch", requests |-> <<Msg(0, "other", "none"), Tool(0)>>],
     [form |-> "batch", requests |-> <<Tool(3), Tool(3)>>]}

Post(apiKey, bearer, versions, body) ==
    [path |-> "mcp", verb |-> "POST", apiKey |-> apiKey, bearer |-> bearer,
     versions |-> versions, body |-> body]

Get(path) ==
    [path |-> path, verb |-> "GET", apiKey |-> k1, bearer |-> NoKey,
     versions |-> {}, body |-> Bare("blank")]

\* Requests with the right key in either header, a wrong one, none; with one version,
\* several, or none; with every kind of body; and the routes that are not JSON-RPC.
EveryRequest ==
    {Post(NoKey, k1, {}, One(Tool(1))), Post(k1, NoKey, {Preferred}, One(Tool(0))),
     Post(k2, k1, {}, One(Tool(1))), Post(NoKey, NoKey, {}, One(Tool(1))),
     Post(k1, k2, {Preferred, Unsupported}, One(Tool(1))),
     Post(k1, NoKey, {}, Bare("long")),
     [Get("mcp") EXCEPT !.verb = "OPTIONS"], [Get("mcp") EXCEPT !.verb = "PUT"],
     Get("mcp"), Get("healthz"), Get("metrics"), Get("elsewhere")}

\* One client sends any of them; the other negotiates a version, speaks it or not,
\* streams, and sends a notification, in any order.
MCHttpRequests ==
    [c \in Clients |->
        IF c = c1 THEN EveryRequest
        ELSE {Post(k1, NoKey, {}, One(Msg(1, "initialize", Unsupported))),
              Post(k1, NoKey, {Preferred}, One(Msg(0, "ping", "none"))),
              Post(k1, NoKey, {Unsupported}, One(Msg(1, "ping", "none"))), Get("mcp")}]

MCMaxTurns == [c \in Clients |-> IF c = c1 THEN 1 ELSE 2]
=============================================================================
