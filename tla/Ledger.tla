------------------------------- MODULE Ledger -------------------------------
(***************************************************************************)
(* What the server promises its clients about calls, whatever carries      *)
(* them.  A call runs its tool at most once, and only if it is entitled    *)
(* to one; it is answered at most once, only if it wants an answer, and    *)
(* the answer tells whether the tool ran: a result or an internal error    *)
(* after it ran, anything else if it never did nor will.  Runs and answers *)
(* are counted, so that to run a call again, or to repeat an answer, is a  *)
(* step, and none that is allowed.  A call may stay without its answer.    *)
(***************************************************************************)
EXTENDS Rpc, FiniteSets

CONSTANT Calls      \* records with a field tool (entitled to run one) and a
                    \* field wants (an answer is due)

Told(c) == \E t \in told : t.call = c

Init == asked = {} /\ ran = {} /\ told = {} /\ runs = 0 /\ given = 0

Ask ==
    /\ asked \subseteq asked'
    /\ asked' \subseteq Calls
    /\ UNCHANGED <<ran, told, runs, given>>

Run(c) ==
    /\ c.tool
    /\ ~Told(c)
    /\ ran' = ran \cup {c}
    /\ runs' = runs + 1
    /\ UNCHANGED <<asked, told, given>>

\* The answers of a batch are given together.
Tell ==
    /\ told \subseteq told'
    /\ \A t \in told' \ told :
          /\ t.call \in asked
          /\ t.call.wants
          /\ ~Told(t.call)
          /\ IF t.call.tool
             THEN t.call \in ran /\ t.code \in {Result, InternalError}
             ELSE t.code \in Codes \ {InternalError}
    /\ \A t, u \in told' \ told : t.call = u.call => t = u
    /\ given' = given + Cardinality(told' \ told)
    /\ UNCHANGED <<asked, ran, runs>>

Next == Ask \/ (\E c \in asked \ ran : Run(c)) \/ Tell

Spec == Init /\ [][Next]_ledger
=============================================================================
