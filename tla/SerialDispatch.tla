--------------------------- MODULE SerialDispatch ---------------------------
(***************************************************************************)
(* What per-context dispatch promises: each context is a first-come-first- *)
(* served line of its own.  A call joins at the end of its context's line; *)
(* only the head of a line is served, and it leaves when its service ends, *)
(* well or badly.  Lines do not affect each other.                         *)
(***************************************************************************)
EXTENDS Sequences

CONSTANTS Call, Context, ContextOf

VARIABLES
    line,   \* the calls of each context that wait or are served
    busy    \* the contexts whose head is being served

vars == <<line, busy>>

Init == line = [x \in Context |-> <<>>] /\ busy = {}

Join(c) ==
    /\ line' = [line EXCEPT ![ContextOf[c]] = Append(@, c)]
    /\ UNCHANGED busy

Serve(x) ==
    /\ x \notin busy /\ line[x] # <<>>
    /\ busy' = busy \cup {x}
    /\ UNCHANGED line

Leave(x) ==
    /\ x \in busy
    /\ busy' = busy \ {x}
    /\ line' = [line EXCEPT ![x] = Tail(@)]

Next == (\E c \in Call : Join(c)) \/ (\E x \in Context : Serve(x) \/ Leave(x))

Spec == Init /\ [][Next]_vars
=============================================================================
