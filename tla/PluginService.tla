--------------------------- MODULE PluginService ---------------------------
(***************************************************************************)
(* The service of the plugin, start() and stop() in src/index.ts, with the *)
(* discovery it starts (Discovery) and the responder by which other        *)
(* gateways find this one (MdnsResponder in src/src/dns-responder.ts).     *)
(*                                                                         *)
(* start() awaits the HTTP server, the gRPC server and the recovery of     *)
(* tasks; stop() takes away what is there when it is called, whether or    *)
(* not a start() is still under way, which then goes on.  Calls of start() *)
(* that get past its first line are numbered by `starts`.                  *)
(***************************************************************************)
EXTENDS Discovery

VARIABLES
    at,            \* how far each start() has come
    overlapped,    \* history: the starts that a stop() overlapped
    server,        \* the start whose HTTP server is in `server`, 0 for null
    listening,     \* the starts whose HTTP servers listen
    grpcServer,    \* the start whose gRPC server is in `grpcServer`
    bound,         \* per start, its gRPC server
    cleanupTimer,  \* the start whose interval is in `cleanupTimer`
    cleaning,      \* the starts whose cleanup intervals run
    checks,        \* how many intervals of health checks run
    advertising,   \* has the responder a socket, and its interval?
    heard          \* does the other gateways' resolver hold our records?

startVars   == <<at, overlapped>>
httpVars    == <<server, listening>>
grpcVars    == <<grpcServer, bound>>
timerVars   == <<cleanupTimer, cleaning, checks>>
mdnsVars    == <<advertising, heard>>
serviceVars == <<vars, startVars, httpVars, grpcVars, timerVars, mdnsVars>>

Run == 1..MaxStarts

ServiceInit ==
    /\ Init
    /\ at = [i \in Run |-> "none"] /\ overlapped = {}
    /\ server = 0 /\ listening = {}
    /\ grpcServer = 0 /\ bound = [i \in Run |-> "none"]
    /\ cleanupTimer = 0 /\ cleaning = {} /\ checks = 0
    /\ advertising = FALSE /\ heard = FALSE

Goes(i, from, to) == at[i] = from /\ at' = [at EXCEPT ![i] = to]

-----------------------------------------------------------------------------
(* start().                                                                *)

\* Up to the first await; with a server there it returns at once.
StartCalled ==
    /\ server = 0
    /\ Start
    /\ checks' = checks + 1
    /\ server' = starts'
    /\ Goes(starts', "none", "listen")
    /\ UNCHANGED <<overlapped, listening, grpcVars, cleanupTimer, cleaning, mdnsVars>>

\* The HTTP server listens, even after a stop() that came before it did; the
\* gRPC server is created and told to bind.
Listens(i) ==
    /\ listening = {}
    /\ Goes(i, "listen", "bind")
    /\ listening' = {i}
    /\ grpcServer' = i /\ bound' = [bound EXCEPT ![i] = "binding"]
    /\ UNCHANGED <<vars, overlapped, server, timerVars, mdnsVars>>

\* start() rejects, and `server` stays.
ListenFails(i) ==
    /\ Goes(i, "listen", "failed")
    /\ UNCHANGED <<vars, overlapped, httpVars, grpcVars, timerVars, mdnsVars>>

\* Mutant: a gRPC server that cannot be bound is fatal.
AfterBind_Fatal(ok) == IF ok THEN "recover" ELSE "failed"

AfterBind(ok) == "recover"

\* The answer of bindAsync.  A failure, also that of a server that was shut down
\* meanwhile, takes away whatever is in `grpcServer`.
Binds(i, ok) ==
    /\ ok => bound[i] = "binding"
    /\ Goes(i, "bind", AfterBind(ok))
    /\ bound' = [bound EXCEPT ![i] = IF ok THEN "bound" ELSE "shut"]
    /\ grpcServer' = IF ok THEN grpcServer ELSE 0
    /\ UNCHANGED <<vars, overlapped, httpVars, timerVars, mdnsVars>>

\* Recovery has ended, as it does whatever goes wrong: the rest of start().
Recovers(i) ==
    /\ Goes(i, "recover", "done")
    /\ cleanupTimer' = i /\ cleaning' = cleaning \cup {i}
    /\ advertising' = TRUE
    /\ heard' \in {heard, TRUE}
    /\ UNCHANGED <<vars, overlapped, httpVars, grpcVars, checks>>

-----------------------------------------------------------------------------
(* stop().                                                                 *)

\* Mutant: says goodbye, and keeps the socket and the interval.
StopResponder_Lingers ==
    /\ heard' \in IF advertising THEN {heard, FALSE} ELSE {heard}
    /\ UNCHANGED advertising

\* The goodbye packet may be lost.
StopResponder ==
    /\ advertising' = FALSE
    /\ heard' \in IF advertising THEN {heard, FALSE} ELSE {heard}

\* Mutant: the handle is dropped, and the interval goes on.
StopCleanup_Forgets == cleanupTimer' = 0 /\ UNCHANGED cleaning

StopCleanup == cleanupTimer' = 0 /\ cleaning' = cleaning \ {cleanupTimer}

StopGrpc ==
    /\ grpcServer' = 0
    /\ bound' = [i \in Run |-> IF i = grpcServer THEN "shut" ELSE bound[i]]

\* close() of a server that does not listen yet fails, without effect.
StopHttp == server' = 0 /\ listening' = listening \ {server}

UnderWay == {i \in Run : at[i] \in {"listen", "bind", "recover"}}

StopCalled ==
    /\ IF running THEN Stop ELSE UNCHANGED vars
    /\ StopResponder /\ StopCleanup /\ StopGrpc /\ StopHttp
    /\ checks' = IF checks > 0 THEN checks - 1 ELSE 0
    /\ overlapped' = overlapped \cup UnderWay
    /\ UNCHANGED at

-----------------------------------------------------------------------------
(* The responder, and what others hear of it.                              *)

\* advertise(), on a query or by the interval.  The packet may be lost.
Advertises ==
    /\ advertising
    /\ heard' = TRUE
    /\ UNCHANGED <<vars, startVars, httpVars, grpcVars, timerVars, advertising>>

\* The TTL has passed since the last announcement that arrived.
RecordsExpire ==
    /\ heard /\ heard' = FALSE
    /\ UNCHANGED <<vars, startVars, httpVars, grpcVars, timerVars, advertising>>

Discovers ==
    /\ \/ \E l \in Lookup : Answers(l) \/ Fires(l)
       \/ \E p \in Peer : Expires(p)
       \/ NetworkChanges
    /\ UNCHANGED <<startVars, httpVars, grpcVars, timerVars, mdnsVars>>

Proceeds(i) == Binds(i, TRUE) \/ Binds(i, FALSE) \/ Recovers(i)

ServiceNext ==
    \/ StartCalled \/ StopCalled
    \/ \E i \in Run : Listens(i) \/ ListenFails(i) \/ Proceeds(i)
    \/ Advertises \/ RecordsExpire \/ Discovers

ServiceSpec == ServiceInit /\ [][ServiceNext]_serviceVars

Aside(A) == A /\ UNCHANGED <<startVars, httpVars, grpcVars, timerVars, mdnsVars>>

\* As in Discovery.  bindAsync calls back, recovery ends, records expire.  That a
\* server listens, or fails to, is not assumed: after a stop() it may do neither.
ServiceFairness ==
    /\ WF_serviceVars(\E l \in Lookup : Aside(IntervalFires(l)))
    /\ WF_serviceVars(\E l \in Lookup : Aside(TimeoutFires(l)))
    /\ WF_serviceVars(\E l \in Lookup : Aside(OrphanFires(l)))
    /\ \A l \in Lookup : WF_serviceVars(Aside(Answers(l)))
    /\ \A i \in Run : WF_serviceVars(Proceeds(i))
    /\ WF_serviceVars(RecordsExpire)

ServiceFairSpec == ServiceSpec /\ ServiceFairness

-----------------------------------------------------------------------------
(* Properties.                                                             *)

\* What runs belongs to the start that is current: after stop() nothing of the
\* service goes on, and nothing runs twice, unless a stop() came into a start().
\* Also then, only an overlapped start keeps an HTTP server that nothing closes.
NothingLeaks ==
    /\ listening \subseteq overlapped \cup {server}
    /\ overlapped = {} =>
          /\ cleaning \cup {i \in Run : bound[i] \in {"binding", "bound"}} \subseteq {server}
          /\ advertising => server # 0
    /\ checks = IF server = 0 THEN 0 ELSE 1
    /\ running <=> server # 0

\* A start() that got its HTTP server completes, also without gRPC.
StartCompletes == \A i \in Run : at[i] = "bind" ~> at[i] = "done"

\* Other gateways forget one that was stopped for good: the goodbye may be lost,
\* but nothing renews the records, unless a stop() came into a start().
Forgotten == <>[](server = 0 /\ overlapped = {}) => <>[]~heard
=============================================================================
