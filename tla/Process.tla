-------------------------------- MODULE Process --------------------------------
(***************************************************************************)
(* The gateway as its operator sees it: the startup and shutdown of        *)
(* Startup, the wallet and the database coming and going under it, a       *)
(* request it is working on, and the container's health check asking how   *)
(* it is (GET /health and the healthcheck binary).                         *)
(*                                                                         *)
(* Of a request only its use of the pool and of the wallet matters here:   *)
(* what POST /invoice does to the invoices is the business of Orders.      *)
(***************************************************************************)
EXTENDS Startup

VARIABLES
    wallet,   \* "online", "offline", or "hung": reached and not answering
    req,      \* the request: at which process, and what it is waiting for
    probe,    \* the health check: its two ends, and the handler's local
    left      \* the handlers whose client gave up: the process, what they wait for

processVars == <<vars, wallet, req, probe, left>>

NoRequest == [at |-> "nowhere", stage |-> "none"]

ProcessInit ==
    /\ Init
    /\ wallet = "online"
    /\ req = NoRequest
    /\ probe = [at |-> "nowhere", client |-> "idle", server |-> "none",
                walletConnected |-> FALSE, verdict |-> "none", out |-> {}]
    /\ left = {}

----------------------------------------------------------------------------
(* POST /invoice                                                           *)

\* A lookup and an insert, each with a connection of the pool, and a call of
\* the wallet between them.
Request(p) ==
    /\ pc(p) = "serve" /\ req = NoRequest
    /\ req' = [at |-> p, stage |-> "lookup"]
    /\ UNCHANGED <<vars, wallet, probe, left>>

\* Mutant: a transaction around the whole of Create.
holdsConnection_Throughout(p) == req.at = p /\ req.stage \in {"lookup", "resolve", "insert"}

holdsConnection(p) == req.at = p /\ req.stage \in {"lookup", "insert"}

\* The statement answers or fails; only a database that hangs keeps it.
RequestQueries ==
    /\ req.stage = "lookup" /\ db # "hung"
    /\ req' = IF db = "up" THEN [req EXCEPT !.stage = "resolve"] ELSE NoRequest
    /\ UNCHANGED <<vars, wallet, probe, left>>

\* The wallet's call takes no context.  A pool that is being closed may have no
\* connection for the insert, and a wallet that is not online may fail.
RequestResolves ==
    /\ req.stage = "resolve" /\ wallet # "hung"
    /\ \/ req' = [req EXCEPT !.stage = "insert"]
       \/ (wallet # "online" \/ pc(req.at) # "serve") /\ req' = NoRequest
    /\ UNCHANGED <<vars, wallet, probe, left>>

RequestInserts ==
    /\ req.stage = "insert" /\ db # "hung"
    /\ req' = NoRequest
    /\ UNCHANGED <<vars, wallet, probe, left>>

\* The client hangs up, which cancels the context of its statement.
ClientLeaves ==
    /\ req.stage \in {"lookup", "insert"}
    /\ req' = NoRequest
    /\ UNCHANGED <<vars, wallet, probe, left>>

request == RequestQueries \/ RequestResolves \/ RequestInserts

----------------------------------------------------------------------------
(* GET /health and its client                                              *)

Out == {d \in {"wallet", "db"} : (d = "wallet" /\ wallet # "online") \/ (d = "db" /\ db # "up")}

\* The healthcheck binary asks the gateway it shares a container with.
ProbeAsks(p) ==
    /\ probe.client = "idle" /\ pc(p) # "off"
    /\ probe' = [probe EXCEPT !.at = p, !.client = "asking", !.out = Out,
                              !.server = IF pc(p) = "serve" THEN "wallet" ELSE "none"]
    /\ UNCHANGED <<vars, wallet, req, left>>

\* The handler asks the wallet first, and has no deadline for it.
ProbeWallet ==
    /\ probe.server = "wallet" /\ wallet # "hung"
    /\ probe' = [probe EXCEPT !.server = "db", !.walletConnected = (wallet = "online")]
    /\ UNCHANGED <<vars, wallet, req, left>>

\* Mutant: one dependency is enough.
healthy_Either(dbConnected) == probe.walletConnected \/ dbConnected

healthy(dbConnected) == probe.walletConnected /\ dbConnected

Answered(verdict) ==
    probe' = [probe EXCEPT !.client = "idle", !.server = "none", !.at = "nowhere",
                           !.walletConnected = FALSE, !.out = {}, !.verdict = verdict]

\* Then the database, within what is left of five seconds: the ping may fail
\* although the database is up, and once the pool is being closed.
ProbePing ==
    /\ probe.server = "db"
    /\ \E dbConnected \in BOOLEAN :
           /\ dbConnected => db = "up"
           /\ Answered(IF healthy(dbConnected) THEN "healthy" ELSE "unhealthy")
    /\ UNCHANGED <<vars, wallet, req, left>>

\* The connection is refused, or closed by a process that ended.
ProbeRefused ==
    /\ probe.client = "asking" /\ probe.server = "none"
    /\ Answered("unhealthy")
    /\ UNCHANGED <<vars, wallet, req, left>>

\* Mutant: a client that trusts the handler's deadline.
ProbeTimesOut_Never ==
    /\ probe.client = "asking" /\ probe.server = "db"
    /\ Answered("unhealthy")
    /\ left' = left \cup {<<probe.at, probe.server>>}
    /\ UNCHANGED <<vars, wallet, req>>

\* The client's own five seconds.  Its handler goes on with what it waits for, and its
\* answer goes nowhere.
ProbeTimesOut ==
    /\ probe.client = "asking" /\ probe.server # "none"
    /\ Answered("unhealthy")
    /\ left' = left \cup {<<probe.at, probe.server>>}
    /\ UNCHANGED <<vars, wallet, req>>

\* The handlers left behind at one place go on together: the wallet answers them all ...
LeftWallet(p) ==
    /\ <<p, "wallet">> \in left /\ wallet # "hung"
    /\ left' = (left \ {<<p, "wallet">>}) \cup {<<p, "db">>}
    /\ UNCHANGED <<vars, wallet, req, probe>>

\* Mutant: the ping is given a context of its own.
LeftPing_NoContext(p) ==
    /\ <<p, "db">> \in left /\ db # "hung"
    /\ left' = left \ {<<p, "db">>}
    /\ UNCHANGED <<vars, wallet, req, probe>>

\* ... and the ping of each fails, because its context ended with the client.
LeftPing(p) ==
    /\ <<p, "db">> \in left
    /\ left' = left \ {<<p, "db">>}
    /\ UNCHANGED <<vars, wallet, req, probe>>

leftBehind(p) == LeftWallet(p) \/ LeftPing(p)

health == ProbeWallet \/ ProbePing \/ ProbeRefused \/ ProbeTimesOut

----------------------------------------------------------------------------
(* The processes, with what their ends take along                          *)

\* What a process was working on when it ended.
Orphaned ==
    /\ req' = IF \E p \in Procs : req.at = p /\ proc'[p].pc = "off" THEN NoRequest ELSE req
    /\ probe' = [probe EXCEPT
           !.server = IF \E p \in Procs : probe.at = p /\ proc'[p].pc = "off"
                      THEN "none" ELSE @,
           !.out = @ \ (IF db' = "up" THEN {"db"} ELSE {})]
    /\ left' = {h \in left : proc'[h[1]].pc # "off"}
    /\ UNCHANGED wallet

\* Pool.Close waits for every connection that is in use; that of a ping comes
\* back with the ping's deadline.
CloseWhenIdle(p) == ~holdsConnection(p) /\ Close(p)

process(p) == (startup(p) \/ CloseWhenIdle(p)) /\ Orphaned

WalletLost ==
    /\ wallet = "online" /\ wallet' \in {"offline", "hung"} /\ Trouble
    /\ UNCHANGED <<proc, tables, db, starts, req, probe, left>>

WalletBack ==
    /\ wallet # "online" /\ wallet' = "online"
    /\ probe' = [probe EXCEPT !.out = @ \ {"wallet"}]
    /\ UNCHANGED <<vars, req, left>>

ProcessNext ==
    \/ \E p \in Procs : process(p) \/ Request(p) \/ ProbeAsks(p) \/ leftBehind(p)
    \/ World /\ Orphaned
    \/ WalletLost \/ WalletBack
    \/ request \/ ClientLeaves
    \/ health

ProcessSpec == ProcessInit /\ [][ProcessNext]_processVars

\* Main and the handlers run when they can, also those that were left behind (each has
\* its goroutine), and the client's timer fires.  Nothing restarts a
\* process, and nothing that is lost need come back.
ProcessFairSpec ==
    /\ ProcessSpec
    /\ \A p \in Procs :
           /\ WF_processVars(process(p))
           /\ WF_processVars(LeftWallet(p)) /\ WF_processVars(LeftPing(p))
    /\ WF_processVars(request) /\ WF_processVars(ProbeRefused) /\ WF_processVars(ProbeTimesOut)

----------------------------------------------------------------------------
(* Properties                                                              *)

\* A verdict of healthy is news: neither the wallet nor the database was out for
\* the whole of the check, although they are asked one after the other and may
\* come and go meanwhile, and the process that answered has its whole schema.
HealthyMeansReady ==
    [][probe.client = "asking" /\ probe'.client = "idle" /\ probe'.verdict = "healthy"
           => probe.out = {} /\ schema = Versions]_processVars

\* The health check reaches a verdict, with a wallet that never answers, a
\* database that never answers, or a gateway that ends under it.
ProbeEnds == probe.client = "asking" ~> probe.client = "idle"

\* The handlers of checks that were given up do not pile up: each ends although nobody
\* waits for it, whatever the database does, unless the wallet never answers again.
HandlersEnd ==
    \A h \in Procs \X {"wallet", "db"} : h \in left ~> (h \notin left \/ [](wallet = "hung"))

\* A gateway told to stop is gone in the end, wherever it was, unless the
\* database does not answer: a wallet that hangs does not keep it.
ShutdownEnds ==
    \A p \in Procs : proc[p].signalled ~> pc(p) = "off" \/ db = "hung"
=============================================================================
