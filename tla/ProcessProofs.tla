----------------------------- MODULE ProcessProofs -----------------------------
(***************************************************************************)
(* Theorems about Process: a verdict of healthy is true, although the      *)
(* wallet, the database and the gateway come and go during the check, for  *)
(* any number of processes, migrations, outages and ways to launch one.    *)
(*                                                                         *)
(* A step of Process is one of Startup, or leaves its processes, tables    *)
(* and database alone, so the invariant of StartupProofs holds here too.   *)
(***************************************************************************)
EXTENDS Process, StartupProofs

----------------------------------------------------------------------------
(* The inductive invariant                                                 *)

Serving == {"serve", "draining"}

WalletStates == {"online", "offline", "hung"}
Req == [at : Procs \cup {"nowhere"}, stage : {"none", "lookup", "resolve", "insert"}]
Probe == [at : Procs \cup {"nowhere"}, client : {"idle", "asking"},
          server : {"none", "wallet", "db"}, walletConnected : BOOLEAN,
          verdict : {"none", "healthy", "unhealthy"}, out : SUBSET {"wallet", "db"}]

\* A request is worked on by a process that serves, or is on its way out.
ReqInv ==
    /\ req \in Req
    /\ req.stage = "none" => req = NoRequest
    /\ req.stage # "none" => req.at \in Procs /\ pc(req.at) \in Serving

\* So is a probe, and what is there, or was when the handler asked, is not noted as
\* out for the whole of the check.
ProbeInv ==
    /\ probe \in Probe
    /\ probe.server # "none" =>
           probe.client = "asking" /\ probe.at \in Procs /\ pc(probe.at) \in Serving
    /\ probe.client = "idle" => ~probe.walletConnected /\ probe.out = {}
    /\ wallet = "online" \/ probe.walletConnected => "wallet" \notin probe.out
    /\ db = "up" => "db" \notin probe.out

ProcessInv == MigrationInv /\ wallet \in WalletStates /\ ReqInv /\ ProbeInv

\* Every step but the loss of the wallet is one of Startup's.
LEMMA ProcessSteps ==
    ASSUME [ProcessNext]_processVars
    PROVE  [Next]_vars \/ WalletLost
<1>1. \A p \in Procs : /\ process(p) => startup(p) \/ Close(p)
                       /\ Request(p) \/ ProbeAsks(p) \/ leftBehind(p) => UNCHANGED vars
    BY DEF process, CloseWhenIdle, Request, ProbeAsks, leftBehind, LeftWallet, LeftPing
<1>2. WalletBack \/ request \/ ClientLeaves \/ health => UNCHANGED vars
    BY DEF WalletBack, request, RequestQueries, RequestResolves, RequestInserts, ClientLeaves,
           health, ProbeWallet, ProbePing, ProbeRefused, ProbeTimesOut
<1>3. UNCHANGED processVars => UNCHANGED vars
    BY DEF processVars
<1> QED
    BY <1>1, <1>2, <1>3 DEF ProcessNext, Next

LEMMA MigrationStays ==
    ASSUME MigrationInv, [ProcessNext]_processVars
    PROVE  MigrationInv'
<1>1. CASE WalletLost
    <2>1. troubles' \in 0..MaxTroubles
        BY <1>1, StartupAssumption DEF WalletLost, Trouble, MigrationInv, TypeOK
    <2>2. UNCHANGED <<proc, tracking, schema, recorded, db, starts>>
        BY <1>1 DEF WalletLost, tables
    <2> QED
        BY <2>1, <2>2
        DEF MigrationInv, TypeOK, SchemaIsRecorded, SchemaIsPrefix, OneTransactionPerVersion, pc
<1> QED
    BY <1>1, ProcessSteps, NextMigrationInv

\* A process that serves goes on serving, drains, or is gone.
LEMMA ServingStays ==
    ASSUME TypeOK, [Next]_vars, NEW p \in Procs, pc(p) \in Serving
    PROVE  proc'[p].pc \in Serving \cup {"off"}
<1>1. proc[p] \in ProcessState /\ proc[p].pc \in Serving
    BY DEF TypeOK, pc
<1>2. ASSUME NEW q \in Procs, startup(q) \/ Close(q)
      PROVE  proc'[p].pc \in Serving \cup {"off"}
    <2>1. CASE q = p
        <3>1. Shutdown(p) \/ Close(p)
            BY <1>1, <1>2, <2>1
            DEF startup, LoadConfig, Connect, LookForTracking, CreateTracking, Check, Apply,
                Record, Commit, StatementFails, Statements, Listen, Serving, pc
        <3>2. Shutdown(p) => proc'[p].pc = "draining"
            BY <1>1 DEF Shutdown, goto, TypeOK, ProcessState
        <3>3. Close(p) => proc'[p].pc = "off"
            BY DEF Close, ends, Stopped, TypeOK
        <3> QED
            BY <3>1, <3>2, <3>3 DEF Serving
    <2>2. CASE q # p
        <3>1. \A label : goto(q, label) => proc'[p] = proc[p]
            BY <2>2 DEF goto, TypeOK
        <3>2. ends(q) => proc'[p] = proc[p]
            BY <2>2 DEF ends, TypeOK
        <3>3. nextVersion(q) => proc'[p] = proc[p]
            BY <2>2 DEF nextVersion, TypeOK
        <3>4. proc'[p] = proc[p]
            BY <1>2, <3>1, <3>2, <3>3
            DEF startup, LoadConfig, Connect, LookForTracking, CreateTracking, Check, Apply,
                Record, Commit, StatementFails, Listen, Shutdown, Close
        <3> QED
            BY <1>1, <3>4
    <2> QED
        BY <2>1, <2>2
<1>3. ASSUME NEW q \in Procs, Launch(q)
      PROVE  proc'[p].pc \in Serving \cup {"off"}
    <2>1. q # p
        BY <1>1, <1>3 DEF Launch, Serving, pc
    <2> QED
        BY <1>1, <1>3, <2>1 DEF Launch, TypeOK
<1>4. ASSUME NEW q \in Procs, Signal(q)
      PROVE  proc'[p].pc \in Serving \cup {"off"}
    BY <1>1, <1>4 DEF Signal, TypeOK, ProcessState
<1>5. ASSUME NEW q \in Procs, Crash(q)
      PROVE  proc'[p].pc \in Serving \cup {"off"}
    BY <1>1, <1>5 DEF Crash, ends, Stopped, TypeOK
<1>6. CASE DatabaseLost
    BY <1>1, <1>6 DEF DatabaseLost, Stopped, TypeOK
<1>7. CASE DatabaseBack \/ MigrateDown \/ UNCHANGED vars
    BY <1>1, <1>7 DEF DatabaseBack, MigrateDown, vars
<1> QED
    BY <1>2, <1>3, <1>4, <1>5, <1>6, <1>7 DEF Next, World

\* What the end of a process does to the request and the probe.
LEMMA OrphanedStep ==
    ASSUME TypeOK, ReqInv, ProbeInv, [Next]_vars, Orphaned
    PROVE  ReqInv' /\ ProbeInv'
<1>1. ReqInv'
    <2>1. CASE \E p \in Procs : req.at = p /\ proc'[p].pc = "off"
        BY <2>1 DEF Orphaned, NoRequest, ReqInv, Req
    <2>2. CASE ~\E p \in Procs : req.at = p /\ proc'[p].pc = "off"
        <3>1. req' = req
            BY <2>2 DEF Orphaned
        <3>2. req.stage # "none" => proc'[req.at].pc \in Serving
            BY <2>2, ServingStays DEF ReqInv, Serving
        <3> QED
            BY <3>1, <3>2 DEF ReqInv, pc
    <2> QED
        BY <2>1, <2>2
<1>2. ProbeInv'
    <2> DEFINE gone == \E p \in Procs : probe.at = p /\ proc'[p].pc = "off"
               back == IF db' = "up" THEN {"db"} ELSE {}
    <2>1. /\ probe' = [probe EXCEPT !.server = IF gone THEN "none" ELSE @,
                                    !.out = @ \ back]
          /\ wallet' = wallet
        BY DEF Orphaned
    <2>2. probe \in Probe
        BY DEF ProbeInv
    <2>3. probe.server # "none" /\ ~gone => proc'[probe.at].pc \in Serving
        BY ServingStays DEF ProbeInv, Serving
    <2>4. db' = "up" => back = {"db"}
        OBVIOUS
    <2> HIDE DEF gone, back
    <2>5. /\ probe'.at = probe.at /\ probe'.client = probe.client
          /\ probe'.walletConnected = probe.walletConnected /\ probe'.verdict = probe.verdict
          /\ probe'.out = probe.out \ back
          /\ probe'.server = IF gone THEN "none" ELSE probe.server
        BY <2>1, <2>2 DEF Probe
    <2>6. probe' \in Probe
        BY <2>1, <2>2 DEF Probe
    <2> QED
        BY <2>1, <2>3, <2>4, <2>5, <2>6 DEF ProbeInv, pc
<1> QED
    BY <1>1, <1>2

\* The request's own steps.
LEMMA RequestStep ==
    ASSUME TypeOK, ReqInv, ProbeInv,
           (\E p \in Procs : Request(p)) \/ request \/ ClientLeaves
    PROVE  ReqInv' /\ ProbeInv' /\ wallet' = wallet
<1>1. UNCHANGED <<vars, wallet, probe>>
    BY DEF Request, request, RequestQueries, RequestResolves, RequestInserts, ClientLeaves
<1>2. \/ req' = NoRequest
      \/ \E p \in Procs : pc(p) = "serve" /\ req' = [at |-> p, stage |-> "lookup"]
      \/ req.stage = "lookup" /\ req' = [req EXCEPT !.stage = "resolve"]
      \/ req.stage = "resolve" /\ req' = [req EXCEPT !.stage = "insert"]
    BY DEF Request, request, RequestQueries, RequestResolves, RequestInserts, ClientLeaves
<1>3. proc' = proc /\ db' = db
    BY <1>1 DEF vars
<1>4. ReqInv'
    <2>1. CASE req' = NoRequest
        BY <2>1 DEF NoRequest, ReqInv, Req
    <2>2. ASSUME NEW p \in Procs, pc(p) = "serve", req' = [at |-> p, stage |-> "lookup"]
          PROVE  ReqInv'
        BY <1>3, <2>2 DEF ReqInv, Req, Serving, pc
    <2>3. CASE req.stage = "lookup" /\ req' = [req EXCEPT !.stage = "resolve"]
        BY <1>3, <2>3 DEF ReqInv, Req, Serving, pc
    <2>4. CASE req.stage = "resolve" /\ req' = [req EXCEPT !.stage = "insert"]
        BY <1>3, <2>4 DEF ReqInv, Req, Serving, pc
    <2> QED
        BY <1>2, <2>1, <2>2, <2>3, <2>4
<1>5. ProbeInv'
    BY <1>1, <1>3 DEF ProbeInv, pc
<1> QED
    BY <1>1, <1>4, <1>5

\* What an answer, of whomever, makes of the probe.
LEMMA AnsweredStep ==
    ASSUME probe \in Probe, NEW verdict \in {"healthy", "unhealthy"}, Answered(verdict)
    PROVE  /\ probe' \in Probe
           /\ probe'.client = "idle" /\ probe'.server = "none" /\ probe'.verdict = verdict
           /\ ~probe'.walletConnected /\ probe'.out = {}
    BY DEF Answered, Probe

\* The probe's own steps.
LEMMA ProbeStep ==
    ASSUME TypeOK, ReqInv, ProbeInv, (\E p \in Procs : ProbeAsks(p)) \/ health
    PROVE  ReqInv' /\ ProbeInv' /\ wallet' = wallet
<1>1. UNCHANGED <<vars, wallet, req>>
    BY DEF ProbeAsks, health, ProbeWallet, ProbePing, ProbeRefused, ProbeTimesOut
<1>2. proc' = proc /\ db' = db
    BY <1>1 DEF vars
<1>3. probe \in Probe
    BY DEF ProbeInv
<1>4. ReqInv'
    BY <1>1, <1>2 DEF ReqInv, pc
<1>5. ASSUME NEW p \in Procs, ProbeAsks(p)
      PROVE  ProbeInv'
    <2>1. probe' = [probe EXCEPT !.at = p, !.client = "asking", !.out = Out,
                                 !.server = IF pc(p) = "serve" THEN "wallet" ELSE "none"]
        BY <1>5 DEF ProbeAsks
    <2>2. /\ Out \in SUBSET {"wallet", "db"}
          /\ wallet = "online" => "wallet" \notin Out
          /\ db = "up" => "db" \notin Out
        BY DEF Out
    <2>3. ~probe.walletConnected
        BY <1>5 DEF ProbeAsks, ProbeInv
    <2> HIDE DEF Out
    <2>4. /\ probe'.at = p /\ probe'.client = "asking" /\ probe'.out = Out
          /\ probe'.server = (IF pc(p) = "serve" THEN "wallet" ELSE "none")
          /\ probe'.walletConnected = probe.walletConnected
        BY <1>3, <2>1 DEF Probe
    <2>5. probe' \in Probe
        BY <1>3, <2>1, <2>2 DEF Probe
    <2> QED
        BY <1>1, <1>2, <2>2, <2>3, <2>4, <2>5 DEF ProbeInv, Serving, pc
<1>6. CASE ProbeWallet
    <2>1. /\ probe.server = "wallet"
          /\ probe' = [probe EXCEPT !.server = "db", !.walletConnected = (wallet = "online")]
        BY <1>6 DEF ProbeWallet
    <2>2. /\ probe' \in Probe /\ probe'.at = probe.at /\ probe'.client = probe.client
          /\ probe'.server = "db" /\ probe'.out = probe.out
          /\ probe'.walletConnected = (wallet = "online")
        BY <1>3, <2>1 DEF Probe
    <2> QED
        BY <1>1, <1>2, <1>4, <2>1, <2>2 DEF ProbeInv, pc
<1>7. CASE ProbePing \/ ProbeRefused \/ ProbeTimesOut
    <2>1. \E verdict \in {"healthy", "unhealthy"} : Answered(verdict)
        BY <1>7 DEF ProbePing, ProbeRefused, ProbeTimesOut
    <2> QED
        BY <1>1, <1>3, <1>4, <2>1, AnsweredStep DEF ProbeInv
<1> QED
    BY <1>1, <1>4, <1>5, <1>6, <1>7 DEF health

\* The wallet comes and goes.
LEMMA WalletStep ==
    ASSUME TypeOK, ReqInv, ProbeInv, WalletLost \/ WalletBack
    PROVE  ReqInv' /\ ProbeInv' /\ wallet' \in WalletStates
<1>1. UNCHANGED <<proc, db, req>> /\ wallet' \in WalletStates
    BY DEF WalletLost, WalletBack, vars, WalletStates
<1>2. ReqInv'
    BY <1>1 DEF ReqInv, pc
<1>3. CASE WalletLost
    BY <1>1, <1>2, <1>3 DEF WalletLost, ProbeInv, pc
<1>4. CASE WalletBack
    <2>1. probe \in Probe /\ probe' = [probe EXCEPT !.out = @ \ {"wallet"}]
        BY <1>4 DEF WalletBack, ProbeInv
    <2>2. /\ probe' \in Probe /\ probe'.out = probe.out \ {"wallet"}
          /\ probe'.at = probe.at /\ probe'.client = probe.client
          /\ probe'.server = probe.server /\ probe'.walletConnected = probe.walletConnected
        BY <2>1 DEF Probe
    <2> QED
        BY <1>1, <1>2, <2>2 DEF ProbeInv, pc
<1> QED
    BY <1>1, <1>2, <1>3, <1>4

LEMMA InitProcessInv == ProcessInit => ProcessInv
<1> SUFFICES ASSUME ProcessInit PROVE ProcessInv
    OBVIOUS
<1>1. MigrationInv
    BY InitMigrationInv DEF ProcessInit
<1>2. ReqInv
    BY DEF ProcessInit, ReqInv, Req, NoRequest
<1>3. ProbeInv
    BY DEF ProcessInit, ProbeInv, Probe
<1> QED
    BY <1>1, <1>2, <1>3 DEF ProcessInit, ProcessInv, WalletStates

LEMMA NextProcessInv == ProcessInv /\ [ProcessNext]_processVars => ProcessInv'
<1> SUFFICES ASSUME ProcessInv, [ProcessNext]_processVars PROVE ProcessInv'
    OBVIOUS
<1>1. TypeOK /\ ReqInv /\ ProbeInv /\ wallet \in WalletStates
    BY DEF ProcessInv, MigrationInv
<1>2. MigrationInv'
    BY MigrationStays DEF ProcessInv
<1>3. ASSUME (\E p \in Procs : process(p)) \/ (World /\ Orphaned)
      PROVE  ReqInv' /\ ProbeInv' /\ wallet' \in WalletStates
    <2>1. [Next]_vars /\ Orphaned
        BY <1>3 DEF process, CloseWhenIdle, Next
    <2> QED
        BY <1>1, <2>1, OrphanedStep DEF Orphaned
<1>4. CASE UNCHANGED processVars
    BY <1>1, <1>2, <1>4 DEF processVars, vars, ReqInv, ProbeInv, ProcessInv, pc
<1>5. CASE \E p \in Procs : leftBehind(p)
    <2>1. UNCHANGED <<vars, wallet, req, probe>>
        BY <1>5 DEF leftBehind, LeftWallet, LeftPing
    <2> QED
        BY <1>1, <1>2, <2>1 DEF vars, ReqInv, ProbeInv, ProcessInv, pc
<1> QED
    BY <1>1, <1>2, <1>3, <1>4, <1>5, RequestStep, ProbeStep, WalletStep DEF ProcessNext, ProcessInv

LEMMA AlwaysProcessInv == ProcessSpec => []ProcessInv
    BY InitProcessInv, NextProcessInv, PTL DEF ProcessSpec

----------------------------------------------------------------------------
(* Theorems                                                                *)

\* The migrations and the schema are as in StartupProofs under the requests, the health
\* checks and a wallet that comes and goes.
THEOREM SchemaUnderHandlers ==
    ProcessSpec => [](SchemaIsRecorded /\ SchemaIsPrefix /\ ServesFullSchema)
<1>1. ProcessInv => SchemaIsRecorded /\ SchemaIsPrefix /\ ServesFullSchema
    BY DEF ProcessInv, MigrationInv, Knows, Migrated, ServesFullSchema, pc
<1> QED
    BY <1>1, AlwaysProcessInv, PTL

\* The step that ends a check with a good verdict is a ping.
LEMMA HealthyStep ==
    ASSUME ProcessInv, [ProcessNext]_processVars,
           probe.client = "asking", probe'.client = "idle", probe'.verdict = "healthy"
    PROVE  /\ probe.walletConnected /\ db = "up"
           /\ probe.server = "db"
<1>1. probe \in Probe
    BY DEF ProcessInv, ProbeInv
<1>2. Orphaned => probe'.client = probe.client
    BY <1>1 DEF Orphaned, Probe
<1>3. WalletBack => probe'.client = probe.client
    BY <1>1 DEF WalletBack, Probe
<1>4. \A p \in Procs : ~ProbeAsks(p) /\ ~process(p) /\ ~leftBehind(p)
    BY <1>2 DEF ProbeAsks, process, leftBehind, LeftWallet, LeftPing
<1>5. ProbeWallet => probe'.client = probe.client
    BY <1>1 DEF ProbeWallet, Probe
<1>6. ProbeRefused \/ ProbeTimesOut => probe'.verdict = "unhealthy"
    BY <1>1, AnsweredStep DEF ProbeRefused, ProbeTimesOut
<1>7. ProbePing
    BY <1>2, <1>3, <1>4, <1>5, <1>6
    DEF ProcessNext, processVars, Request, request, RequestQueries, RequestResolves,
        RequestInserts, ClientLeaves, WalletLost, health
<1>8. PICK dbConnected \in BOOLEAN :
          /\ dbConnected => db = "up"
          /\ Answered(IF healthy(dbConnected) THEN "healthy" ELSE "unhealthy")
    BY <1>7 DEF ProbePing
<1>9. healthy(dbConnected)
    <2>1. ~healthy(dbConnected) => Answered("unhealthy")
        BY <1>8
    <2> QED
        BY <1>1, <2>1, AnsweredStep
<1> QED
    BY <1>7, <1>8, <1>9 DEF ProbePing, healthy

\* The wallet and the database are asked one after the other, and come and go; yet a
\* gateway called healthy had each of them at some moment of the check, and the whole
\* schema at the end of it.
THEOREM HealthyIsReady == ProcessSpec => HealthyMeansReady
<1>1. ProcessInv /\ [ProcessNext]_processVars =>
          [probe.client = "asking" /\ probe'.client = "idle" /\ probe'.verdict = "healthy"
               => probe.out = {} /\ schema = Versions]_processVars
    <2> SUFFICES ASSUME ProcessInv, [ProcessNext]_processVars,
                        probe.client = "asking", probe'.client = "idle",
                        probe'.verdict = "healthy"
                 PROVE  probe.out = {} /\ schema = Versions
        OBVIOUS
    <2>1. /\ probe.walletConnected /\ db = "up"
          /\ probe.server = "db"
        BY HealthyStep
    <2>2. ProbeInv /\ MigrationInv
        BY DEF ProcessInv
    <2>3. probe.out \subseteq {"wallet", "db"}
        BY <2>2 DEF ProbeInv, Probe
    <2>4. probe.out = {}
        BY <2>1, <2>2, <2>3 DEF ProbeInv
    <2>5. schema = Versions
        BY <2>1, <2>2 DEF ProbeInv, Serving, MigrationInv, Knows, Migrated, pc
    <2> QED
        BY <2>4, <2>5
<1> QED
    BY <1>1, AlwaysProcessInv, PTL DEF ProcessSpec, HealthyMeansReady
=============================================================================
