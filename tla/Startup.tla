-------------------------------- MODULE Startup --------------------------------
(***************************************************************************)
(* How a gateway comes up and goes down: main from its flags to            *)
(* ListenAndServe and back, with db.Connect, DB.Migrate and DB.MigrateDown.*)
(*                                                                         *)
(* Several gateways may be started on one database.  Each decides outside  *)
(* a transaction whether a version is applied, and applies it in one.      *)
(* log.Fatalf, a crash and a return of main all end the process: the       *)
(* database then rolls back what it had not committed.                     *)
(***************************************************************************)
EXTENDS Config, FiniteSets

CONSTANTS
    Procs,        \* the processes an operator starts
    N,            \* how many migrations are embedded
    MaxStarts,    \* bound on starts
    MaxTroubles   \* bound on crashes, signals and outages

ASSUME StartupAssumption ==
    N \in Nat \ {0} /\ MaxStarts \in Nat /\ MaxTroubles \in Nat

Versions == 1..N    \* upVersions, in filename order

VARIABLES
    proc,       \* each process: how it was launched, where main is, its locals
    tracking,   \* the table schema_migrations exists
    schema,     \* the versions whose SQL is committed
    recorded,   \* the versions with a committed row in schema_migrations
    db,         \* "up", "down", or "hung": reached and not answering
    starts, troubles

tables == <<tracking, schema, recorded>>
bounds == <<starts, troubles>>
vars == <<proc, tables, db, bounds>>

Stopped ==
    [pc |-> "off", launch |-> "none", at |-> 1, signalled |-> FALSE]

\* The database of an earlier release, or a new one.
Init ==
    /\ proc = [p \in Procs |-> Stopped]
    /\ \E k \in 0..N : schema = 1..k /\ recorded = 1..k /\ tracking = (k > 0)
    /\ db = "up"
    /\ starts = 0 /\ troubles = 0

pc(p) == proc[p].pc
cfg(p) == Load[proc[p].launch]
goto(p, label) == proc' = [proc EXCEPT ![p].pc = label]
ends(p) == proc' = [proc EXCEPT ![p] = Stopped]
Trouble == troubles < MaxTroubles /\ troubles' = troubles + 1

----------------------------------------------------------------------------
(* Configuration                                                           *)

Launch(p) ==
    /\ pc(p) = "off" /\ starts < MaxStarts
    /\ starts' = starts + 1
    /\ \E l \in Launches :
           proc' = [proc EXCEPT ![p] = [Stopped EXCEPT !.pc = "load", !.launch = l]]
    /\ UNCHANGED <<tables, db, troubles>>

\* Mutant: the webhook settings are not checked.
LoadConfig_Unchecked(p) ==
    /\ pc(p) = "load"
    /\ IF proc[p].launch \in LoadFails THEN ends(p) ELSE goto(p, "connect")
    /\ UNCHANGED <<tables, db, bounds>>

LoadConfig(p) ==
    /\ pc(p) = "load"
    /\ IF proc[p].launch \in Refused THEN ends(p) ELSE goto(p, "connect")
    /\ UNCHANGED <<tables, db, bounds>>

----------------------------------------------------------------------------
(* Connect and Migrate                                                     *)

\* Every statement takes the context the signal cancels.
Answers(p) == db = "up" /\ ~proc[p].signalled

\* The ping.
Connect(p) ==
    /\ pc(p) = "connect" /\ Answers(p)
    /\ goto(p, "look")
    /\ UNCHANGED <<tables, db, bounds>>

\* Mutant: CREATE TABLE without IF NOT EXISTS.
LookForTracking_Never(p) ==
    /\ pc(p) = "look" /\ Answers(p)
    /\ goto(p, "create")
    /\ UNCHANGED <<tables, db, bounds>>

\* CREATE TABLE IF NOT EXISTS looks for the table ...
LookForTracking(p) ==
    /\ pc(p) = "look" /\ Answers(p)
    /\ goto(p, IF tracking THEN "check" ELSE "create")
    /\ UNCHANGED <<tables, db, bounds>>

\* ... and creates it, which Postgres refuses when another has in between.
CreateTracking(p) ==
    /\ pc(p) = "create" /\ Answers(p)
    /\ IF tracking THEN ends(p) ELSE goto(p, "check")
    /\ tracking' = TRUE
    /\ UNCHANGED <<schema, recorded, db, bounds>>

\* Mutant: the loop runs one too far.
nextVersion_TooFar(p) ==
    proc' = IF proc[p].at > N THEN [proc EXCEPT ![p].pc = "listen"]
            ELSE [proc EXCEPT ![p].pc = "check", ![p].at = @ + 1]

\* The end of the loop's body.
nextVersion(p) ==
    proc' = IF proc[p].at = N THEN [proc EXCEPT ![p].pc = "listen"]
            ELSE [proc EXCEPT ![p].pc = "check", ![p].at = @ + 1]

\* Mutant: the first version that is applied ends the loop.
Check_Returns(p) ==
    /\ pc(p) = "check" /\ Answers(p)
    /\ goto(p, IF proc[p].at \in recorded THEN "listen" ELSE "apply")
    /\ UNCHANGED <<tables, db, bounds>>

\* SELECT EXISTS: alreadyApplied.
Check(p) ==
    /\ pc(p) = "check" /\ Answers(p)
    /\ IF proc[p].at \in recorded THEN nextVersion(p) ELSE goto(p, "apply")
    /\ UNCHANGED <<tables, db, bounds>>

\* Those with an open transaction that has applied version k.
Applying(k) == {p \in Procs : pc(p) \in {"applied", "unrecorded"} /\ proc[p].at = k}

\* Its SQL creates what must not be there, on top of what the earlier versions made.
Applies(k) == k \notin schema /\ 1..(k - 1) \subseteq schema

\* Mutant: the SQL runs on the pool, outside the transaction.
Apply_Outside(p) ==
    /\ pc(p) = "apply" /\ Answers(p) /\ Applying(proc[p].at) = {}
    /\ IF Applies(proc[p].at)
       THEN goto(p, "applied") /\ schema' = schema \cup {proc[p].at}
       ELSE ends(p) /\ schema' = schema
    /\ UNCHANGED <<tracking, recorded, db, bounds>>

\* Begin, and the version's SQL.  It waits for another transaction that creates
\* the same, and fails once that has committed.
Apply(p) ==
    /\ pc(p) = "apply" /\ Answers(p) /\ Applying(proc[p].at) = {}
    /\ IF Applies(proc[p].at) THEN goto(p, "applied") ELSE ends(p)
    /\ UNCHANGED <<tables, db, bounds>>

\* INSERT INTO schema_migrations.
Record(p) ==
    /\ pc(p) = "applied" /\ Answers(p)
    /\ goto(p, "unrecorded")
    /\ UNCHANGED <<tables, db, bounds>>

\* A commit whose answer is lost is a commit and an end right after it.
Commit(p) ==
    /\ pc(p) = "unrecorded" /\ Answers(p)
    /\ schema' = schema \cup {proc[p].at} /\ recorded' = recorded \cup {proc[p].at}
    /\ nextVersion(p)
    /\ UNCHANGED <<tracking, db, bounds>>

Statements == {"connect", "look", "create", "check", "apply", "applied", "unrecorded"}

\* A statement returns an error: log.Fatalf.
StatementFails(p) ==
    /\ pc(p) \in Statements /\ (db = "down" \/ proc[p].signalled)
    /\ ends(p)
    /\ UNCHANGED <<tables, db, bounds>>

----------------------------------------------------------------------------
(* Serving                                                                 *)

Taken(p) ==
    \E q \in Procs :
        pc(q) = "serve" /\ cfg(q)["HTTPListenAddr"] = cfg(p)["HTTPListenAddr"]

\* The goroutines are started and ListenAndServe binds the address, unless the
\* Shutdown of a signal that came before has already closed the server.
Listen(p) ==
    /\ pc(p) = "listen"
    /\ CASE proc[p].signalled -> goto(p, "draining")
         [] ~proc[p].signalled /\ Taken(p) -> ends(p)
         [] OTHER -> goto(p, "serve")
    /\ UNCHANGED <<tables, db, bounds>>

\* Shutdown closes the listener, and ListenAndServe returns at once: main does
\* not wait for the requests Shutdown is waiting for.
Shutdown(p) ==
    /\ pc(p) = "serve" /\ proc[p].signalled
    /\ goto(p, "draining")
    /\ UNCHANGED <<tables, db, bounds>>

\* The deferred database.Close, and the end of main.
Close(p) ==
    /\ pc(p) = "draining"
    /\ ends(p)
    /\ UNCHANGED <<tables, db, bounds>>

startup(p) ==
    \/ LoadConfig(p)
    \/ Connect(p) \/ LookForTracking(p) \/ CreateTracking(p)
    \/ Check(p) \/ Apply(p) \/ Record(p) \/ Commit(p) \/ StatementFails(p)
    \/ Listen(p) \/ Shutdown(p)

----------------------------------------------------------------------------
(* The world                                                               *)

\* SIGTERM.
Signal(p) ==
    /\ pc(p) \notin {"off", "load", "draining"} /\ ~proc[p].signalled /\ Trouble
    /\ proc' = [proc EXCEPT ![p].signalled = TRUE]
    /\ UNCHANGED <<tables, db, starts>>

\* A crash, or an error of a single statement of the startup.
Crash(p) ==
    /\ pc(p) # "off" /\ Trouble
    /\ ends(p)
    /\ UNCHANGED <<tables, db, starts>>

\* Postgres stops, and with it every open transaction, or stops answering.
DatabaseLost ==
    /\ db = "up" /\ db' \in {"down", "hung"} /\ Trouble
    /\ proc' = IF db' = "hung" THEN proc
               ELSE [p \in Procs |-> IF pc(p) \in {"applied", "unrecorded"}
                                     THEN Stopped ELSE proc[p]]
    /\ UNCHANGED <<tables, starts>>

DatabaseBack ==
    /\ db # "up" /\ db' = "up"
    /\ UNCHANGED <<proc, tables, bounds>>

AllOff == \A p \in Procs : pc(p) = "off"

\* Mutant: in the order of application.
MigrateDown_Ascending ==
    /\ AllOff /\ db = "up"
    /\ \E last \in recorded :
           /\ schema' = {v \in schema : v > last}
           /\ recorded' = {v \in recorded : v > last}
    /\ UNCHANGED <<proc, tracking, db, bounds>>

\* MigrateDown, run by hand with no gateway running: the recorded versions in
\* reverse order, each in its transaction, to the first or to one that fails.
MigrateDown ==
    /\ AllOff /\ db = "up"
    /\ \E last \in recorded :
           /\ schema' = {v \in schema : v < last}
           /\ recorded' = {v \in recorded : v < last}
    /\ UNCHANGED <<proc, tracking, db, bounds>>

World ==
    \/ \E p \in Procs : Launch(p) \/ Signal(p) \/ Crash(p)
    \/ DatabaseLost \/ DatabaseBack \/ MigrateDown

Next == World \/ \E p \in Procs : startup(p) \/ Close(p)

Spec == Init /\ [][Next]_vars

\* Main runs on when it can.  Nothing starts a process again, and a database
\* that is lost need not come back.
FairSpec == Spec /\ \A p \in Procs : WF_vars(startup(p) \/ Close(p))

----------------------------------------------------------------------------
(* Properties                                                              *)

Labels == Statements \cup {"off", "load", "listen", "serve", "draining"}

ProcessState ==
    [pc : Labels, launch : Launches \cup {"none"}, at : Versions, signalled : BOOLEAN]

TypeOK ==
    /\ proc \in [Procs -> ProcessState]
    /\ tracking \in BOOLEAN
    /\ schema \subseteq Versions /\ recorded \subseteq Versions
    /\ db \in {"up", "down", "hung"}
    /\ starts \in 0..MaxStarts /\ troubles \in 0..MaxTroubles

\* schema_migrations tells the truth about the schema after any crash, outage
\* or race of two starts: a version is recorded exactly when its SQL is in.
SchemaIsRecorded == recorded = schema /\ (recorded # {} => tracking)

\* What is applied is always a beginning of the list of versions, so that
\* Migrate can go on from wherever a start or a MigrateDown stopped.
SchemaIsPrefix == \E k \in 0..N : schema = 1..k

\* No gateway listens before the whole schema is there, whoever applied it and
\* however little of it the gateway found.
ServesFullSchema ==
    \A p \in Procs : pc(p) \in {"listen", "serve", "draining"} => schema = Versions

\* A gateway that serves does what it was launched to do: each setting is that
\* of the first of flag, environment, file and default that sets it, no webhook
\* is sent unsigned, and the admin routes answer to the configured token alone.
ServesAsConfigured ==
    \A p \in {q \in Procs : pc(q) = "serve"} :
        LET l == proc[p].launch
            layers == <<Flags[l], Env[l], fileLayer(l), Default>>
        IN /\ \A f \in Fields : \A i \in 1..4 :
                  layers[i][f] # Unset /\ (\A j \in 1..(i - 1) : layers[j][f] = Unset)
                      => cfg(p)[f] = layers[i][f]
           /\ cfg(p)["WebhookCallbackURL"] # Unset
                  => cfg(p)["WebhookHMACSecret"] # Unset
           /\ \A bearer \in {layers[i]["AdminAuthToken"] : i \in 1..4} :
                  adminAnswer(cfg(p), bearer) = "served"
                      => bearer # Unset /\ bearer = cfg(p)["AdminAuthToken"]

\* Two gateways started at once do not stop each other: unless a crash, a signal
\* or an outage intervenes, one of those that got past its configuration serves.
SomeoneServes ==
    (\E p \in Procs : pc(p) = "connect")
        ~> troubles > 0 \/ \E q \in Procs : pc(q) = "serve"
=============================================================================
