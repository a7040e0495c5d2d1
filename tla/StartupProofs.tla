----------------------------- MODULE StartupProofs -----------------------------
(***************************************************************************)
(* Theorems about Startup, for any number of processes and migrations.     *)
(*                                                                         *)
(* The invariant adds to the properties what a process knows as it goes:   *)
(* that it starts with the first version, that the versions before its own *)
(* are in, that the one it has applied and not committed is not, and that  *)
(* nobody else has the same one open.                                      *)
(***************************************************************************)
EXTENDS Startup, TLAPS

Open == {"applied", "unrecorded"}
Starting == {"off", "load", "connect", "look", "create"}
Migrating == {"check", "apply"} \cup Open
Migrated == {"listen", "serve", "draining"}

\* What a process r may rely on, with schema s and the tracking table there or not.
Knows(r, s, t) ==
    /\ r.pc \in Starting => r.at = 1
    /\ r.pc \in Migrating => t /\ 1..(r.at - 1) \subseteq s
    /\ r.pc \in Open => r.at \notin s
    /\ r.pc \in Migrated => s = Versions

OneTransactionPerVersion ==
    \A p, q \in Procs :
        pc(p) \in Open /\ pc(q) \in Open /\ proc[p].at = proc[q].at => p = q

MigrationInv ==
    /\ TypeOK
    /\ SchemaIsRecorded
    /\ SchemaIsPrefix
    /\ \A p \in Procs : Knows(proc[p], schema, tracking)
    /\ OneTransactionPerVersion

----------------------------------------------------------------------------
\* The first state: nothing runs, on the database of some earlier release.
LEMMA InitMigrationInv == Init => MigrationInv
<1> SUFFICES ASSUME Init PROVE MigrationInv
    OBVIOUS
<1>1. PICK k \in 0..N : schema = 1..k /\ recorded = 1..k /\ tracking = (k > 0)
    BY DEF Init
<1>2. TypeOK
    BY <1>1, StartupAssumption DEF Init, TypeOK, ProcessState, Labels, Statements, Stopped, Versions
<1>3. SchemaIsRecorded /\ SchemaIsPrefix
    <2>1. 1..k # {} => k > 0
        OBVIOUS
    <2> QED
        BY <1>1, <2>1 DEF SchemaIsRecorded, SchemaIsPrefix
<1>4. \A p \in Procs : Knows(proc[p], schema, tracking)
    BY DEF Init, Stopped, Knows, Starting, Migrating, Open, Migrated
<1>5. OneTransactionPerVersion
    BY DEF Init, Stopped, OneTransactionPerVersion, Open, pc
<1> QED
    BY <1>2, <1>3, <1>4, <1>5 DEF MigrationInv

\* A step of one process that commits nothing: it is enough to look at what the
\* process knows after it, and whether it opened a transaction.
LEMMA OneMoves ==
    ASSUME MigrationInv, TypeOK',
           NEW p \in Procs, NEW r,
           proc' = [proc EXCEPT ![p] = r],
           schema' = schema, recorded' = recorded, tracking => tracking',
           Knows(r, schema, tracking'),
           r.pc \in Open => \A q \in Procs \ {p} :
                                pc(q) \in Open => proc[q].at # r.at
    PROVE  MigrationInv'
<1>1. \A q \in Procs : proc'[q] = IF q = p THEN r ELSE proc[q]
    BY DEF MigrationInv, TypeOK
<1>2. (SchemaIsRecorded /\ SchemaIsPrefix)'
    BY DEF MigrationInv, SchemaIsRecorded, SchemaIsPrefix
<1>3. \A q \in Procs : Knows(proc'[q], schema', tracking')
    BY <1>1 DEF MigrationInv, Knows
<1>4. OneTransactionPerVersion'
    BY <1>1 DEF MigrationInv, OneTransactionPerVersion, pc
<1> QED
    BY <1>2, <1>3, <1>4 DEF MigrationInv

----------------------------------------------------------------------------
(* Types                                                                   *)

\* A process that stops, or goes on at another label, or at the next version.
LEMMA ProcessTypes ==
    ASSUME TypeOK, NEW p \in Procs
    PROVE  /\ ends(p) => proc' \in [Procs -> ProcessState]
           /\ \A label \in Labels : goto(p, label) => proc' \in [Procs -> ProcessState]
           /\ nextVersion(p) => proc' \in [Procs -> ProcessState]
<1>1. ends(p) => proc' \in [Procs -> ProcessState]
    BY StartupAssumption DEF TypeOK, ProcessState, Labels, Statements, Versions, Stopped, ends
<1>2. ASSUME NEW label \in Labels, goto(p, label)
      PROVE  proc' \in [Procs -> ProcessState]
    BY <1>2 DEF TypeOK, ProcessState, goto
<1>3. ASSUME nextVersion(p)
      PROVE  proc' \in [Procs -> ProcessState]
    <2>1. CASE proc[p].at = N
        BY <1>3, <2>1 DEF TypeOK, ProcessState, Labels, nextVersion
    <2>2. CASE proc[p].at # N
        <3>1. proc[p].at + 1 \in Versions
            BY <2>2, StartupAssumption DEF TypeOK, ProcessState, Versions
        <3> DEFINE r == [proc[p] EXCEPT !.pc = "check", !.at = @ + 1]
        <3>2. r \in ProcessState
            BY <3>1 DEF TypeOK, ProcessState, Labels, Statements
        <3>3. proc' = [proc EXCEPT ![p] = r]
            BY <1>3, <2>2 DEF nextVersion, TypeOK
        <3> HIDE DEF r
        <3> QED
            BY <3>2, <3>3 DEF TypeOK
    <2> QED
        BY <2>1, <2>2
<1> QED
    BY <1>1, <1>2, <1>3

\* Main's own steps: a label, the next version or the end, and never a bound.
LEMMA MainTypes ==
    ASSUME TypeOK, NEW p \in Procs, startup(p) \/ Close(p)
    PROVE  TypeOK'
<1> USE ProcessTypes DEF tables, bounds
<1>1. CASE LoadConfig(p)
    BY <1>1 DEF TypeOK, LoadConfig, Labels, Statements
<1>2. CASE Connect(p)
    BY <1>2 DEF TypeOK, Connect, Labels, Statements
<1>3. CASE LookForTracking(p)
    BY <1>3 DEF TypeOK, LookForTracking, Labels, Statements
<1>4. CASE CreateTracking(p)
    BY <1>4 DEF TypeOK, CreateTracking, Labels, Statements
<1>5. CASE Check(p)
    BY <1>5 DEF TypeOK, Check, Labels, Statements
<1>6. CASE Apply(p)
    BY <1>6 DEF TypeOK, Apply, Labels, Statements
<1>7. CASE Record(p)
    BY <1>7 DEF TypeOK, Record, Labels, Statements
<1>8. CASE Commit(p)
    <2>1. proc[p].at \in Versions
        BY DEF TypeOK, ProcessState
    <2> QED
        BY <1>8, <2>1 DEF TypeOK, Commit
<1>9. CASE StatementFails(p)
    BY <1>9 DEF TypeOK, StatementFails
<1>10. CASE Listen(p)
    BY <1>10 DEF TypeOK, Listen, Labels
<1>11. CASE Shutdown(p)
    BY <1>11 DEF TypeOK, Shutdown, Labels
<1>12. CASE Close(p)
    BY <1>12 DEF TypeOK, Close
<1> QED
    BY <1>1, <1>2, <1>3, <1>4, <1>5, <1>6, <1>7, <1>8, <1>9, <1>10, <1>11, <1>12
    DEF startup

\* A process that is launched.
LEMMA LaunchedTypes ==
    ASSUME NEW l \in Launches
    PROVE  LET r == [Stopped EXCEPT !.pc = "load", !.launch = l]
           IN r \in ProcessState /\ r.pc = "load" /\ r.at = 1
<1>1. Stopped \in ProcessState /\ Stopped.at = 1
    BY StartupAssumption DEF Stopped, ProcessState, Labels, Versions
<1>2. \A s \in ProcessState :
          LET r == [s EXCEPT !.pc = "load", !.launch = l]
          IN r \in ProcessState /\ r.pc = "load" /\ r.at = s.at
    BY DEF ProcessState, Labels
<1> QED
    BY <1>1, <1>2

\* The steps of the world.
LEMMA WorldTypes ==
    ASSUME TypeOK, World
    PROVE  TypeOK'
<1> USE StartupAssumption, ProcessTypes DEF tables, bounds
<1>1. ASSUME Trouble
      PROVE  troubles' \in 0..MaxTroubles
    BY <1>1 DEF TypeOK, Trouble
<1>2. ASSUME NEW p \in Procs, Launch(p)
      PROVE  TypeOK'
    <2>1. PICK l \in Launches :
              proc' = [proc EXCEPT ![p] = [Stopped EXCEPT !.pc = "load", !.launch = l]]
        BY <1>2 DEF Launch
    <2>2. proc' \in [Procs -> ProcessState]
        BY <2>1, LaunchedTypes DEF TypeOK
    <2>3. starts' \in 0..MaxStarts
        BY <1>2 DEF Launch, TypeOK
    <2> QED
        BY <1>2, <2>2, <2>3 DEF Launch, TypeOK
<1>3. ASSUME NEW p \in Procs, Signal(p)
      PROVE  TypeOK'
    <2>1. proc' \in [Procs -> ProcessState]
        BY <1>3 DEF Signal, TypeOK, ProcessState
    <2> QED
        BY <1>1, <1>3, <2>1 DEF Signal, TypeOK
<1>4. ASSUME NEW p \in Procs, Crash(p)
      PROVE  TypeOK'
    BY <1>1, <1>4 DEF Crash, TypeOK
<1>5. CASE DatabaseLost
    <2>1. Stopped \in ProcessState
        BY DEF ProcessState, Labels, Stopped, Versions
    <2>2. proc' \in [Procs -> ProcessState]
        BY <1>5, <2>1 DEF DatabaseLost, TypeOK
    <2> QED
        BY <1>1, <1>5, <2>2 DEF DatabaseLost, TypeOK
<1>6. CASE DatabaseBack
    BY <1>6 DEF DatabaseBack, TypeOK
<1>7. CASE MigrateDown
    BY <1>7 DEF MigrateDown, TypeOK
<1> QED
    BY <1>2, <1>3, <1>4, <1>5, <1>6, <1>7 DEF World

LEMMA NextTypes == TypeOK /\ [Next]_vars => TypeOK'
<1>1. TypeOK /\ UNCHANGED vars => TypeOK'
    BY DEF TypeOK, vars, tables, bounds
<1> QED
    BY <1>1, MainTypes, WorldTypes DEF Next

----------------------------------------------------------------------------
(* The invariant                                                           *)

\* What follows a version that is in: the next one, or a whole schema.
LEMMA AfterVersion ==
    ASSUME MigrationInv, TypeOK', NEW p \in Procs, nextVersion(p),
           pc(p) \in Migrating, NEW s, s \subseteq Versions, 1..proc[p].at \subseteq s
    PROVE  \E r : /\ proc' = [proc EXCEPT ![p] = r]
                  /\ Knows(r, s, tracking)
                  /\ r.pc \notin Open
<1>1. proc[p] \in ProcessState /\ Knows(proc[p], schema, tracking)
    BY DEF MigrationInv, TypeOK
<1>2. CASE proc[p].at = N
    <2> DEFINE r == [proc[p] EXCEPT !.pc = "listen"]
    <2>1. proc' = [proc EXCEPT ![p] = r]
        BY <1>2 DEF nextVersion, MigrationInv, TypeOK
    <2>2. r.pc = "listen" /\ s = Versions
        BY <1>1, <1>2 DEF ProcessState, Versions
    <2>3. Knows(r, s, tracking) /\ r.pc \notin Open
        BY <2>2 DEF Knows, Starting, Migrating, Open
    <2> QED
        BY <2>1, <2>3
<1>3. CASE proc[p].at # N
    <2> DEFINE r == [proc[p] EXCEPT !.pc = "check", !.at = @ + 1]
    <2>1. proc' = [proc EXCEPT ![p] = r]
        BY <1>3 DEF nextVersion, MigrationInv, TypeOK
    <2>2. r.pc = "check" /\ r.at - 1 = proc[p].at
        BY <1>1, StartupAssumption DEF ProcessState, Versions
    <2>3. Knows(r, s, tracking) /\ r.pc \notin Open
        BY <1>1, <2>2 DEF Knows, Starting, Migrating, Migrated, Open, pc
    <2> QED
        BY <2>1, <2>3
<1> QED
    BY <1>2, <1>3

\* A process that ends, or goes on without opening a transaction.
LEMMA EndsOrGoes ==
    ASSUME MigrationInv, TypeOK', NEW p \in Procs,
           schema' = schema, recorded' = recorded, tracking => tracking',
           \/ ends(p)
           \/ \E label \in Labels \ Open :
                  /\ goto(p, label)
                  /\ Knows([proc[p] EXCEPT !.pc = label], schema, tracking')
    PROVE  MigrationInv'
<1>1. proc[p] \in ProcessState
    BY DEF MigrationInv, TypeOK
<1>2. CASE ends(p)
    BY <1>2, OneMoves DEF ends, Stopped, Knows, Starting, Migrating, Migrated, Open
<1>3. ASSUME NEW label \in Labels \ Open, goto(p, label),
             Knows([proc[p] EXCEPT !.pc = label], schema, tracking')
      PROVE  MigrationInv'
    <2> DEFINE r == [proc[p] EXCEPT !.pc = label]
    <2>1. proc' = [proc EXCEPT ![p] = r]
        BY <1>3 DEF goto, MigrationInv, TypeOK
    <2>2. r.pc \notin Open
        BY <1>1, <1>3 DEF ProcessState
    <2> HIDE DEF r
    <2> QED
        BY <1>3, <2>1, <2>2, OneMoves DEF r
<1> QED
    BY <1>2, <1>3

\* A commit.  The version goes in on top of those before it, so that the schema
\* is still a prefix; nobody else has it open; and a process that serves has the
\* whole schema already, which leaves nothing to commit.
LEMMA CommitKeepsInv ==
    ASSUME MigrationInv, TypeOK', NEW p \in Procs, Commit(p)
    PROVE  MigrationInv'
<1> DEFINE k == proc[p].at
<1>1. /\ proc[p] \in ProcessState /\ proc[p].pc = "unrecorded"
      /\ k \in Versions /\ k \notin schema /\ 1..(k - 1) \subseteq schema
      /\ schema \subseteq Versions
      /\ tracking /\ tracking' = tracking
    BY DEF Commit, MigrationInv, TypeOK, ProcessState, Knows, Migrating, Open, pc
<1>2. schema' = schema \cup {k} /\ recorded' = recorded \cup {k} /\ nextVersion(p)
    BY DEF Commit
<1>3. schema = 1..(k - 1)
    <2>1. PICK n \in 0..N : schema = 1..n
        BY DEF MigrationInv, SchemaIsPrefix
    <2>2. k > n
        BY <1>1, <2>1, StartupAssumption DEF Versions
    <2>3. k = 1 \/ k - 1 \in 1..(k - 1)
        BY <1>1, StartupAssumption DEF Versions
    <2>4. n = k - 1
        BY <1>1, <2>1, <2>2, <2>3, StartupAssumption DEF Versions
    <2> QED
        BY <2>1, <2>4
<1>4. schema' = 1..k
    BY <1>1, <1>2, <1>3, StartupAssumption DEF Versions
<1>5. PICK r : /\ proc' = [proc EXCEPT ![p] = r]
               /\ Knows(r, schema', tracking)
               /\ r.pc \notin Open
    <2>1. schema' \subseteq Versions /\ 1..k \subseteq schema'
        BY <1>4 DEF TypeOK
    <2>2. pc(p) \in Migrating
        BY <1>1 DEF pc, Migrating, Open
    <2> QED
        BY <1>2, <2>1, <2>2, AfterVersion
<1>6. \A q \in Procs : proc'[q] = IF q = p THEN r ELSE proc[q]
    BY <1>5 DEF MigrationInv, TypeOK
<1>7. SchemaIsRecorded'
    BY <1>1, <1>2 DEF MigrationInv, SchemaIsRecorded
<1>8. SchemaIsPrefix'
    BY <1>1, <1>4, StartupAssumption DEF SchemaIsPrefix, Versions
<1>9. ASSUME NEW q \in Procs
      PROVE  Knows(proc'[q], schema', tracking')
    <2>1. CASE q = p
        BY <1>1, <1>5, <1>6, <2>1
    <2>2. CASE q # p
        <3>1. proc'[q] = proc[q] /\ Knows(proc[q], schema, tracking)
            BY <1>6, <2>2 DEF MigrationInv
        <3>2. proc[q].pc \in Open => proc[q].at # k
            BY <1>1, <2>2 DEF MigrationInv, OneTransactionPerVersion, Open, pc
        <3>3. proc[q].pc \notin Migrated
            BY <1>1, <3>1 DEF Knows
        <3> QED
            BY <1>1, <1>2, <3>1, <3>2, <3>3 DEF Knows
    <2> QED
        BY <2>1, <2>2
<1>10. OneTransactionPerVersion'
    BY <1>5, <1>6 DEF MigrationInv, OneTransactionPerVersion, pc
<1> QED
    BY <1>7, <1>8, <1>9, <1>10 DEF MigrationInv

\* Main's own steps.
LEMMA MainKeepsInv ==
    ASSUME MigrationInv, TypeOK', NEW p \in Procs, startup(p) \/ Close(p)
    PROVE  MigrationInv'
<1>1. /\ proc[p] \in ProcessState
      /\ Knows(proc[p], schema, tracking)
      /\ SchemaIsRecorded /\ SchemaIsPrefix
      /\ schema \subseteq Versions /\ recorded = schema
    BY DEF MigrationInv, TypeOK, SchemaIsRecorded
<1>2. pc(p) = proc[p].pc
    BY DEF pc
<1>3. CASE LoadConfig(p)
    BY <1>1, <1>2, <1>3, EndsOrGoes
    DEF LoadConfig, tables, ProcessState, Labels, Statements,
        Knows, Starting, Migrating, Migrated, Open
<1>4. CASE Connect(p)
    BY <1>1, <1>2, <1>4, EndsOrGoes
    DEF Connect, tables, ProcessState, Labels, Statements,
        Knows, Starting, Migrating, Migrated, Open
<1>5. CASE LookForTracking(p)
    BY <1>1, <1>2, <1>5, EndsOrGoes
    DEF LookForTracking, tables, ProcessState, Labels, Statements,
        Knows, Starting, Migrating, Migrated, Open
<1>6. CASE CreateTracking(p)
    BY <1>1, <1>2, <1>6, EndsOrGoes
    DEF CreateTracking, ProcessState, Labels, Statements,
        Knows, Starting, Migrating, Migrated, Open
<1>7. CASE Check(p)
    <2>1. ASSUME proc[p].at \in recorded, nextVersion(p)
          PROVE  MigrationInv'
        <3>1. 1..proc[p].at \subseteq schema
            BY <1>1, <1>2, <1>7, <2>1 DEF Check, Knows, Migrating, ProcessState, Versions
        <3>2. PICK r : /\ proc' = [proc EXCEPT ![p] = r]
                       /\ Knows(r, schema, tracking)
                       /\ r.pc \notin Open
            BY <1>1, <1>7, <2>1, <3>1, AfterVersion DEF Check, Migrating
        <3> QED
            BY <1>7, <3>2, OneMoves DEF Check, tables
    <2>2. ASSUME goto(p, "apply")
          PROVE  MigrationInv'
        BY <1>1, <1>2, <1>7, <2>2, EndsOrGoes
        DEF Check, tables, ProcessState, Labels, Statements,
            Knows, Starting, Migrating, Migrated, Open
    <2> QED
        BY <1>7, <2>1, <2>2 DEF Check
<1>8. CASE Apply(p)
    <2>1. ASSUME Applies(proc[p].at), goto(p, "applied")
          PROVE  MigrationInv'
        <3> DEFINE r == [proc[p] EXCEPT !.pc = "applied"]
        <3>1. proc' = [proc EXCEPT ![p] = r]
            BY <2>1 DEF goto, MigrationInv, TypeOK
        <3>2. r.pc = "applied" /\ r.at = proc[p].at
            BY <1>1 DEF ProcessState
        <3>3. Knows(r, schema, tracking)
            BY <1>1, <1>2, <1>8, <2>1, <3>2
            DEF Apply, Applies, Knows, Starting, Migrating, Migrated, Open
        <3>4. \A q \in Procs : pc(q) \in Open => proc[q].at # r.at
            BY <1>8, <3>2 DEF Apply, Applying, Open
        <3> HIDE DEF r
        <3> QED
            BY <1>8, <3>1, <3>3, <3>4, OneMoves DEF Apply, tables
    <2>2. ASSUME ends(p)
          PROVE  MigrationInv'
        BY <1>8, <2>2, EndsOrGoes DEF Apply, tables
    <2> QED
        BY <1>8, <2>1, <2>2 DEF Apply
<1>9. CASE Record(p)
    <2> DEFINE r == [proc[p] EXCEPT !.pc = "unrecorded"]
    <2>1. proc' = [proc EXCEPT ![p] = r]
        BY <1>9 DEF Record, goto, MigrationInv, TypeOK
    <2>2. r.pc = "unrecorded" /\ r.at = proc[p].at
        BY <1>1 DEF ProcessState
    <2>3. Knows(r, schema, tracking)
        BY <1>1, <1>2, <1>9, <2>2 DEF Record, Knows, Starting, Migrating, Migrated, Open
    <2>4. \A q \in Procs \ {p} : pc(q) \in Open => proc[q].at # r.at
        BY <1>9, <2>2 DEF Record, MigrationInv, OneTransactionPerVersion, Open
    <2> HIDE DEF r
    <2> QED
        BY <1>9, <2>1, <2>3, <2>4, OneMoves DEF Record, tables
<1>10. CASE Commit(p)
    BY <1>10, CommitKeepsInv
<1>11. CASE StatementFails(p)
    BY <1>11, EndsOrGoes DEF StatementFails, tables
<1>12. CASE Listen(p)
    BY <1>1, <1>2, <1>12, EndsOrGoes
    DEF Listen, tables, ProcessState, Labels, Knows, Starting, Migrating, Migrated, Open
<1>13. CASE Shutdown(p)
    BY <1>1, <1>2, <1>13, EndsOrGoes
    DEF Shutdown, tables, ProcessState, Labels, Knows, Starting, Migrating, Migrated, Open
<1>14. CASE Close(p)
    BY <1>14, EndsOrGoes DEF Close, tables
<1> QED
    BY <1>3, <1>4, <1>5, <1>6, <1>7, <1>8, <1>9, <1>10, <1>11, <1>12, <1>13, <1>14
    DEF startup

\* The steps of the world.
LEMMA WorldKeepsInv ==
    ASSUME MigrationInv, TypeOK', World
    PROVE  MigrationInv'
<1>1. ASSUME NEW p \in Procs, Launch(p)
      PROVE  MigrationInv'
    <2>1. PICK l \in Launches :
              proc' = [proc EXCEPT ![p] = [Stopped EXCEPT !.pc = "load", !.launch = l]]
        BY <1>1 DEF Launch
    <2> DEFINE r == [Stopped EXCEPT !.pc = "load", !.launch = l]
    <2>2. r.pc = "load" /\ r.at = 1
        BY LaunchedTypes
    <2>3. Knows(r, schema, tracking') /\ r.pc \notin Open
        BY <2>2 DEF Knows, Starting, Migrating, Migrated, Open
    <2> HIDE DEF r
    <2> QED
        BY <1>1, <2>1, <2>3, OneMoves DEF Launch, tables, r
<1>2. ASSUME NEW p \in Procs, Signal(p)
      PROVE  MigrationInv'
    <2> DEFINE r == [proc[p] EXCEPT !.signalled = TRUE]
    <2>1. proc' = [proc EXCEPT ![p] = r]
        BY <1>2 DEF Signal, MigrationInv, TypeOK
    <2>2. r.pc = proc[p].pc /\ r.at = proc[p].at
        BY DEF MigrationInv, TypeOK, ProcessState
    <2>3. Knows(r, schema, tracking')
        BY <1>2, <2>2 DEF Signal, tables, MigrationInv, Knows
    <2>4. r.pc \in Open => \A q \in Procs \ {p} : pc(q) \in Open => proc[q].at # r.at
        BY <2>2 DEF MigrationInv, OneTransactionPerVersion, pc
    <2> HIDE DEF r
    <2> QED
        BY <1>2, <2>1, <2>3, <2>4, OneMoves DEF Signal, tables
<1>3. ASSUME NEW p \in Procs, Crash(p)
      PROVE  MigrationInv'
    BY <1>3, EndsOrGoes DEF Crash, tables
<1>4. CASE DatabaseLost
    <2>1. \A p \in Procs : proc'[p] = proc[p] \/ proc'[p] = Stopped
        BY <1>4 DEF DatabaseLost, MigrationInv, TypeOK
    <2>2. \A p \in Procs : Knows(proc'[p], schema, tracking)
        BY <2>1 DEF MigrationInv, Stopped, Knows, Starting, Migrating, Migrated, Open
    <2>3. OneTransactionPerVersion'
        BY <2>1 DEF MigrationInv, OneTransactionPerVersion, Stopped, Open, pc
    <2> QED
        BY <1>4, <2>2, <2>3
        DEF DatabaseLost, tables, MigrationInv, SchemaIsRecorded, SchemaIsPrefix
<1>5. CASE DatabaseBack
    BY <1>5
    DEF DatabaseBack, tables, MigrationInv, SchemaIsRecorded, SchemaIsPrefix,
        OneTransactionPerVersion, pc
<1>6. CASE MigrateDown
    <2>1. PICK last \in recorded : /\ schema' = {v \in schema : v < last}
                                   /\ recorded' = {v \in recorded : v < last}
        BY <1>6 DEF MigrateDown
    <2>2. /\ recorded = schema /\ schema \subseteq Versions
          /\ tracking /\ tracking' = tracking /\ proc' = proc
        BY <1>6 DEF MigrateDown, MigrationInv, TypeOK, SchemaIsRecorded
    <2>3. SchemaIsRecorded'
        BY <2>1, <2>2 DEF SchemaIsRecorded
    <2>4. SchemaIsPrefix'
        <3>1. PICK n \in 0..N : schema = 1..n
            BY DEF MigrationInv, SchemaIsPrefix
        <3>2. last \in 1..n /\ last - 1 \in 0..N
            BY <2>2, <3>1, StartupAssumption DEF Versions
        <3>3. schema' = 1..(last - 1)
            BY <2>1, <3>1, <3>2, StartupAssumption
        <3> QED
            BY <3>2, <3>3 DEF SchemaIsPrefix
    <2>5. \A p \in Procs : Knows(proc'[p], schema', tracking')
        BY <1>6, <2>2
        DEF MigrateDown, AllOff, MigrationInv, Knows, Migrating, Migrated, Open, pc
    <2> QED
        BY <2>2, <2>3, <2>4, <2>5 DEF MigrationInv, OneTransactionPerVersion, pc
<1> QED
    BY <1>1, <1>2, <1>3, <1>4, <1>5, <1>6 DEF World

LEMMA NextMigrationInv == MigrationInv /\ [Next]_vars => MigrationInv'
<1> SUFFICES ASSUME MigrationInv, [Next]_vars PROVE MigrationInv'
    OBVIOUS
<1>1. TypeOK'
    BY NextTypes DEF MigrationInv
<1>2. CASE UNCHANGED vars
    BY <1>2
    DEF vars, tables, MigrationInv, TypeOK, bounds, SchemaIsRecorded, SchemaIsPrefix,
        OneTransactionPerVersion, pc
<1> QED
    BY <1>1, <1>2, MainKeepsInv, WorldKeepsInv DEF Next

----------------------------------------------------------------------------
(* The theorems                                                            *)

LEMMA AlwaysMigrationInv == Spec => []MigrationInv
    BY InitMigrationInv, NextMigrationInv, PTL DEF Spec

\* The type invariant, for every number of processes, migrations and troubles.
THEOREM StartupTypeCorrect == Spec => []TypeOK
<1>1. MigrationInv => TypeOK
    BY DEF MigrationInv
<1> QED
    BY <1>1, AlwaysMigrationInv, PTL

\* schema_migrations and the schema agree after every commit, crash, outage,
\* race of two starts and MigrateDown.
THEOREM SchemaAlwaysRecorded == Spec => []SchemaIsRecorded
<1>1. MigrationInv => SchemaIsRecorded
    BY DEF MigrationInv
<1> QED
    BY <1>1, AlwaysMigrationInv, PTL

\* What is applied is always a prefix of the versions.
THEOREM SchemaAlwaysPrefix == Spec => []SchemaIsPrefix
<1>1. MigrationInv => SchemaIsPrefix
    BY DEF MigrationInv
<1> QED
    BY <1>1, AlwaysMigrationInv, PTL

\* A gateway that listens, serves or drains has the whole schema under it.
THEOREM FullSchemaIsServed == Spec => []ServesFullSchema
<1>1. MigrationInv => ServesFullSchema
    BY DEF MigrationInv, Knows, Migrated, ServesFullSchema, pc
<1> QED
    BY <1>1, AlwaysMigrationInv, PTL

----------------------------------------------------------------------------
(* Configuration                                                           *)

\* The first of four values that is set is what is left of them.
LEMMA FirstOfFour ==
    ASSUME NEW a, NEW b, NEW c, NEW d
    PROVE  firstNonEmpty(<<a, b, c, d>>) = IF a # Unset THEN a
                                           ELSE IF b # Unset THEN b
                                           ELSE IF c # Unset THEN c
                                           ELSE IF d # Unset THEN d ELSE Unset
<1> DEFINE vals == <<a, b, c, d>>
           set == {k \in DOMAIN vals : vals[k] # Unset}
<1>1. /\ DOMAIN vals = 1..4
      /\ vals[1] = a /\ vals[2] = b /\ vals[3] = c /\ vals[4] = d
    OBVIOUS
<1>2. firstNonEmpty(vals) = IF set = {} THEN Unset ELSE vals[Min(set)]
    BY DEF firstNonEmpty
<1> HIDE DEF vals
<1>3. ASSUME NEW k \in set, \A j \in 1..(k - 1) : vals[j] = Unset
      PROVE  firstNonEmpty(vals) = vals[k]
    <2>1. k \in 1..4 /\ \A j \in set : j \in 1..4 /\ k <= j
        BY <1>1, <1>3
    <2>2. Min(set) = k
        <3> HIDE DEF set
        <3>1. \A j \in set : (\A y \in set : j <= y) => j = k
            BY <2>1
        <3> QED
            BY <2>1, <3>1 DEF Min
    <2> QED
        BY <1>2, <1>3, <2>2
<1>4. (\A k \in 1..4 : vals[k] = Unset) => firstNonEmpty(vals) = Unset
    BY <1>1, <1>2
<1>5. \A k \in 1..4 : vals[k] # Unset => k \in set
    BY <1>1
<1> HIDE DEF set
<1>6. \A k \in 1..4 : vals[k] # Unset /\ (\A j \in 1..(k - 1) : vals[j] = Unset) =>
          firstNonEmpty(vals) = vals[k]
    BY <1>3, <1>5
<1>7. a # Unset => firstNonEmpty(vals) = a
    BY <1>1, <1>6
<1>8. a = Unset /\ b # Unset => firstNonEmpty(vals) = b
    <2>1. \A j \in 1..(2 - 1) : j = 1
        OBVIOUS
    <2> QED
        BY <1>1, <1>6, <2>1
<1>9. a = Unset /\ b = Unset /\ c # Unset => firstNonEmpty(vals) = c
    <2>1. \A j \in 1..(3 - 1) : j \in {1, 2}
        OBVIOUS
    <2> QED
        BY <1>1, <1>6, <2>1
<1>10. a = Unset /\ b = Unset /\ c = Unset /\ d # Unset => firstNonEmpty(vals) = d
    <2>1. \A j \in 1..(4 - 1) : j \in {1, 2, 3}
        OBVIOUS
    <2> QED
        BY <1>1, <1>6, <2>1
<1>11. \A k \in 1..4 : k \in {1, 2, 3, 4}
    OBVIOUS
<1>12. a = Unset /\ b = Unset /\ c = Unset /\ d = Unset => firstNonEmpty(vals) = Unset
    BY <1>1, <1>4, <1>11
<1> QED
    BY <1>7, <1>8, <1>9, <1>10, <1>12 DEF vals

\* A process past its configuration was launched in a way that main accepts.
ConfigInv ==
    \A p \in Procs : pc(p) # "off" =>
        proc[p].launch \in Launches /\ (pc(p) # "load" => proc[p].launch \notin Refused)

\* What may become of one process in one step, as far as its launch is concerned.
LEMMA LaunchSteps ==
    ASSUME TypeOK, [Next]_vars, NEW p \in Procs
    PROVE  \/ proc'[p].pc = "off"
           \/ proc'[p].pc = "load" /\ proc'[p].launch \in Launches
           \/ /\ proc[p].pc # "off" /\ proc'[p].launch = proc[p].launch
              /\ proc[p].pc = "load" => proc[p].launch \notin Refused
           \/ proc'[p] = proc[p]
<1> DEFINE Goal == \/ proc'[p].pc = "off"
                   \/ proc'[p].pc = "load" /\ proc'[p].launch \in Launches
                   \/ /\ proc[p].pc # "off" /\ proc'[p].launch = proc[p].launch
                      /\ proc[p].pc = "load" => proc[p].launch \notin Refused
                   \/ proc'[p] = proc[p]
<1>1. proc[p] \in ProcessState
    BY DEF TypeOK
<1>2. ASSUME NEW q \in Procs, q # p, NEW r, proc' = [proc EXCEPT ![q] = r]
      PROVE  Goal
    BY <1>2 DEF TypeOK
<1>3. ASSUME NEW q \in Procs, ends(q)
      PROVE  Goal
    BY <1>3 DEF ends, Stopped, TypeOK
<1>4. ASSUME NEW q \in Procs, NEW label, goto(q, label),
             proc[q].pc # "off" /\ (proc[q].pc = "load" => proc[q].launch \notin Refused)
      PROVE  Goal
    <2>1. proc' = [proc EXCEPT ![q] = [proc[q] EXCEPT !.pc = label]]
        BY <1>4 DEF goto, TypeOK
    <2>2. q = p => proc'[p].launch = proc[p].launch
        BY <1>1, <2>1 DEF TypeOK, ProcessState
    <2> QED
        BY <1>2, <1>4, <2>1, <2>2
<1>5. ASSUME NEW q \in Procs, nextVersion(q), proc[q].pc \notin {"off", "load"}
      PROVE  Goal
    <2>1. ASSUME NEW r, proc' = [proc EXCEPT ![q] = r], q = p => r.launch = proc[p].launch
          PROVE  Goal
        <3>1. q = p => proc'[p] = r
            BY <2>1 DEF TypeOK
        <3> QED
            BY <1>2, <1>5, <2>1, <3>1
    <2> DEFINE last == [proc[q] EXCEPT !.pc = "listen"]
               other == [proc[q] EXCEPT !.pc = "check", !.at = @ + 1]
    <2>2. q = p => last.launch = proc[p].launch /\ other.launch = proc[p].launch
        BY <1>1 DEF ProcessState
    <2>3. proc' = [proc EXCEPT ![q] = last] \/ proc' = [proc EXCEPT ![q] = other]
        BY <1>5 DEF nextVersion, TypeOK
    <2> HIDE DEF Goal, last, other
    <2> QED
        BY <2>1, <2>2, <2>3
<1>6. ASSUME NEW q \in Procs, startup(q) \/ Close(q)
      PROVE  Goal
    <2> HIDE DEF Goal
    <2>1. CASE LoadConfig(q)
        BY <1>3, <1>4, <2>1 DEF LoadConfig, pc
    <2>2. CASE Connect(q) \/ LookForTracking(q) \/ CreateTracking(q)
        BY <1>3, <1>4, <2>2 DEF Connect, LookForTracking, CreateTracking, pc
    <2>3. CASE Check(q) \/ Apply(q)
        BY <1>3, <1>4, <1>5, <2>3 DEF Check, Apply, pc
    <2>4. CASE Record(q) \/ Commit(q) \/ StatementFails(q)
        BY <1>3, <1>4, <1>5, <2>4 DEF Record, Commit, StatementFails, pc
    <2>5. CASE Listen(q) \/ Shutdown(q) \/ Close(q)
        BY <1>3, <1>4, <2>5 DEF Listen, Shutdown, Close, pc
    <2> QED
        BY <1>6, <2>1, <2>2, <2>3, <2>4, <2>5 DEF startup
<1>7. ASSUME NEW q \in Procs, Launch(q)
      PROVE  Goal
    <2>1. PICK l \in Launches :
              proc' = [proc EXCEPT ![q] = [Stopped EXCEPT !.pc = "load", !.launch = l]]
        BY <1>7 DEF Launch
    <2>2. [Stopped EXCEPT !.pc = "load", !.launch = l].launch = l
        BY DEF Stopped
    <2>3. [Stopped EXCEPT !.pc = "load", !.launch = l].pc = "load"
        BY DEF Stopped
    <2>4. q = p => proc'[p].pc = "load" /\ proc'[p].launch = l
        BY <2>1, <2>2, <2>3 DEF TypeOK
    <2> QED
        BY <1>2, <2>1, <2>4
<1>8. ASSUME NEW q \in Procs, Signal(q)
      PROVE  Goal
    <2>1. /\ proc' = [proc EXCEPT ![q] = [proc[q] EXCEPT !.signalled = TRUE]]
          /\ proc[q].pc \notin {"off", "load"}
        BY <1>8 DEF Signal, TypeOK, pc
    <2>2. q = p => proc'[p].launch = proc[p].launch
        BY <1>1, <2>1 DEF TypeOK, ProcessState
    <2> QED
        BY <1>2, <2>1, <2>2
<1>9. ASSUME NEW q \in Procs, Crash(q)
      PROVE  Goal
    BY <1>3, <1>9 DEF Crash
<1>10. DatabaseLost => Goal
    BY DEF DatabaseLost, TypeOK, Stopped
<1>11. DatabaseBack \/ MigrateDown \/ UNCHANGED vars => Goal
    BY DEF DatabaseBack, MigrateDown, vars
<1> HIDE DEF Goal
<1>12. Goal
    BY <1>6, <1>7, <1>8, <1>9, <1>10, <1>11 DEF Next, World
<1> QED
    BY <1>12 DEF Goal

\* Whatever a gateway serves, it was launched in a way that main accepts.
LEMMA AlwaysConfigInv == Spec => []ConfigInv
<1>1. Init => ConfigInv
    BY DEF Init, Stopped, ConfigInv, pc
<1>2. TypeOK /\ ConfigInv /\ [Next]_vars => ConfigInv'
    BY LaunchSteps DEF ConfigInv, pc
<1> QED
    BY <1>1, <1>2, StartupTypeCorrect, PTL DEF Spec

\* Every setting of a gateway that serves comes from the first of flag, environment,
\* file and default that sets it, for every launch and whatever the layers say; main
\* has refused a callback URL without a secret, and nothing but the configured token
\* opens the admin routes, which an empty one closes.
THEOREM ConfigurationIsServed == Spec => []ServesAsConfigured
<1>1. ConfigInv => ServesAsConfigured
    <2> SUFFICES ASSUME ConfigInv, NEW p \in Procs, pc(p) = "serve"
                 PROVE  LET l == proc[p].launch
                            layers == <<Flags[l], Env[l], fileLayer(l), Default>>
                        IN /\ \A f \in Fields : \A i \in 1..4 :
                                  layers[i][f] # Unset
                                    /\ (\A j \in 1..(i - 1) : layers[j][f] = Unset)
                                  => cfg(p)[f] = layers[i][f]
                           /\ cfg(p)["WebhookCallbackURL"] # Unset
                                  => cfg(p)["WebhookHMACSecret"] # Unset
                           /\ \A bearer \in {layers[i]["AdminAuthToken"] : i \in 1..4} :
                                  adminAnswer(cfg(p), bearer) = "served"
                                      => bearer # Unset /\ bearer = cfg(p)["AdminAuthToken"]
        BY DEF ServesAsConfigured
    <2> DEFINE l == proc[p].launch
               layers == <<Flags[l], Env[l], fileLayer(l), Default>>
    <2>1. l \in Launches /\ l \notin Refused
        BY DEF ConfigInv
    <2>2. \A f \in Fields : cfg(p)[f] = resolve(l, f)
        BY <2>1 DEF cfg, Load
    <2>3. /\ layers[1] = Flags[l] /\ layers[2] = Env[l] /\ layers[3] = fileLayer(l)
          /\ layers[4] = Default
        OBVIOUS
    <2>4. cfg(p)["WebhookCallbackURL"] # Unset => cfg(p)["WebhookHMACSecret"] # Unset
        BY <2>1 DEF Refused, checkWebhookConfig, cfg
    <2>5. ASSUME NEW bearer, adminAnswer(cfg(p), bearer) = "served"
          PROVE  bearer # Unset /\ bearer = cfg(p)["AdminAuthToken"]
        BY <2>5 DEF adminAnswer, validBearerToken
    <2> HIDE DEF layers
    <2>6. ASSUME NEW f \in Fields, NEW i \in 1..4, layers[i][f] # Unset,
                 \A j \in 1..(i - 1) : layers[j][f] = Unset
          PROVE  cfg(p)[f] = layers[i][f]
        <3>1. cfg(p)[f] = firstNonEmpty(<<layers[1][f], layers[2][f], layers[3][f],
                                          layers[4][f]>>)
            BY <2>2, <2>3 DEF resolve
        <3>2. i > 1 => layers[1][f] = Unset
            BY <2>6
        <3>3. i > 2 => layers[2][f] = Unset
            BY <2>6
        <3>4. i > 3 => layers[3][f] = Unset
            BY <2>6
        <3>5. i = 1 \/ i = 2 \/ i = 3 \/ i = 4
            OBVIOUS
        <3> QED
            BY <2>6, <3>1, <3>2, <3>3, <3>4, <3>5, FirstOfFour
    <2> QED
        BY <2>4, <2>5, <2>6 DEF layers
<1> QED
    BY <1>1, AlwaysConfigInv, PTL
=============================================================================
