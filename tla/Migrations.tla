----------------------------- MODULE Migrations -----------------------------
(***************************************************************************)
(* What a starting process does to the schema.  init_db creates the tables *)
(* of a fresh installation, records the migrations those tables stand for, *)
(* and hands over to the numbered migrations.  The database driver opens a *)
(* transaction at the first statement that writes rows; until then a       *)
(* statement that changes the schema is permanent at once, and a script    *)
(* commits whatever is open.  Several processes start together, statements *)
(* fail, and a process may be killed between any two of them.              *)
(***************************************************************************)
EXTENDS Naturals, Sequences, FiniteSets, FiniteSetsExt

CONSTANTS
    Starters,   \* processes that start and run the migrations
    Scripts,    \* the kinds of each migration's statements, by version
    Bootstrap,  \* the newest migration init_db records without running it
    Ages,       \* versions of the databases a behaviour may begin with
    MaxStarts   \* bound on the starts

\* A schema change, a change of rows, rows written only where a query finds them
\* missing, a script; the wrapped ones have their errors swallowed.
Wrapped == {"ddl_try", "dml_try", "seed_try"}
Ddls == {"ddl", "ddl_try"}
Dmls == {"dml", "dml_try", "seed", "seed_try"}
Seeds == {"seed", "seed_try"}

ASSUME MigrationsAssumption ==
    /\ Scripts \in Seq(Seq(Ddls \cup Dmls \cup {"script"}))
    /\ Bootstrap \in DOMAIN Scripts /\ Scripts[1] = <<>>
    /\ Ages \subseteq {0} \cup 2..Len(Scripts) + 1
    /\ MaxStarts \in Nat

VARIABLES
    settled,    \* statements that are permanent, or whose error was ignored
    versions,   \* schema_version
    open,       \* for each starter what its transaction holds, <<>> when none is open
    at,         \* where each starter is: migration and statement
    starts,     \* starts so far
    skipped     \* history: migrations init_db recorded without running them

migVars == <<settled, versions, open, at, starts, skipped>>

\* CURRENT_SCHEMA_VERSION.
Current == Len(Scripts)

Idle == [v |-> 0, i |-> 0]
Initialised == [v |-> 0, i |-> 1]
Running(s) == at[s].v \in DOMAIN Scripts

\* What a transaction holds: statements of the present migration and its version row.
Transaction(stmts, vs) == <<[stmts |-> stmts, vs |-> vs]>>

\* _get_db_version.
DbVersion == Max(versions \cup {0})

\* One writer at a time.
Free(s) == \A t \in Starters \ {s} : open[t] = <<>>
-----------------------------------------------------------------------------
\* init_db up to its commit: the seeds before it hold the write lock while the
\* version is read and the rows up to Bootstrap are added, on an old database as
\* much as on a fresh one.
InitDb(s) ==
    LET new == {v \in 2..Bootstrap : v > DbVersion}
    IN  /\ at[s] = Idle
        /\ starts < MaxStarts
        /\ Free(s)
        /\ starts' = starts + 1
        /\ versions' = versions \cup new
        /\ skipped' = skipped \cup new
        /\ at' = [at EXCEPT ![s] = Initialised]
        /\ UNCHANGED <<settled, open>>

\* Mutant: the first pending migration is passed over.
PendingLater(d) == {v \in DOMAIN Scripts : v > d + 1}

\* MIGRATIONS above the version of the database.
Pending(d) == {v \in DOMAIN Scripts : v > d}

\* run_migrations begins: a database newer than the code is refused, one that is
\* up to date is left alone.
RunMigrations(s) ==
    /\ at[s] = Initialised
    /\ at' = [at EXCEPT ![s] =
                IF DbVersion > Current \/ Pending(DbVersion) = {} THEN Idle
                ELSE [v |-> Min(Pending(DbVersion)), i |-> 1]]
    /\ UNCHANGED <<settled, versions, open, starts, skipped>>

AtStatement(s) == Running(s) /\ at[s].i \in DOMAIN Scripts[at[s].v]
Kind(s) == Scripts[at[s].v][at[s].i]
Step(s) == at' = [at EXCEPT ![s].i = @ + 1]
Settle(s, stmts) == settled' = settled \cup ({at[s].v} \X stmts)

\* CREATE ... IF NOT EXISTS and ALTER TABLE: permanent, unless a transaction is
\* open already.
Ddl(s) ==
    /\ AtStatement(s) /\ Kind(s) \in Ddls
    /\ Free(s)
    /\ IF open[s] = <<>>
       THEN Settle(s, {at[s].i}) /\ UNCHANGED open
       ELSE /\ open' = [open EXCEPT ![s][1].stmts = @ \cup {at[s].i}]
            /\ UNCHANGED settled
    /\ Step(s)
    /\ UNCHANGED <<versions, starts, skipped>>

\* INSERT and UPDATE, guarded so that a second run finds nothing to do.
Dml(s) ==
    /\ AtStatement(s) /\ Kind(s) \in Dmls
    /\ Free(s)
    /\ open' = [open EXCEPT ![s] =
                  IF @ = <<>> THEN Transaction({at[s].i}, {})
                  ELSE Transaction(@[1].stmts \cup {at[s].i}, @[1].vs)]
    /\ Step(s)
    /\ UNCHANGED <<settled, versions, starts, skipped>>

\* A query finds every row present, so that nothing is written.
SeedPresent(s) ==
    /\ AtStatement(s) /\ Kind(s) \in Seeds
    /\ Settle(s, {at[s].i})
    /\ Step(s)
    /\ UNCHANGED <<versions, open, starts, skipped>>

Held(s) == IF open[s] = <<>> THEN {} ELSE open[s][1].stmts

\* executescript commits what is open and runs on its own.
Script(s) ==
    /\ AtStatement(s) /\ Kind(s) = "script"
    /\ Free(s)
    /\ Settle(s, {at[s].i} \cup Held(s))
    /\ open' = [open EXCEPT ![s] = <<>>]
    /\ Step(s)
    /\ UNCHANGED <<versions, starts, skipped>>

\* An error of a statement the migration wraps, a locked database included, ends
\* the try block it is in.
Swallow(s) ==
    LET script == Scripts[at[s].v]
        past == Min({j \in at[s].i..Len(script) + 1 :
                        j \in DOMAIN script => script[j] \notin Wrapped})
    IN  /\ AtStatement(s) /\ Kind(s) \in Wrapped
        /\ Settle(s, at[s].i..past - 1)
        /\ at' = [at EXCEPT ![s].i = past]
        /\ UNCHANGED <<versions, open, starts, skipped>>

\* _set_db_version, in the transaction of the migration or opening one.
SetDbVersion(s) ==
    /\ Running(s) /\ at[s].i = Len(Scripts[at[s].v]) + 1
    /\ Free(s)
    /\ open' = [open EXCEPT ![s] = Transaction(Held(s), {at[s].v})]
    /\ Step(s)
    /\ UNCHANGED <<settled, versions, starts, skipped>>

\* The commit, and the next migration of those that were pending.
Commit(s) ==
    /\ Running(s) /\ at[s].i = Len(Scripts[at[s].v]) + 2
    /\ Settle(s, Held(s))
    /\ versions' = versions \cup open[s][1].vs
    /\ open' = [open EXCEPT ![s] = <<>>]
    /\ at' = [at EXCEPT ![s] = IF @.v = Current THEN Idle ELSE [v |-> @.v + 1, i |-> 1]]
    /\ UNCHANGED <<starts, skipped>>

\* An error nobody wraps rolls back and ends the start; so does a kill.
Fail(s) ==
    /\ at[s] # Idle
    /\ open' = [open EXCEPT ![s] = <<>>]
    /\ at' = [at EXCEPT ![s] = Idle]
    /\ UNCHANGED <<settled, versions, starts, skipped>>
-----------------------------------------------------------------------------
Statements(v) == {v} \X DOMAIN Scripts[v]

\* A database of any age: a new one, one of an older release, complete to its
\* version, or one of a newer release.
MigInit ==
    \E d \in Ages :
        /\ versions = 2..d
        /\ settled = UNION {Statements(v) : v \in 1..d \cap DOMAIN Scripts}
        /\ open = [s \in Starters |-> <<>>]
        /\ at = [s \in Starters |-> Idle]
        /\ starts = 0 /\ skipped = {}

MigNext ==
    \E s \in Starters :
        \/ InitDb(s) \/ RunMigrations(s) \/ Ddl(s) \/ Dml(s) \/ SeedPresent(s)
        \/ Script(s) \/ Swallow(s) \/ SetDbVersion(s) \/ Commit(s) \/ Fail(s)

\* A recorded version is a promise later starts rely on: whatever failed or was
\* killed before, and whoever else migrated at the same time, every statement of
\* every migration up to the version of the database is in place, but for those
\* whose error a migration ignored and for the migrations init_db recorded
\* without running them.
SchemaComplete ==
    LET d == DbVersion
    IN  \A v \in DOMAIN Scripts \ skipped : v =< d => Statements(v) \subseteq settled
=============================================================================
