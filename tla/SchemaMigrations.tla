-------------------------- MODULE SchemaMigrations --------------------------
(***************************************************************************)
(* The database schema and its six migrations, up and down, run by hand    *)
(* (alembic upgrade, alembic downgrade) while services write rows.         *)
(*                                                                         *)
(* A table is [columns, keys]: columns[c] is the type of column c, with a  *)
(* "?" if it may be NULL; a key is a constraint or an index, with the name *)
(* by which later migrations drop it.  Server defaults are left out.       *)
(*                                                                         *)
(* A database is empty at first, or was migrated before base.py had a      *)
(* naming convention and has keys with the names PostgreSQL gives, those   *)
(* that the migrations spell out.  All migrations now run with the         *)
(* convention.                                                             *)
(***************************************************************************)
EXTENDS Integers, Sequences, FiniteSets, SequencesExt

CONSTANTS
    Migrators,     \* people who run alembic
    Inherited,     \* revisions of databases older than the naming convention
    Idle           \* a migrator that runs nothing

VARIABLES
    revision,      \* how many migrations alembic_version says are applied
    schema,        \* schema[t]: the tables that exist
    rows,          \* tables that have rows
    nulls,         \* those with a row whose updated_by is NULL
    twins,         \* has a customer two accounts in one currency?
    migrator       \* migrator[m]: the revisions m goes from and to, or Idle

vars == <<revision, schema, rows, nulls, twins, migrator>>

Customer == "customer"
Account == "customer_account"
History == "customer_account_history"
Ledger == "customer_account_ledger"
Verified == "customer_account_ledger_verified"
Discrepancy == "customer_account_ledger_discrepancy"

-----------------------------------------------------------------------------
(* Keys and statements of a migration *)

Key(kind, name, on, to) == [kind |-> kind, name |-> name, on |-> on, to |-> to]
Index(name, on) == Key("index", name, on, "")
Unique(name, on) == Key("unique", name, on, "")
Foreign(name, on, to) == Key("foreign", name, on, to)

\* Constraints of a new table that the migration gives no name.
Primary(on) == Key("primary", "", on, "")
References(c, to) == Foreign("", <<c>>, to)
UniqueColumn(c) == Unique("", <<c>>)

\* alembic names them by the naming convention of target_metadata; without
\* one PostgreSQL does in its own way.
ConventionName(t, key) ==
    CASE key.kind = "primary" -> "pk_" \o t
      [] key.kind = "foreign" -> "fk_" \o t \o "_" \o key.on[1] \o "_" \o key.to
      [] key.kind = "unique" -> "uq_" \o t \o "_" \o key.on[1]
      [] OTHER -> ""

PostgresName(t, key) ==
    CASE key.kind = "primary" -> t \o "_pkey"
      [] key.kind = "foreign" -> t \o "_" \o key.on[1] \o "_fkey"
      [] key.kind = "unique" -> t \o "_" \o key.on[1] \o "_key"
      [] OTHER -> ""

CreateTable(t, columns, keys) ==
    [op |-> "create table", table |-> t, columns |-> columns, keys |-> keys]
DropTable(t) == [op |-> "drop table", table |-> t]
AddColumn(t, c, type) == [op |-> "add column", table |-> t, column |-> c, type |-> type]
DropColumn(t, c) == [op |-> "drop column", table |-> t, column |-> c]
Rename(t, c, to) == [op |-> "rename", table |-> t, column |-> c, to |-> to]
Alter(t, c, type) == [op |-> "alter", table |-> t, column |-> c, type |-> type]
CreateKey(t, key) == [op |-> "create key", table |-> t, key |-> key]
DropKey(t, name) == [op |-> "drop key", table |-> t, name |-> name]
Stamp(from, to) == [op |-> "stamp", from |-> from, to |-> to]

\* A statement with all its names, in an old database those of PostgreSQL.
Spelled(x, old) ==
    LET Name(key) == IF old THEN PostgresName(x.table, key) ELSE ConventionName(x.table, key)
    IN  IF x.op # "create table" THEN x
        ELSE [x EXCEPT !.keys = {IF k.name = "" THEN [k EXCEPT !.name = Name(k)]
                                                ELSE k : k \in @}]

-----------------------------------------------------------------------------
(* The migrations *)

LedgerV1 ==
    [id |-> "uuid", customer_account_id |-> "uuid", amount |-> "numeric",
     operation_type |-> "text", operation_id |-> "uuid", created_at |-> "timetz"]

AccountV1 ==
    [id |-> "uuid", customer_id |-> "uuid", currency |-> "text", name |-> "text?",
     status |-> "text", created_at |-> "timetz", updated_at |-> "timetz",
     updated_by |-> "uuid?", version |-> "integer"]

InitialUp == <<
    CreateTable(Customer,
        [id |-> "uuid", email |-> "text", name |-> "text?", status |-> "text",
         created_at |-> "timetz", updated_at |-> "timetz?"],
        {Primary(<<"id">>), UniqueColumn("email")}),
    CreateKey(Customer, Index("ix_customer_created_at", <<"created_at">>)),
    CreateTable(Account, AccountV1,
        {Primary(<<"id">>), References("customer_id", Customer)}),
    CreateKey(Account, Index("ix_customer_account_created_at", <<"created_at">>)),
    CreateKey(Account, Index("ix_customer_account_customer_id", <<"customer_id">>)),
    CreateTable(History, AccountV1 @@ [changed |-> "time?"],
        {Primary(<<"id", "version">>),
         References("customer_id", Customer)}),
    CreateKey(History, Index("ix_customer_account_history_created_at_history", <<"created_at">>)),
    CreateKey(History, Index("ix_customer_account_history_customer_id_history", <<"customer_id">>)),
    CreateTable(Ledger, LedgerV1,
        {Primary(<<"id">>), References("customer_account_id", Account)}),
    CreateKey(Ledger, Index("ix_customer_account_ledger_created_at", <<"created_at">>)),
    CreateKey(Ledger, Index("ix_customer_account_ledger_customer_account_id",
                            <<"customer_account_id">>))>>

InitialDown == <<
    DropKey(Ledger, "ix_customer_account_ledger_customer_account_id"),
    DropKey(Ledger, "ix_customer_account_ledger_created_at"),
    DropTable(Ledger),
    DropKey(History, "ix_customer_account_history_customer_id_history"),
    DropKey(History, "ix_customer_account_history_created_at_history"),
    DropTable(History),
    DropKey(Account, "ix_customer_account_customer_id"),
    DropKey(Account, "ix_customer_account_created_at"),
    DropTable(Account),
    DropKey(Customer, "ix_customer_created_at"),
    DropTable(Customer)>>

CurrencyUp == <<
    CreateKey(Account, Unique("uq_customer_account_id_currency", <<"id", "currency">>))>>

\* Faulty variant of CurrencyDown: it names the key as a later migration does.
CurrencyDownLater == <<DropKey(Account, "uq_customer_account_customer_id_currency")>>

CurrencyDown == <<DropKey(Account, "uq_customer_account_id_currency")>>

\* Faulty variant of LedgerColumns: they are added so that no row is in the way.
LedgerColumnsNullable == <<
    AddColumn(Ledger, "no", "bigint?"),
    AddColumn(Ledger, "balance", "numeric?"),
    AddColumn(Ledger, "created_by", "uuid?")>>

LedgerColumns == <<
    AddColumn(Ledger, "no", "bigint"),
    AddColumn(Ledger, "balance", "numeric"),
    AddColumn(Ledger, "created_by", "uuid?")>>

ReworkUp == <<
    CreateKey(Account, Index("ix_customer_account_currency", <<"currency">>)),
    CreateKey(Account, Index("ix_customer_account_status", <<"status">>)),
    CreateKey(History, Index("ix_customer_account_history_currency_history", <<"currency">>)),
    CreateKey(History, Index("ix_customer_account_history_status_history", <<"status">>))>>
    \o LedgerColumns \o <<
    DropKey(Ledger, "customer_account_ledger_pkey"),
    CreateKey(Ledger, Key("primary", "customer_account_ledger_pkey", <<"id", "no">>, "")),
    DropKey(Ledger, "ix_customer_account_ledger_created_at"),
    DropKey(Ledger, "ix_customer_account_ledger_customer_account_id"),
    CreateKey(Ledger, Index("ix_customer_account_ledger_id_created_at", <<"id", "created_at">>)),
    CreateKey(Ledger, Unique("uq_customer_account_ledger_id_operation_id",
                             <<"id", "operation_id">>)),
    DropKey(Ledger, "customer_account_ledger_customer_account_id_fkey"),
    CreateKey(Ledger, Foreign("fk_customer_account_ledger_id_customer_account_id",
                              <<"id">>, Account)),
    DropColumn(Ledger, "customer_account_id")>>

ReworkDown == <<
    AddColumn(Ledger, "customer_account_id", "uuid"),
    DropKey(Ledger, "fk_customer_account_ledger_id_customer_account_id"),
    CreateKey(Ledger, Foreign("customer_account_ledger_customer_account_id_fkey",
                              <<"customer_account_id">>, Account)),
    DropKey(Ledger, "uq_customer_account_ledger_id_operation_id"),
    DropKey(Ledger, "ix_customer_account_ledger_id_created_at"),
    CreateKey(Ledger, Index("ix_customer_account_ledger_customer_account_id",
                            <<"customer_account_id">>)),
    CreateKey(Ledger, Index("ix_customer_account_ledger_created_at", <<"created_at">>)),
    DropKey(Ledger, "customer_account_ledger_pkey"),
    CreateKey(Ledger, Key("primary", "customer_account_ledger_pkey", <<"id">>, "")),
    DropColumn(Ledger, "created_by"),
    DropColumn(Ledger, "balance"),
    DropColumn(Ledger, "no"),
    DropKey(History, "ix_customer_account_history_status_history"),
    DropKey(History, "ix_customer_account_history_currency_history"),
    DropKey(Account, "ix_customer_account_status"),
    DropKey(Account, "ix_customer_account_currency")>>

VerifiedUp == <<
    CreateTable(Verified,
        [id |-> "uuid", through_no |-> "bigint", balance |-> "numeric", verified_at |-> "timetz"],
        {Primary(<<"id", "through_no">>), References("id", Account)}),
    CreateKey(Verified, Index("ix_customer_account_ledger_verified_id_verified_at",
                              <<"id", "verified_at">>))>>

VerifiedDown == <<
    DropKey(Verified, "ix_customer_account_ledger_verified_id_verified_at"),
    DropTable(Verified)>>

OpenIncident(column) ==
    Key("unique where open", "uq_customer_account_ledger_discrepancy_open", <<column>>, "")

DiscrepancyUp == <<
    CreateTable(Discrepancy,
        [discrepancy_id |-> "bigint", id |-> "uuid", no |-> "bigint", kind |-> "text",
         prev_no |-> "bigint", expected_balance |-> "numeric?", actual_balance |-> "numeric",
         detected_at |-> "timetz", resolved_at |-> "timetz?", resolved_by |-> "uuid?"],
        {Primary(<<"discrepancy_id">>), References("id", Account)}),
    CreateKey(Discrepancy, OpenIncident("id"))>>

DiscrepancyDown == <<
    DropKey(Discrepancy, "uq_customer_account_ledger_discrepancy_open"),
    DropTable(Discrepancy)>>

RenameUp == <<
    Alter(Customer, "status", "enum"),
    Alter(Account, "status", "enum"),
    Alter(Account, "updated_by", "uuid"),
    DropKey(Account, "uq_customer_account_id_currency"),
    CreateKey(Account, Unique("uq_customer_account_customer_id_currency",
                              <<"customer_id", "currency">>)),
    Alter(History, "status", "enum"),
    Alter(History, "updated_by", "uuid"),
    Rename(Ledger, "id", "account_id"),
    Alter(Ledger, "operation_type", "enum"),
    DropKey(Ledger, "ix_customer_account_ledger_id_created_at"),
    DropKey(Ledger, "uq_customer_account_ledger_id_operation_id"),
    CreateKey(Ledger, Index("ix_customer_account_ledger_account_id_created_at",
                            <<"account_id", "created_at">>)),
    CreateKey(Ledger, Unique("uq_customer_account_ledger_account_id_operation_id",
                             <<"account_id", "operation_id">>)),
    DropKey(Ledger, "fk_customer_account_ledger_id_customer_account_id"),
    CreateKey(Ledger, Foreign("fk_customer_account_ledger_account_id_customer_account_id",
                              <<"account_id">>, Account)),
    Rename(Discrepancy, "id", "account_id"),
    Alter(Discrepancy, "kind", "enum"),
    DropKey(Discrepancy, "uq_customer_account_ledger_discrepancy_open"),
    CreateKey(Discrepancy, OpenIncident("account_id")),
    CreateKey(Discrepancy, Index("ix_customer_account_ledger_discrepancy_kind", <<"kind">>)),
    DropKey(Discrepancy, "customer_account_ledger_discrepancy_id_fkey"),
    CreateKey(Discrepancy, Foreign("fk_customer_account_ledger_discrepancy_account_id",
                                   <<"account_id">>, Account)),
    Rename(Verified, "id", "account_id"),
    DropKey(Verified, "ix_customer_account_ledger_verified_id_verified_at"),
    CreateKey(Verified, Index("ix_customer_account_ledger_verified_account_id_verified_at",
                              <<"account_id", "verified_at">>)),
    DropKey(Verified, "customer_account_ledger_verified_id_fkey"),
    CreateKey(Verified, Foreign("fk_customer_account_ledger_verified_account_id",
                                <<"account_id">>, Account))>>

RenameDown == <<
    Rename(Verified, "account_id", "id"),
    DropKey(Verified, "fk_customer_account_ledger_verified_account_id"),
    CreateKey(Verified, Foreign("customer_account_ledger_verified_id_fkey", <<"id">>, Account)),
    DropKey(Verified, "ix_customer_account_ledger_verified_account_id_verified_at"),
    CreateKey(Verified, Index("ix_customer_account_ledger_verified_id_verified_at",
                              <<"id", "verified_at">>)),
    Rename(Discrepancy, "account_id", "id"),
    DropKey(Discrepancy, "fk_customer_account_ledger_discrepancy_account_id"),
    CreateKey(Discrepancy, Foreign("customer_account_ledger_discrepancy_id_fkey",
                                   <<"id">>, Account)),
    DropKey(Discrepancy, "ix_customer_account_ledger_discrepancy_kind"),
    DropKey(Discrepancy, "uq_customer_account_ledger_discrepancy_open"),
    CreateKey(Discrepancy, OpenIncident("id")),
    Alter(Discrepancy, "kind", "text"),
    Rename(Ledger, "account_id", "id"),
    DropKey(Ledger, "fk_customer_account_ledger_account_id_customer_account_id"),
    CreateKey(Ledger, Foreign("fk_customer_account_ledger_id_customer_account_id",
                              <<"id">>, Account)),
    DropKey(Ledger, "uq_customer_account_ledger_account_id_operation_id"),
    DropKey(Ledger, "ix_customer_account_ledger_account_id_created_at"),
    CreateKey(Ledger, Unique("uq_customer_account_ledger_id_operation_id",
                             <<"id", "operation_id">>)),
    CreateKey(Ledger, Index("ix_customer_account_ledger_id_created_at", <<"id", "created_at">>)),
    Alter(Ledger, "operation_type", "text"),
    Alter(History, "updated_by", "uuid?"),
    Alter(History, "status", "text"),
    DropKey(Account, "uq_customer_account_customer_id_currency"),
    CreateKey(Account, Unique("uq_customer_account_id_currency", <<"id", "currency">>)),
    Alter(Account, "updated_by", "uuid?"),
    Alter(Account, "status", "text"),
    Alter(Customer, "status", "text")>>

Up == <<InitialUp, CurrencyUp, ReworkUp, VerifiedUp, DiscrepancyUp, RenameUp>>
Down == <<InitialDown, CurrencyDown, ReworkDown, VerifiedDown, DiscrepancyDown, RenameDown>>
HeadRevision == Len(Up)

\* The statements of alembic upgrade or downgrade; after each migration it
\* moves the row of alembic_version.
Plan(from, to) ==
    IF from < to
    THEN FlattenSeq([i \in 1 .. to - from |->
            Up[from + i] \o <<Stamp(from + i - 1, from + i)>>])
    ELSE FlattenSeq([i \in 1 .. from - to |->
            Down[from - i + 1] \o <<Stamp(from - i + 1, from - i)>>])

-----------------------------------------------------------------------------
(* What PostgreSQL does with a statement *)

Nullable == {"text?", "uuid?", "time?", "timetz?", "numeric?", "bigint?"}
Mentions(key, c) == \E i \in DOMAIN key.on : key.on[i] = c
Named(table, name) == {k \in table.keys : k.name = name}
KeyNames(s) == UNION {{k.name : k \in s[t].keys} : t \in DOMAIN s}
RefersTo(s, t) == \E u \in DOMAIN s : \E k \in s[u].keys : k.to = t

\* An object the statement needs is not there, or the one it makes is.
Broken(s, x) ==
    CASE x.op = "create table" ->
            \/ x.table \in DOMAIN s
            \/ \E k \in x.keys : k.name \in KeyNames(s) \/ k.to \notin DOMAIN s \cup {""}
      [] x.table \notin DOMAIN s -> TRUE
      [] x.op = "drop table" -> RefersTo(s, x.table)
      [] x.op = "add column" -> x.column \in DOMAIN s[x.table].columns
      [] x.op \in {"drop column", "alter"} -> x.column \notin DOMAIN s[x.table].columns
      [] x.op = "rename" ->
            x.column \notin DOMAIN s[x.table].columns \/ x.to \in DOMAIN s[x.table].columns
      [] x.op = "create key" ->
            \/ x.key.name \in KeyNames(s)
            \/ x.key.kind = "primary" /\ \E k \in s[x.table].keys : k.kind = "primary"
            \/ \E i \in DOMAIN x.key.on : x.key.on[i] \notin DOMAIN s[x.table].columns
            \/ x.key.to \notin DOMAIN s \cup {""}
      [] x.op = "drop key" -> Named(s[x.table], x.name) = {}

\* A row is in the way.
Refused(d, x) ==
    \/ x.op = "add column" /\ x.type \notin Nullable /\ x.table \in d.rows
    \/ /\ x.op = "alter" /\ x.column = "updated_by" /\ x.type \notin Nullable
       /\ x.table \in d.nulls
    \/ x.op = "create key" /\ x.key.on = <<"customer_id", "currency">> /\ d.twins

\* A column is renamed in the keys as well; with a column go its keys.
Altered(table, x) ==
    CASE x.op \in {"add column", "alter"} ->
            [table EXCEPT !.columns = (x.column :> x.type) @@ @]
      [] x.op = "drop column" ->
            [columns |-> [c \in DOMAIN table.columns \ {x.column} |-> table.columns[c]],
             keys |-> {k \in table.keys : ~Mentions(k, x.column)}]
      [] x.op = "rename" ->
            LET new(c) == IF c = x.column THEN x.to ELSE c
            IN  [columns |-> [c \in {new(d) : d \in DOMAIN table.columns} |->
                                 table.columns[IF c = x.to THEN x.column ELSE c]],
                 keys |-> {[k EXCEPT !.on = [i \in DOMAIN k.on |-> new(k.on[i])]] :
                              k \in table.keys}]
      [] x.op = "create key" -> [table EXCEPT !.keys = @ \cup {x.key}]
      [] x.op = "drop key" -> [table EXCEPT !.keys = @ \ Named(table, x.name)]

Changed(s, x) ==
    CASE x.op = "create table" -> (x.table :> [columns |-> x.columns, keys |-> x.keys]) @@ s
      [] x.op = "drop table" -> [t \in DOMAIN s \ {x.table} |-> s[t]]
      [] OTHER -> [s EXCEPT ![x.table] = Altered(@, x)]

\* Faulty variant of Stale: alembic does not look.
NeverStale(d, x) == FALSE

\* UPDATE alembic_version ... WHERE version_num = ... has to match one row.
Stale(d, x) == x.op = "stamp" /\ x.from # 0 /\ d.revision # x.from

Execute(d, statement) ==
    LET x == Spelled(statement, FALSE)
    IN  CASE d.error # "none" -> d
          [] Stale(d, x) -> [d EXCEPT !.error = "stale"]
          [] x.op = "stamp" -> [d EXCEPT !.revision = x.to]
          [] Broken(d.schema, x) -> [d EXCEPT !.error = "object"]
          [] Refused(d, x) -> [d EXCEPT !.error = "rows"]
          [] OTHER ->
                [d EXCEPT !.schema = Changed(@, x),
                          !.lost = @ \cup (IF x.op \in {"drop table", "drop column"}
                                           THEN d.rows \cap {x.table} ELSE {})]

\* The transaction of one alembic run, on what is committed when its first
\* statement gets its lock.
Outcome(d, from, to) ==
    FoldLeft(Execute,
             [revision |-> d.revision, schema |-> d.schema, rows |-> d.rows,
              nulls |-> d.nulls, twins |-> d.twins, error |-> "none", lost |-> {}],
             Plan(from, to))

Database == [revision |-> revision, schema |-> schema, rows |-> rows, nulls |-> nulls,
             twins |-> twins]

Result(from, to) == Outcome(Database, from, to)

\* What a run may be asked for: all the way, or one step.
Targets(from) ==
    {0, from - 1, from + 1, HeadRevision} \cap ((0 .. HeadRevision) \ {from})

\* The schema that all migrations up to a revision made of an empty database,
\* before there was a naming convention.
SchemaAt ==
    [n \in 0 .. HeadRevision |->
        FoldLeft(LAMBDA s, x : IF x.op = "stamp" THEN s
                               ELSE Changed(s, Spelled(x, TRUE)),
                 [t \in {} |-> {}],
                 IF n = 0 THEN <<>> ELSE Plan(0, n))]

-----------------------------------------------------------------------------
Init ==
    /\ revision \in {0} \cup Inherited
    /\ schema = SchemaAt[revision]
    /\ rows = {} /\ nulls = {} /\ twins = FALSE
    /\ migrator = [m \in Migrators |-> Idle]

\* alembic reads the revision and makes its plan.
Begin(m) ==
    /\ migrator[m] = Idle
    /\ \E to \in Targets(revision) :
          migrator' = [migrator EXCEPT ![m] = [from |-> revision, to |-> to]]
    /\ UNCHANGED <<revision, schema, rows, nulls, twins>>

\* run_migrations_online: one transaction for the whole run.
Run(m) ==
    LET d == Result(migrator[m].from, migrator[m].to)
    IN  /\ migrator[m] # Idle
        /\ migrator' = [migrator EXCEPT ![m] = Idle]
        /\ IF d.error = "none"
           THEN /\ revision' = d.revision
                /\ schema' = d.schema
                /\ rows' = rows \cap DOMAIN d.schema
                /\ nulls' = nulls \cap DOMAIN d.schema
                /\ twins' = (twins /\ Account \in DOMAIN d.schema)
           ELSE UNCHANGED <<revision, schema, rows, nulls, twins>>

\* Services write rows: the first of a table, with all it refers to.
Insert(t) ==
    /\ t \notin rows
    /\ \A k \in schema[t].keys : k.to \in rows \cup {""}
    /\ rows' = rows \cup {t}
    /\ UNCHANGED <<revision, schema, nulls, twins, migrator>>

\* A row without updated_by, a second account of a customer in one currency:
\* early schemas let them in.
InsertNull(t) ==
    /\ t \in rows \cap {Account, History}
    /\ schema[t].columns["updated_by"] \in Nullable
    /\ nulls' = nulls \cup {t}
    /\ UNCHANGED <<revision, schema, rows, twins, migrator>>

InsertTwin ==
    /\ Account \in rows
    /\ ~\E k \in schema[Account].keys : k.on = <<"customer_id", "currency">>
    /\ twins' = TRUE
    /\ UNCHANGED <<revision, schema, rows, nulls, migrator>>

Next ==
    \/ \E m \in Migrators : Begin(m) \/ Run(m)
    \/ \E t \in DOMAIN schema : Insert(t) \/ InsertNull(t)
    \/ InsertTwin

Spec == Init /\ [][Next]_vars

-----------------------------------------------------------------------------
(* What the entities declare *)

\* Faulty variant of HistoryOf: unique constraints are copied too.
HistoryWithUniques(table) ==
    [columns |-> table.columns @@ [changed |-> "time?"],
     keys |-> {IF k.kind = "primary" THEN [k EXCEPT !.on = Append(@, "version")] ELSE k :
                  k \in table.keys}]

\* _history_mapper: the columns, the version in the primary key, a column
\* "changed"; unique constraints and the uniqueness of indexes are dropped.
HistoryOf(table) ==
    [columns |-> table.columns @@ [changed |-> "time?"],
     keys |-> {IF k.kind = "primary" THEN [k EXCEPT !.on = Append(@, "version")] ELSE k :
                  k \in {j \in table.keys : j.kind # "unique"}}]

Bare(kind, on, to) == [kind |-> kind, on |-> on, to |-> to]

AccountEntity ==
    [columns |->
        [id |-> "uuid", customer_id |-> "uuid", currency |-> "text", name |-> "text?",
         status |-> "enum", created_at |-> "timetz", updated_at |-> "timetz",
         updated_by |-> "uuid", version |-> "integer"],
     keys |->
        {Bare("primary", <<"id">>, ""), Bare("foreign", <<"customer_id">>, Customer),
         Bare("unique", <<"customer_id", "currency">>, "")}
        \cup {Bare("index", <<c>>, "") : c \in {"customer_id", "currency", "status", "created_at"}}]

CustomerEntity ==
    [columns |-> [id |-> "uuid", email |-> "text", name |-> "text?", status |-> "enum",
                  created_at |-> "timetz", updated_at |-> "timetz?"],
     keys |-> {Bare("primary", <<"id">>, ""), Bare("unique", <<"email">>, ""),
               Bare("index", <<"created_at">>, "")}]

LedgerEntity ==
    [columns |-> [account_id |-> "uuid", no |-> "bigint", amount |-> "numeric",
                  balance |-> "numeric", operation_type |-> "enum",
                  operation_id |-> "uuid", created_at |-> "timetz", created_by |-> "uuid?"],
     keys |-> {Bare("primary", <<"account_id", "no">>, ""),
               Bare("unique", <<"account_id", "operation_id">>, ""),
               Bare("index", <<"account_id", "created_at">>, ""),
               Bare("foreign", <<"account_id">>, Account)}]

VerifiedEntity ==
    [columns |-> [account_id |-> "uuid", through_no |-> "bigint", balance |-> "numeric",
                  verified_at |-> "timetz"],
     keys |-> {Bare("primary", <<"account_id", "through_no">>, ""),
               Bare("index", <<"account_id", "verified_at">>, ""),
               Bare("foreign", <<"account_id">>, Account)}]

DiscrepancyEntity ==
    [columns |-> [discrepancy_id |-> "bigint", account_id |-> "uuid", no |-> "bigint",
                  kind |-> "enum", prev_no |-> "bigint", expected_balance |-> "numeric?",
                  actual_balance |-> "numeric", detected_at |-> "timetz",
                  resolved_at |-> "timetz?", resolved_by |-> "uuid?"],
     keys |-> {Bare("primary", <<"discrepancy_id">>, ""),
               Bare("unique where open", <<"account_id">>, ""),
               Bare("index", <<"kind">>, ""),
               Bare("foreign", <<"account_id">>, Account)}]

Entities ==
    Customer :> CustomerEntity @@ Account :> AccountEntity @@ History :> HistoryOf(AccountEntity)
    @@ Ledger :> LedgerEntity @@ Verified :> VerifiedEntity @@ Discrepancy :> DiscrepancyEntity

-----------------------------------------------------------------------------
\* A schema without the names that nobody chose.
Unnamed(s) ==
    [t \in DOMAIN s |->
        [s[t] EXCEPT !.keys =
            {IF k.name \in {ConventionName(t, k), PostgresName(t, k)}
             THEN [k EXCEPT !.name = ""] ELSE k : k \in @}]]

\* A row refers to rows that are there, and breaks no constraint that a
\* migration adds: updated_by is set, and an account's currency its customer's
\* only one, where the schema says so.
Fits(d) ==
    /\ Unnamed(d.schema) = Unnamed(SchemaAt[d.revision])
    /\ \A t \in d.rows :
          /\ t \in DOMAIN d.schema
          /\ \A k \in d.schema[t].keys : k.to \in d.rows \cup {""}
    /\ \A t \in d.nulls :
          t \in d.rows /\ d.schema[t].columns["updated_by"] \in Nullable
    /\ d.twins =>
          /\ Account \in d.rows
          /\ ~\E k \in d.schema[Account].keys : k.on = <<"customer_id", "currency">>

\* Upgrades, downgrades, failures and two people at once: the schema is always
\* the one of the revision that alembic_version names, down to the names that
\* the migrations give to keys, whichever names the others have; so a downgrade
\* restores what its upgrade found; and the rows obey it.
SchemaFitsRevision == Fits(Database)

\* At the last revision the tables are those the entities declare, the history
\* table included, which is generated from the account's.
HeadIsEntities ==
    revision = HeadRevision =>
        [t \in DOMAIN schema |->
            [schema[t] EXCEPT !.keys = {Bare(k.kind, k.on, k.to) : k \in @}]] = Entities

\* What one alembic run comes to, if it is run as planned: if nobody moved the
\* database meanwhile, only rows can stop it, and it arrives at the revision
\* asked for.  If somebody did, the plan is refused.
Applies(plan) ==
    LET d == Result(plan.from, plan.to)
    IN  IF plan.from = revision
        THEN d.error = "rows" \/ (d.error = "none" /\ d.revision = plan.to)
        ELSE d.error # "none"

\* "alembic upgrade head" of an empty database, and any other run, applies.
MigrationsApply ==
    \A m \in Migrators : migrator[m] # Idle => Applies(migrator[m])

\* There is always a way back: no downgrade names a key that the convention has
\* named otherwise, wherever the database came from and however far an upgrade
\* got, and one that was planned for another revision is refused.
DowngradesApply ==
    \A m \in Migrators :
        migrator[m] # Idle /\ migrator[m].to < migrator[m].from => Applies(migrator[m])

\* No upgrade that is carried out drops a table or a column that has values.
UpgradeKeepsRows ==
    \A m \in Migrators :
        migrator[m] # Idle /\ migrator[m].from < migrator[m].to
            => LET d == Result(migrator[m].from, migrator[m].to)
               IN  d.error = "none" => d.lost = {}

=============================================================================
