----------------------------- MODULE SqlSchema -----------------------------
(***************************************************************************)
(* What the statements of the migrations in src/migrations do to the       *)
(* schema of the database: tables with their columns, foreign keys, and    *)
(* the indexes that matter to them.                                        *)
(*                                                                         *)
(* Column types, defaults and the rows are left out, and so are statements *)
(* that only change them.  An index is kept when its first column has a    *)
(* foreign key and some migration drops an index of that column.           *)
(***************************************************************************)
EXTENDS Integers, Sequences, FiniteSets, TLC

MySQLFamily == {"mysql", "mariadb"}

(***************************************************************************)
(* Schemas.                                                                *)
(***************************************************************************)

EmptySchema == [tables |-> <<>>, refs |-> {}, indexes |-> {}]

HasTable(s, t) == t \in DOMAIN s.tables
HasColumn(s, t, c) == HasTable(s, t) /\ c \in s.tables[t]
HasRef(s, t, n) == \E r \in s.refs : r.from = t /\ r.name = n
HasIndex(s, t, n) == \E i \in s.indexes : i.table = t /\ i.name = n

(***************************************************************************)
(* Foreign keys, by what the deletion of the row they point to does.       *)
(***************************************************************************)

Ref(n, c, t, rule) == [name |-> n, col |-> c, to |-> t, rule |-> rule]
Cascade(n, c, t)  == Ref(n, c, t, "cascade")
SetNull(n, c, t)  == Ref(n, c, t, "set_null")
Restricted(n, c, t) == Ref(n, c, t, "restrict")

(***************************************************************************)
(* Statements.  alter is one ALTER TABLE: it adds and removes columns and  *)
(* foreign keys at once or is refused as a whole.  A statement of `given`  *)
(* is sent only when the code found its condition true; one of `engines`   *)
(* is written in the dialect of these engines only.                        *)
(***************************************************************************)

Statement(op, t, cols, refs, names) ==
    [op |-> op, table |-> t, cols |-> cols, refs |-> refs, names |-> names,
     engines |-> MySQLFamily \cup {"postgres"}]

Create(t, cols, refs)   == Statement("create", t, cols, refs, {})
Add(t, cols)             == Statement("add", t, cols, {}, {})
AddWith(t, cols, refs)   == Statement("add", t, cols, refs, {})
Bind(t, refs)            == Statement("add", t, {}, refs, {})
DropColumns(t, cols)          == Statement("remove", t, cols, {}, {})
DropColumnsWith(t, names, cols) == Statement("remove", t, cols, {}, names)
Unbind(t, names)         == Statement("remove", t, {}, {}, names)
Index(t, n, c)           == Statement("index", t, {c}, {}, {n})
Unindex(t, n)            == Statement("unindex", t, {}, {}, {n})
Drop(t)                  == Statement("drop_if_exists", t, {}, {}, {})
DropStrict(t)            == Statement("drop", t, {}, {}, {})

Given(cond, body) == [op |-> "given", when |-> cond, body |-> body,
                      engines |-> MySQLFamily \cup {"postgres"}]

Condition(what, t, n, holds) == [what |-> what, table |-> t, name |-> n, holds |-> holds]

IfTable(t, body)          == Given(Condition("table", t, t, TRUE), body)
UnlessTable(t, body)      == Given(Condition("table", t, t, FALSE), body)
IfColumn(t, c, body)      == Given(Condition("column", t, c, TRUE), body)
UnlessColumn(t, c, body)  == Given(Condition("column", t, c, FALSE), body)
IfRef(t, n, body)         == Given(Condition("ref", t, n, TRUE), body)
UnlessRef(t, n, body)     == Given(Condition("ref", t, n, FALSE), body)
IfIndex(t, n, body)       == Given(Condition("index", t, n, TRUE), body)
UnlessIndex(t, n, body)   == Given(Condition("index", t, n, FALSE), body)

\* The branch of the code for PostgreSQL, where the branches differ.
OnPostgres(body)          == Given(Condition("engine", "", "postgres", TRUE), body)

\* Text that only these servers parse: backquotes, INFORMATION_SCHEMA with
\* DATABASE(), DROP INDEX ... ON, DROP COLUMN IF EXISTS.
Speaks(engines, s) == [s EXCEPT !.engines = engines]
MySQLOnly(s)   == Speaks(MySQLFamily, s)
NotOnMySQL(s)  == Speaks({"mariadb", "postgres"}, s)

IsTrue(s, engine, c) ==
    c.holds = CASE c.what = "table"  -> HasTable(s, c.table)
                [] c.what = "column" -> HasColumn(s, c.table, c.name)
                [] c.what = "ref"    -> HasRef(s, c.table, c.name)
                [] c.what = "index"  -> HasIndex(s, c.table, c.name)
                [] c.what = "engine" -> engine = c.name

(***************************************************************************)
(* When a server refuses a statement.                                      *)
(***************************************************************************)

\* The columns of t that still have a foreign key once these are dropped.
KeyedColumns(s, t, names) == {r.col : r \in {q \in s.refs : q.from = t /\ q.name \notin names}}

\* A foreign key needs its target, a column, and a name nobody has.  A table may
\* refer to itself, and MySQL wants the name free in the whole database.
CanBind(s, engine, t, cols, r) ==
    /\ r.col \in cols
    /\ HasTable(s, r.to) \/ r.to = t
    /\ \A q \in s.refs : q.name = r.name => engine = "postgres" /\ q.from # t

\* The last index of a column with a foreign key cannot be dropped by MySQL: the one
\* it made for the key went away when the named one was created.
LastIndexOfKey(s, t, n) ==
    \E i \in s.indexes :
        /\ i.table = t /\ i.name = n
        /\ i.col \in KeyedColumns(s, t, {})
        /\ ~\E j \in s.indexes : j.table = t /\ j.col = i.col /\ j.name # n

Accepts(s, engine, st) ==
    /\ engine \in st.engines
    /\ CASE st.op = "create" ->
              /\ ~HasTable(s, st.table)
              /\ \A r \in st.refs : CanBind(s, engine, st.table, st.cols, r)
         [] st.op = "add" ->
              /\ HasTable(s, st.table)
              /\ st.cols \cap s.tables[st.table] = {}
              /\ \A r \in st.refs :
                    CanBind(s, engine, st.table, s.tables[st.table] \cup st.cols, r)
         [] st.op = "remove" ->
              /\ HasTable(s, st.table)
              /\ st.cols \subseteq s.tables[st.table]
              /\ \A n \in st.names : HasRef(s, st.table, n)
              /\ engine \in MySQLFamily => st.cols \cap KeyedColumns(s, st.table, st.names) = {}
         [] st.op = "index" ->
              /\ \A c \in st.cols : HasColumn(s, st.table, c)
              /\ \A n \in st.names : ~HasIndex(s, st.table, n)
         [] st.op = "unindex" ->
              \A n \in st.names :
                  /\ HasIndex(s, st.table, n)
                  /\ engine \in MySQLFamily => ~LastIndexOfKey(s, st.table, n)
         [] st.op \in {"drop", "drop_if_exists"} ->
              /\ st.op = "drop" => HasTable(s, st.table)
              /\ \A r \in s.refs : r.to = st.table => r.from = st.table
         [] st.op = "given" -> TRUE

(***************************************************************************)
(* What an accepted statement does.                                        *)
(***************************************************************************)

From(t, refs) == {[name |-> r.name, from |-> t, col |-> r.col, to |-> r.to, rule |-> r.rule] :
                    r \in refs}

Effect(s, st) ==
    CASE st.op = "create" ->
            [s EXCEPT !.tables = (st.table :> st.cols) @@ @, !.refs = @ \cup From(st.table, st.refs)]
      [] st.op = "add" ->
            [s EXCEPT !.tables[st.table] = @ \cup st.cols, !.refs = @ \cup From(st.table, st.refs)]
      [] st.op = "remove" ->
            [s EXCEPT !.tables[st.table] = @ \ st.cols,
                      !.refs = {r \in @ : ~(r.from = st.table /\ (r.name \in st.names \/ r.col \in st.cols))},
                      !.indexes = {i \in @ : ~(i.table = st.table /\ i.col \in st.cols)}]
      [] st.op = "index" ->
            [s EXCEPT !.indexes = @ \cup {[table |-> st.table, name |-> n, col |-> c] :
                                            n \in st.names, c \in st.cols}]
      [] st.op = "unindex" ->
            [s EXCEPT !.indexes = {i \in @ : ~(i.table = st.table /\ i.name \in st.names)}]
      [] st.op \in {"drop", "drop_if_exists"} ->
            [s EXCEPT !.tables = [t \in DOMAIN @ \ {st.table} |-> @[t]],
                      !.refs = {r \in @ : r.from # st.table},
                      !.indexes = {i \in @ : i.table # st.table}]

\* A migration: its time stamp and the statements of up and down.
Migration(stamp, up, down) == [stamp |-> stamp, up |-> up, down |-> down]
=============================================================================
