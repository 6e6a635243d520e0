--------------------------- MODULE PreparedQueries --------------------------
(***************************************************************************)
(* The calls of one pooled database connection (services/db).  A Postgres  *)
(* connection prepares each statement once, and every call binds, executes *)
(* and steps the same query object; its last result stays in there.  An    *)
(* SQLite connection prepares a statement per call.  Reads are coroutines: *)
(* a caller may drop one half-way.                                         *)
(*                                                                         *)
(* There is one statement that reads and one that saves, and a behaviour   *)
(* is about one kind of records: candles, quotes and tokens replace what   *)
(* is stored under their key and are read in its order; trades have no     *)
(* key, are added, and are read from the latest back.                      *)
(*                                                                         *)
(* A connection serves one caller at a time (ResourcePool), and no caller  *)
(* reads twice at once or saves while it reads.  Other connections save at *)
(* any time.                                                               *)
(***************************************************************************)
EXTENDS Naturals, FiniteSets, Sequences, SequencesExt

CONSTANTS
    Symbols,     \* stocks that are read and saved
    Keys,        \* values of opened_at, emitted_at or executed_at, in order
    MaxSaves,    \* bound on the rows saved
    MaxFailures  \* bound on statements that fail

ASSUME QueriesAssumption ==
    /\ Symbols # {}
    /\ Keys \subseteq Nat /\ IsFiniteSet(Keys)
    /\ MaxSaves \in Nat /\ MaxFailures \in Nat

VARIABLES
    dialect,   \* --database
    records,   \* what the statements read and save
    table,     \* the versions of each key's rows: the numbers of the saves they are from
    saves,     \* number of the last save that was committed
    acked,     \* those of them, or of earlier ones, that were reported to a caller here
    leased,    \* a caller has the connection
    healthy,   \* is_healthy()
    query,     \* the connection's query objects, by statement
    reader,    \* the open generator, or the last one
    failures,  \* statements that failed so far, for MaxFailures
    undefined  \* a result was cleared twice: nothing is promised any more

vars == <<dialect, records, table, saves, acked, leased, healthy, query, reader, failures, undefined>>

Statements == {"select", "insert"}

-----------------------------------------------------------------------------
(* A query object: _res, _total_rows and _current_row.                     *)

\* _res is null, points to a result or to one that is already cleared.
Unexecuted == [res |-> "null", rows |-> << >>, row |-> 0]

\* bind_all clears the last result.
BindKeepingResult(q) == q
BindKeepingPointer(q) == IF q.res = "null" THEN q ELSE [q EXCEPT !.res = "cleared"]
Bind(q) == [q EXCEPT !.res = "null"]

\* execute() with the rows of the answer; a failure clears the new result and
\* throws, but _res still points to it.
ExecuteWithoutRewind(q, rows) == [res |-> "rows", rows |-> rows, row |-> q.row]
Execute(q, rows) == [res |-> "rows", rows |-> rows, row |-> 0]
Dangling(q) == [q EXCEPT !.res = "cleared"]

\* step() executes only if there is no result.
NeedsExecution(q) == q.res # "rows"
Stepped(q) == [q EXCEPT !.row = @ + 1]
AtRow(q) == q.row <= Len(q.rows)

\* bind_all, execute or the destructor clears a cleared result again.
ClearsTwice(q) == q.res = "cleared"

-----------------------------------------------------------------------------

Row == [symbol : Symbols, key : Keys, version : 1..MaxSaves]

\* A symbol's rows.
RowsOf(s) == {r \in Row : r.symbol = s /\ r.version \in table[s][r.key]}

\* ORDER BY opened_at ASC, emitted_at ASC and executed_at DESC.
Earlier(r, t) == IF records = "trades" THEN r.key > t.key ELSE r.key < t.key

\* The answers to a statement: rows of the same time are in any order.
Answers(s) ==
    {rows \in Bijection(1..Cardinality(RowsOf(s)), RowsOf(s)) :
        \A i, j \in DOMAIN rows : i < j => ~Earlier(rows[j], rows[i])}

Reading == reader.state \in {"new", "open"}

\* A caller gets the connection from the pool.
Lease ==
    /\ ~leased /\ healthy
    /\ leased' = TRUE
    /\ UNCHANGED <<dialect, records, table, saves, acked, healthy, query, reader, failures, undefined>>

\* It gives the connection back, and the pool destroys it if it is broken; a
\* new one takes its place.
Return ==
    /\ leased /\ ~Reading
    /\ leased' = FALSE
    /\ IF healthy
       THEN UNCHANGED <<query, healthy, undefined>>
       ELSE /\ healthy' = TRUE
            /\ query' = [st \in Statements |-> Unexecuted]
            /\ undefined' = \E st \in Statements : ClearsTwice(query[st])
    /\ UNCHANGED <<dialect, records, table, saves, acked, reader, failures>>

\* read_candles is called: a generator that has not started.
Read(s) ==
    /\ leased /\ healthy /\ ~Reading
    /\ reader' = [symbol |-> s, state |-> "new", got |-> << >>, wanted |-> {}]
    /\ UNCHANGED <<dialect, records, table, saves, acked, leased, healthy, query, failures, undefined>>

\* The statement fails: the connection may be lost with it, and the exception
\* ends the generator.
Fail(st, q) ==
    /\ failures < MaxFailures
    /\ failures' = failures + 1
    /\ IF dialect = "postgres"
       THEN /\ query' = [query EXCEPT ![st] = Dangling(q)]
            /\ healthy' \in BOOLEAN
       ELSE UNCHANGED <<query, healthy>>

\* A resumed generator steps, and yields a row or ends.
Yield(q) ==
    /\ reader' = IF AtRow(q) THEN [reader EXCEPT !.state = "open", !.got = Append(@, q.rows[q.row])]
                 ELSE [reader EXCEPT !.state = "done"]

\* Postgres: the first resumption binds and executes.  The rows of a result
\* are those of the moment it was executed.
Start ==
    LET bound == Bind(query["select"]) IN
    /\ dialect = "postgres" /\ reader.state = "new"
    /\ IF ClearsTwice(query["select"]) \/ ClearsTwice(bound)
       THEN undefined' = TRUE /\ UNCHANGED <<query, healthy, reader, failures>>
       ELSE /\ \/ \E rows \in Answers(reader.symbol) :
                  LET q == Stepped(IF NeedsExecution(bound) THEN Execute(bound, rows) ELSE bound) IN
                  /\ query' = [query EXCEPT !["select"] = q]
                  /\ reader' = [reader EXCEPT !.wanted = RowsOf(reader.symbol), !.state = IF AtRow(q) THEN "open" ELSE "done",
                                              !.got = IF AtRow(q) THEN <<q.rows[q.row]>> ELSE << >>]
                  /\ UNCHANGED <<healthy, failures>>
               \/ /\ NeedsExecution(bound)
                  /\ Fail("select", bound)
                  /\ reader' = [reader EXCEPT !.state = "threw"]
            /\ UNCHANGED undefined
    /\ UNCHANGED <<dialect, records, table, saves, acked, leased>>

Resume ==
    LET q == Stepped(query["select"]) IN
    /\ dialect = "postgres" /\ reader.state = "open"
    /\ query' = [query EXCEPT !["select"] = q]
    /\ Yield(q)
    /\ UNCHANGED <<dialect, records, table, saves, acked, leased, healthy, failures, undefined>>

\* SQLite: the generator's own statement steps along the table itself, which
\* a reader locks against the other connections until it ends.
Remaining == RowsOf(reader.symbol) \ Range(reader.got)

StepLive ==
    /\ dialect = "sqlite" /\ Reading
    /\ \/ /\ \/ /\ Remaining = {}
                /\ reader' = [reader EXCEPT !.wanted = IF reader.state = "new" THEN {} ELSE @, !.state = "done"]
             \/ \E r \in Remaining :
                  /\ \A t \in Remaining : ~Earlier(t, r)
                  /\ reader' = [reader EXCEPT !.wanted = IF reader.state = "new" THEN Remaining ELSE @,
                                              !.state = "open", !.got = Append(@, r)]
          /\ UNCHANGED <<healthy, query, failures>>
       \/ /\ reader.state = "new"
          /\ Fail("select", Unexecuted)
          /\ reader' = [reader EXCEPT !.state = "threw"]
    /\ UNCHANGED <<dialect, records, table, saves, acked, leased, undefined>>

\* The caller leaves its loop: the coroutine is destroyed, and with SQLite
\* its statement.  get_auth_token and execute_read also stop at a row.
Drop ==
    /\ Reading
    /\ reader' = [reader EXCEPT !.state = "dropped"]
    /\ UNCHANGED <<dialect, records, table, saves, acked, leased, healthy, query, failures, undefined>>

\* The next version: an upsert, or for trades a plain INSERT.
Replaces == records # "trades"
With(versions, v) == IF Replaces THEN {v} ELSE versions \cup {v}

Stored(s, k) ==
    /\ saves' = saves + 1
    /\ table' = [table EXCEPT ![s][k] = With(@, saves + 1)]

\* save: bind_all and step to the end; the future is ready when it returns.
Save(s, k) ==
    LET bound == Bind(query["insert"]) IN
    /\ leased /\ healthy /\ ~Reading /\ saves < MaxSaves
    /\ IF dialect = "postgres" /\ (ClearsTwice(query["insert"]) \/ ClearsTwice(bound))
       THEN undefined' = TRUE /\ UNCHANGED <<query, healthy, table, saves, acked, failures>>
       ELSE /\ \/ /\ IF dialect = "sqlite" \/ NeedsExecution(bound)
                     THEN Stored(s, k) ELSE UNCHANGED <<table, saves>>
                  /\ acked' = [acked EXCEPT ![s][k] = With(@, saves + 1)]
                  /\ query' = IF dialect = "sqlite" THEN query
                              ELSE [query EXCEPT !["insert"] = Stepped(Execute(bound, << >>))]
                  /\ UNCHANGED <<healthy, failures>>
               \/ Fail("insert", bound) /\ UNCHANGED <<table, saves, acked>>
            /\ UNCHANGED undefined
    /\ UNCHANGED <<dialect, records, leased, reader>>

\* Another connection saves.  SQLite refuses it while this one reads.
NotLocked == dialect = "sqlite" => reader.state # "open"
SaveElsewhere(s, k) ==
    /\ saves < MaxSaves
    /\ NotLocked
    /\ Stored(s, k)
    /\ UNCHANGED <<dialect, records, acked, leased, healthy, query, reader, failures, undefined>>

Init ==
    /\ dialect \in {"postgres", "sqlite"}
    /\ records \in {"candles", "trades"}
    /\ table = [s \in Symbols |-> [k \in Keys |-> {}]]
    /\ saves = 0
    /\ acked = table
    /\ leased = FALSE /\ healthy = TRUE
    /\ query = [st \in Statements |-> Unexecuted]
    /\ reader = [symbol |-> CHOOSE s \in Symbols : TRUE, state |-> "done", got |-> << >>, wanted |-> {}]
    /\ failures = 0
    /\ undefined = FALSE

\* What happens after a result was cleared twice is not modelled.
Next ==
    /\ ~undefined
    /\ \/ Lease
       \/ Return
       \/ \E s \in Symbols : Read(s)
       \/ Start
       \/ Resume
       \/ StepLive
       \/ Drop
       \/ \E s \in Symbols, k \in Keys : Save(s, k) \/ SaveElsewhere(s, k)

Spec == Init /\ [][Next]_vars

-----------------------------------------------------------------------------
(* Properties.                                                             *)

\* Every variable has its type, and a cursor is at most one past its rows.
TypeOK ==
    /\ dialect \in {"postgres", "sqlite"} /\ records \in {"candles", "trades"}
    /\ {table, acked} \subseteq [Symbols -> [Keys -> SUBSET (1..MaxSaves)]]
    /\ saves \in 0..MaxSaves /\ failures \in 0..MaxFailures
    /\ {leased, healthy, undefined} \subseteq BOOLEAN
    /\ query \in [Statements -> [res : {"null", "rows", "cleared"}, rows : Seq(Row), row : Nat]]
    /\ \A st \in Statements : query[st].res = "rows" => query[st].row <= Len(query[st].rows) + 1
    /\ reader \in [symbol : Symbols, state : {"new", "open", "done", "dropped", "threw"},
                   got : Seq(Row), wanted : SUBSET Row]

\* Whatever was read, dropped, saved or failed on the connection before, and
\* whatever is saved elsewhere meanwhile, a generator yields the rows that its
\* own symbol had when it started, none twice and in the statement's own
\* order, and ends only after the last.
ReadsItsSnapshot ==
    /\ TypeOK
    /\ Range(reader.got) \subseteq reader.wanted
    /\ IsInjective(reader.got)
    /\ \A i, j \in DOMAIN reader.got : i < j => ~Earlier(reader.got[j], reader.got[i])
    /\ reader.state = "done" => Range(reader.got) = reader.wanted

\* A save whose future succeeded is in the table; what is replaced by its key
\* may have been replaced by a later one.
SavedIsStored ==
    \A s \in Symbols, k \in Keys : \A v \in acked[s][k] :
        \E w \in table[s][k] : IF Replaces THEN v <= w ELSE v = w

\* As long as no statement fails, no result is cleared twice.
ClearedOnce == failures = 0 => ~undefined

=============================================================================
