------------------------ MODULE PreparedQueriesProofs -----------------------
(***************************************************************************)
(* Theorems about the calls of a pooled connection: for any symbols, keys  *)
(* and bounds, and for both dialects.                                      *)
(***************************************************************************)
EXTENDS PreparedQueries, FiniteSetTheorems, TLAPS

-----------------------------------------------------------------------------
(* What is saved.                                                          *)

\* What was told of a key is among its versions, or was replaced.
KeyOK(told, versions) ==
    \A v \in told : \E w \in versions : IF Replaces THEN v <= w ELSE v = w

\* The inductive invariant: versions are numbers, and none is from a save
\* that is still to come.  Without the last bound a new save could be told to
\* a caller under an older number than the row already has.
SavedInv ==
    /\ saves \in Nat
    /\ table \in [Symbols -> [Keys -> SUBSET Nat]]
    /\ acked \in [Symbols -> [Keys -> SUBSET Nat]]
    /\ \A s \in Symbols, k \in Keys :
         /\ KeyOK(acked[s][k], table[s][k])
         /\ \A w \in table[s][k] : w <= saves

\* A new version is later than those it replaces, and joins the others.
LEMMA NewVersion ==
    ASSUME NEW n \in Nat, NEW told \in SUBSET Nat, NEW versions \in SUBSET Nat,
           KeyOK(told, versions), \A w \in versions : w <= n
    PROVE  /\ With(versions, n + 1) \in SUBSET Nat
           /\ KeyOK(told, With(versions, n + 1))
           /\ KeyOK(With(told, n + 1), With(versions, n + 1))
           /\ \A w \in With(versions, n + 1) : w <= n + 1
<1>1. CASE Replaces
  <2>1. With(versions, n + 1) = {n + 1} /\ With(told, n + 1) = {n + 1}
    BY <1>1 DEF With
  <2>2. \A v \in told : v <= n + 1
    BY <1>1 DEF KeyOK
  <2>3. QED
    BY <1>1, <2>1, <2>2 DEF KeyOK
<1>2. CASE ~Replaces
  <2>1. With(versions, n + 1) = versions \cup {n + 1} /\ With(told, n + 1) = told \cup {n + 1}
    BY <1>2 DEF With
  <2>2. \A v \in told : v \in versions
    BY <1>2 DEF KeyOK
  <2>3. KeyOK(told, With(versions, n + 1)) /\ KeyOK(With(told, n + 1), With(versions, n + 1))
    BY <1>2, <2>1, <2>2 DEF KeyOK
  <2>4. versions \cup {n + 1} \in SUBSET Nat
    OBVIOUS
  <2>5. \A w \in versions \cup {n + 1} : w <= n + 1
    OBVIOUS
  <2>6. QED
    BY <2>1, <2>3, <2>4, <2>5
<1>3. QED
  BY <1>1, <1>2

\* A save leaves every acknowledged version stored, and its own version too,
\* if it is told to a caller: a bound statement has no result left, so stepping
\* it executes it.
LEMMA StoredKeepsSaved ==
    ASSUME SavedInv, NEW s \in Symbols, NEW k \in Keys, Stored(s, k), records' = records,
           acked' = acked \/ acked' = [acked EXCEPT ![s][k] = With(@, saves + 1)]
    PROVE  SavedInv'
<1>1. /\ saves \in Nat /\ saves' = saves + 1
      /\ table' = [table EXCEPT ![s][k] = With(@, saves + 1)]
  BY DEF SavedInv, Stored
<1>2. ASSUME NEW t \in Symbols, NEW j \in Keys
      PROVE  /\ acked[t][j] \in SUBSET Nat /\ table[t][j] \in SUBSET Nat
             /\ KeyOK(acked[t][j], table[t][j]) /\ \A w \in table[t][j] : w \in Nat /\ w <= saves
  BY DEF SavedInv
<1>3. With(table[s][k], saves + 1) \in SUBSET Nat /\ With(acked[s][k], saves + 1) \in SUBSET Nat
  BY <1>1, <1>2 DEF With
<1>4. table' \in [Symbols -> [Keys -> SUBSET Nat]] /\ acked' \in [Symbols -> [Keys -> SUBSET Nat]]
  <2> DEFINE t == With(table[s][k], saves + 1)
             a == With(acked[s][k], saves + 1)
  <2>1. t \in SUBSET Nat /\ a \in SUBSET Nat
    BY <1>3
  <2>2. table' = [table EXCEPT ![s][k] = t] /\ (acked' = acked \/ acked' = [acked EXCEPT ![s][k] = a])
    BY <1>1 DEF SavedInv
  <2> HIDE DEF t, a
  <2>3. /\ table \in [Symbols -> [Keys -> SUBSET Nat]]
        /\ acked \in [Symbols -> [Keys -> SUBSET Nat]]
    BY DEF SavedInv
  <2>4. [table[s] EXCEPT ![k] = t] \in [Keys -> SUBSET Nat] /\ [acked[s] EXCEPT ![k] = a] \in [Keys -> SUBSET Nat]
    BY <2>1, <2>3
  <2>5. table' \in [Symbols -> [Keys -> SUBSET Nat]]
    BY <2>2, <2>3, <2>4
  <2>6. acked' \in [Symbols -> [Keys -> SUBSET Nat]]
    BY <2>2, <2>3, <2>4
  <2>7. QED
    BY <2>5, <2>6
<1>5. ASSUME NEW told, NEW versions PROVE KeyOK(told, versions)' <=> KeyOK(told, versions)
  BY DEF KeyOK, Replaces
<1>6. ASSUME NEW t \in Symbols, NEW j \in Keys
      PROVE  /\ KeyOK(acked'[t][j], table'[t][j])
             /\ \A w \in table'[t][j] : w <= saves'
  <2>1. CASE t = s /\ j = k
    <3>1. /\ table'[t][j] = With(table[s][k], saves + 1)
          /\ acked'[t][j] = acked[s][k] \/ acked'[t][j] = With(acked[s][k], saves + 1)
      BY <2>1, <1>1 DEF SavedInv
    <3>2. QED
      BY <3>1, <1>1, <1>2, NewVersion
  <2>2. CASE ~(t = s /\ j = k)
    <3>1. table'[t][j] = table[t][j] /\ acked'[t][j] = acked[t][j]
      BY <2>2, <1>1 DEF SavedInv
    <3>2. QED
      BY <3>1, <1>1, <1>2
  <2>3. QED
    BY <2>1, <2>2
<1>7. QED
  BY <1>1, <1>4, <1>6 DEF SavedInv, KeyOK, Replaces

\* SavedInv depends on four variables only.
LEMMA SavedUnchanged ==
    ASSUME SavedInv, UNCHANGED <<records, saves, table, acked>>
    PROVE  SavedInv'
BY DEF SavedInv, KeyOK, Replaces

\* Every behaviour of the connection keeps the bounds.
THEOREM SavedInvariant == Spec => []SavedInv
<1>1. Init => SavedInv
  BY DEF Init, SavedInv, KeyOK
<1>2. SavedInv /\ [Next]_vars => SavedInv'
  <2> SUFFICES ASSUME SavedInv, [Next]_vars PROVE SavedInv'
    OBVIOUS
  <2>1. CASE UNCHANGED vars
    BY <2>1, SavedUnchanged DEF vars
  <2>2. CASE Lease \/ Return \/ Start \/ Resume \/ StepLive \/ Drop \/ \E s \in Symbols : Read(s)
    BY <2>2, SavedUnchanged DEF Lease, Return, Start, Resume, StepLive, Drop, Read
  <2>3. ASSUME NEW s \in Symbols, NEW k \in Keys, Save(s, k) PROVE SavedInv'
    <3> DEFINE bound == Bind(query["insert"])
    <3>. records' = records
      BY <2>3 DEF Save
    <3>1. CASE UNCHANGED <<saves, table, acked>>
      BY <3>1, SavedUnchanged
    <3>2. CASE /\ acked' = [acked EXCEPT ![s][k] = With(@, saves + 1)]
               /\ IF dialect = "sqlite" \/ NeedsExecution(bound) THEN Stored(s, k) ELSE UNCHANGED <<table, saves>>
      <4>1. NeedsExecution(bound)
        BY DEF NeedsExecution, Bind
      <4>2. QED
        BY <3>2, <4>1, StoredKeepsSaved
    <3>3. QED
      BY <2>3, <3>1, <3>2 DEF Save
  <2>4. ASSUME NEW s \in Symbols, NEW k \in Keys, SaveElsewhere(s, k) PROVE SavedInv'
    BY <2>4, StoredKeepsSaved DEF SaveElsewhere
  <2>5. QED
    BY <2>1, <2>2, <2>3, <2>4 DEF Next
<1>3. QED
  BY <1>1, <1>2, PTL DEF Spec

\* A save whose future succeeded is stored, or was replaced by a later one,
\* whatever the other connections save and whichever statements fail.
THEOREM QueriesSavedIsStored == Spec => []SavedIsStored
<1>1. SavedInv => SavedIsStored
  BY DEF SavedInv, SavedIsStored, KeyOK
<1>2. QED
  BY <1>1, SavedInvariant, PTL

-----------------------------------------------------------------------------
(* Clearing results.                                                       *)

\* The fields of a query object that survive a step with bind, execute and
\* step: its result pointer may be null or valid, not cleared.
Sound(q) == DOMAIN q = {"res", "rows", "row"} /\ q.res \in {"null", "rows"}

\* The inductive invariant: as long as no statement failed, every query
\* object is sound, so that whatever clears its result clears it once.
ClearedInv ==
    /\ failures \in Nat
    /\ failures = 0 =>
         /\ ~undefined
         /\ DOMAIN query = Statements
         /\ \A st \in Statements : Sound(query[st])

\* Binding, executing and stepping keep a query object sound.
LEMMA CallsKeepSound ==
    ASSUME NEW q, NEW rows, Sound(q)
    PROVE  /\ Sound(Bind(q)) /\ Sound(Execute(q, rows)) /\ Sound(Stepped(q))
           /\ ~ClearsTwice(q)
BY DEF Sound, Bind, Execute, Stepped, ClearsTwice

\* A call that only replaces one query object by a sound one.
LEMMA ReplacedIsSound ==
    ASSUME ClearedInv, NEW st \in Statements, NEW q, Sound(q),
           query' = [query EXCEPT ![st] = q], UNCHANGED <<failures, undefined>>
    PROVE  ClearedInv'
BY DEF ClearedInv

\* A call that fails is counted, and then nothing is claimed.
LEMMA FailedIsCounted ==
    ASSUME ClearedInv, NEW st, NEW q, Fail(st, q)
    PROVE  ClearedInv'
BY DEF ClearedInv, Fail

\* Nothing that is claimed changes.
LEMMA ClearedUnchanged ==
    ASSUME ClearedInv, UNCHANGED <<failures, undefined, query>>
    PROVE  ClearedInv'
BY DEF ClearedInv

\* Every behaviour of the connection keeps its query objects sound until a
\* statement fails.
THEOREM ClearedInvariant == Spec => []ClearedInv
<1>1. Init => ClearedInv
  BY DEF Init, ClearedInv, Sound, Unexecuted
<1>2. ClearedInv /\ [Next]_vars => ClearedInv'
  <2> SUFFICES ASSUME ClearedInv, [Next]_vars PROVE ClearedInv'
    OBVIOUS
  <2>1. CASE failures # 0 /\ failures' = failures
    BY <2>1 DEF ClearedInv
  <2>2. CASE failures' = failures + 1
    BY <2>2 DEF ClearedInv
  <2>3. CASE failures = 0 /\ failures' = failures
    <3>1. /\ ~undefined /\ DOMAIN query = Statements
          /\ \A st \in Statements : Sound(query[st]) /\ Sound(Bind(query[st]))
                                    /\ ~ClearsTwice(query[st]) /\ ~ClearsTwice(Bind(query[st]))
      BY <2>3, CallsKeepSound DEF ClearedInv
    <3>2. "select" \in Statements /\ "insert" \in Statements
      BY DEF Statements
    <3>3. ASSUME NEW st, NEW q PROVE ~Fail(st, q)
      BY <2>3 DEF Fail
    <3>4. CASE UNCHANGED vars
      BY <3>4, ClearedUnchanged DEF vars
    <3>5. CASE Lease \/ Drop \/ \E s \in Symbols : Read(s)
      BY <3>5, ClearedUnchanged DEF Lease, Drop, Read
    <3>6. CASE Return
      <4>1. CASE UNCHANGED <<query, healthy, undefined>>
        BY <4>1, <2>3, ClearedUnchanged
      <4>2. CASE /\ query' = [st \in Statements |-> Unexecuted]
                 /\ undefined' = \E st \in Statements : ClearsTwice(query[st])
        BY <4>2, <3>1, <2>3 DEF ClearedInv, Sound, Unexecuted
      <4>3. QED
        BY <3>6, <4>1, <4>2 DEF Return
    <3>7. CASE StepLive
      BY <3>7, <3>3, ClearedUnchanged, <2>3 DEF StepLive
    <3>8. CASE Resume
      <4>1. Sound(Stepped(query["select"]))
        BY <3>1, <3>2, CallsKeepSound
      <4>2. QED
        BY <4>1, <3>2, <3>8, ReplacedIsSound DEF Resume
    <3>9. CASE Start
      <4> DEFINE bound == Bind(query["select"])
                 q(rows) == Stepped(IF NeedsExecution(bound) THEN Execute(bound, rows) ELSE bound)
      <4>1. ASSUME NEW rows PROVE Sound(q(rows))
        BY <3>1, <3>2, CallsKeepSound
      <4>2. \E rows \in Answers(reader.symbol) :
               query' = [query EXCEPT !["select"] = q(rows)] /\ UNCHANGED <<failures, undefined>>
        BY <3>9, <3>1, <3>2, <3>3 DEF Start
      <4>3. QED
        BY <4>1, <4>2, <3>2, ReplacedIsSound
    <3>10. ASSUME NEW s \in Symbols, NEW k \in Keys, Save(s, k) PROVE ClearedInv'
      <4> DEFINE bound == Bind(query["insert"])
                 q == Stepped(Execute(bound, << >>))
      <4>1. Sound(q)
        BY <3>1, <3>2, CallsKeepSound
      <4>2. query' = query \/ query' = [query EXCEPT !["insert"] = q]
        BY <3>10, <3>1, <3>2, <3>3 DEF Save
      <4>3. UNCHANGED <<failures, undefined>>
        BY <3>10, <3>1, <3>2, <3>3 DEF Save
      <4>4. QED
        BY <4>1, <4>2, <4>3, <3>2, ReplacedIsSound, ClearedUnchanged
    <3>11. ASSUME NEW s \in Symbols, NEW k \in Keys, SaveElsewhere(s, k) PROVE ClearedInv'
      BY <3>11, ClearedUnchanged DEF SaveElsewhere
    <3>12. QED
      BY <3>4, <3>5, <3>6, <3>7, <3>8, <3>9, <3>10, <3>11 DEF Next
  <2>4. failures' = failures \/ failures' = failures + 1
    BY DEF Next, vars, Lease, Return, Read, Fail, Start, Resume, StepLive, Drop, Save, SaveElsewhere
  <2>5. QED
    BY <2>1, <2>2, <2>3, <2>4
<1>3. QED
  BY <1>1, <1>2, PTL DEF Spec

\* Reads that are dropped half-way, repeated calls and broken connections
\* never clear a result twice: it takes a statement that failed.
THEOREM QueriesClearedOnce == Spec => []ClearedOnce
<1>1. ClearedInv => ClearedOnce
  BY DEF ClearedInv, ClearedOnce
<1>2. QED
  BY <1>1, ClearedInvariant, PTL

-----------------------------------------------------------------------------
(* Rows in order.                                                          *)

\* The ORDER BY of a kind of records, for which Earlier stands.
Comes(kind, r, t) == IF kind = "trades" THEN r.key > t.key ELSE r.key < t.key

\* Rows in a statement's order, none twice.
Sorted(kind, rows) ==
    /\ IsInjective(rows)
    /\ \A i, j \in DOMAIN rows : i < j => ~Comes(kind, rows[j], rows[i])

\* The rows of an answer, to a sequence of rows that has them all.
Lists(kind, rows, set) == rows \in Seq(Row) /\ Sorted(kind, rows) /\ Range(rows) = set

\* A symbol has finitely many rows, although there may be any number of symbols.
LEMMA RowsAreFinite ==
    ASSUME NEW s
    PROVE  IsFiniteSet(RowsOf(s)) /\ Cardinality(RowsOf(s)) \in Nat
<1> DEFINE f == [r \in RowsOf(s) |-> <<r.key, r.version>>]
           T == Keys \X (1..MaxSaves)
<1>1. IsFiniteSet(T)
  <2>1. IsFiniteSet(1..MaxSaves)
    BY QueriesAssumption, FS_Interval
  <2>2. QED
    BY <2>1, QueriesAssumption, FS_Product
<1>2. \A r \in RowsOf(s) : r \in Row /\ r.symbol = s /\ <<r.key, r.version>> \in T
  BY DEF RowsOf, Row
<1>3. f \in [RowsOf(s) -> T]
  BY <1>2
<1>4. ASSUME NEW r \in RowsOf(s), NEW t \in RowsOf(s), f[r] = f[t] PROVE r = t
  <2>1. r.key = t.key /\ r.version = t.version
    BY <1>4
  <2>2. \A x \in Row : x = [symbol |-> x.symbol, key |-> x.key, version |-> x.version]
    BY DEF Row
  <2>3. r.symbol = t.symbol /\ r \in Row /\ t \in Row
    BY <1>2
  <2>4. r = [symbol |-> r.symbol, key |-> r.key, version |-> r.version]
    BY <2>2, <2>3
  <2>5. t = [symbol |-> t.symbol, key |-> t.key, version |-> t.version]
    BY <2>2, <2>3
  <2>6. QED
    BY <2>1, <2>3, <2>4, <2>5
<1>5. f \in Injection(RowsOf(s), T)
  BY <1>3, <1>4 DEF Injection, IsInjective
<1>6. QED
  BY <1>1, <1>5, FS_Injection, FS_CardinalityType

\* An answer lists its symbol's rows.
LEMMA AnswersList ==
    ASSUME NEW s, NEW rows \in Answers(s)
    PROVE  Lists(records, rows, RowsOf(s))
<1> DEFINE n == Cardinality(RowsOf(s))
<1>1. n \in Nat
  BY RowsAreFinite
<1>2. /\ rows \in [1..n -> RowsOf(s)] /\ IsInjective(rows)
      /\ \A t \in RowsOf(s) : \E i \in 1..n : rows[i] = t
      /\ \A i, j \in DOMAIN rows : i < j => ~Earlier(rows[j], rows[i])
  BY DEF Answers, Bijection, Injection, Surjection
<1> HIDE DEF n
<1>3. RowsOf(s) \subseteq Row
  BY DEF RowsOf
<1>4. rows \in Seq(Row)
  <2>1. rows \in [1..n -> Row]
    BY <1>2, <1>3
  <2>2. QED
    BY <1>1, <2>1
<1>5. Range(rows) = RowsOf(s)
  BY <1>2 DEF Range
<1>6. Sorted(records, rows)
  BY <1>2 DEF Sorted, Comes, Earlier
<1>7. QED
  BY <1>4, <1>5, <1>6 DEF Lists

\* A row that comes before none of those there is put behind them.
LEMMA NextInOrder ==
    ASSUME NEW kind, NEW got \in Seq(Row), NEW r \in Row, Sorted(kind, got),
           r \notin Range(got), \A i \in 1..Len(got) : ~Comes(kind, r, got[i])
    PROVE  LET more == Append(got, r) IN
           /\ more \in Seq(Row) /\ Sorted(kind, more)
           /\ Range(more) = Range(got) \cup {r} /\ Len(more) = Len(got) + 1
           /\ \A i \in 1..Len(got) : more[i] = got[i]
           /\ more[Len(got) + 1] = r
<1> DEFINE more == Append(got, r)
           n == Len(got)
<1>1. /\ more \in Seq(Row) /\ Len(more) = n + 1 /\ n \in Nat
      /\ \A i \in 1..n : more[i] = got[i]
      /\ more[n + 1] = r
      /\ DOMAIN more = 1..(n + 1) /\ DOMAIN got = 1..n
  OBVIOUS
<1> HIDE DEF more, n
<1>2. \A i \in 1..(n + 1) : i \in 1..n \/ i = n + 1
  BY <1>1
<1>3. \A i \in 1..n : got[i] # r /\ ~Comes(kind, r, got[i])
  BY <1>1 DEF Range, n
<1>4. IsInjective(more)
  <2>1. ASSUME NEW a \in 1..(n + 1), NEW b \in 1..(n + 1), more[a] = more[b] PROVE a = b
    <3>1. CASE a \in 1..n /\ b \in 1..n
      BY <2>1, <3>1, <1>1 DEF Sorted, IsInjective
    <3>2. CASE a = n + 1 /\ b \in 1..n
      BY <2>1, <3>2, <1>1, <1>3
    <3>3. CASE a \in 1..n /\ b = n + 1
      BY <2>1, <3>3, <1>1, <1>3
    <3>4. QED
      BY <3>1, <3>2, <3>3, <1>2
  <2>2. QED
    BY <2>1, <1>1 DEF IsInjective
<1>5. ASSUME NEW i \in 1..(n + 1), NEW j \in 1..(n + 1), i < j PROVE ~Comes(kind, more[j], more[i])
  <2>1. i \in 1..n /\ more[i] = got[i]
    BY <1>1, <1>5
  <2>2. CASE j \in 1..n
    BY <2>1, <2>2, <1>1, <1>5 DEF Sorted
  <2>3. CASE j = n + 1
    BY <2>1, <2>3, <1>1, <1>3
  <2>4. QED
    BY <2>2, <2>3, <1>2
<1>6. Range(more) = Range(got) \cup {r}
  BY <1>1, <1>2 DEF Range
<1>7. QED
  BY <1>1, <1>4, <1>5, <1>6 DEF Sorted, more, n

\* Nothing is in order.
LEMMA NothingSorted ==
    ASSUME NEW kind
    PROVE  << >> \in Seq(Row) /\ Sorted(kind, << >>) /\ Range(<< >>) = {} /\ Len(<< >>) = 0
<1>1. << >> \in Seq(Row) /\ Len(<< >>) = 0 /\ DOMAIN << >> = {}
  OBVIOUS
<1>2. QED
  BY <1>1 DEF Sorted, IsInjective, Range

-----------------------------------------------------------------------------
(* What a generator yields.                                                *)

Queries == [res : {"null", "rows", "cleared"}, rows : Seq(Row), row : Nat]
Readers == [symbol : Symbols, state : {"new", "open", "done", "dropped", "threw"},
            got : Seq(Row), wanted : SUBSET Row]

\* What was yielded so far are the first rows of the answer.
Yielded(got, rows) ==
    /\ Len(got) <= Len(rows)
    /\ \A i \in 1..Len(got) : got[i] = rows[i]

\* An open generator's query object holds the whole answer and stands at the
\* row that was yielded last.  With SQLite it stands in the table itself, and
\* what remains there comes before nothing it has yielded.
CursorOK ==
    reader.state = "open" =>
      IF dialect = "postgres"
      THEN LET q == query["select"] IN
           /\ q.res = "rows" /\ Lists(records, q.rows, reader.wanted)
           /\ Yielded(reader.got, q.rows) /\ q.row = Len(reader.got)
      ELSE /\ reader.wanted = RowsOf(reader.symbol)
           /\ \A r \in reader.wanted \ Range(reader.got) :
                \A i \in 1..Len(reader.got) : ~Comes(records, r, reader.got[i])

\* What was yielded belongs to the answer the generator started with.
ReaderOK ==
    /\ \A r \in reader.wanted : r.symbol = reader.symbol
    /\ Range(reader.got) \subseteq reader.wanted
    /\ Sorted(records, reader.got)
    /\ reader.state = "new" => reader.got = << >> /\ reader.wanted = {}
    /\ reader.state = "done" => reader.wanted \subseteq Range(reader.got)

\* The inductive invariant of a read.
ReadInv == TypeOK /\ ReaderOK /\ CursorOK

\* The next row of an answer is yielded.
LEMMA YieldsNext ==
    ASSUME NEW kind, NEW set, NEW rows, Lists(kind, rows, set), NEW got \in Seq(Row),
           Sorted(kind, got), Yielded(got, rows), Len(got) < Len(rows)
    PROVE  LET more == Append(got, rows[Len(got) + 1]) IN
           /\ more \in Seq(Row) /\ Sorted(kind, more) /\ Len(more) = Len(got) + 1
           /\ Range(more) \subseteq set /\ Yielded(more, rows)
<1> DEFINE n == Len(got)
           r == rows[n + 1]
           more == Append(got, r)
<1>1. /\ rows \in Seq(Row) /\ Sorted(kind, rows) /\ Range(rows) = set
      /\ n \in Nat /\ Len(rows) \in Nat /\ DOMAIN rows = 1..Len(rows) /\ DOMAIN got = 1..n
  BY DEF Lists
<1>2. n + 1 \in 1..Len(rows) /\ r \in Row
  BY <1>1
<1>3. \A i \in 1..n : got[i] = rows[i] /\ i \in 1..Len(rows) /\ i < n + 1
  BY <1>1 DEF Yielded
<1>4. \A i \in 1..n : got[i] # r /\ ~Comes(kind, r, got[i])
  BY <1>1, <1>2, <1>3 DEF Sorted, IsInjective
<1>5. r \notin Range(got)
  BY <1>1, <1>4 DEF Range
<1>6. /\ more \in Seq(Row) /\ Sorted(kind, more)
      /\ Range(more) = Range(got) \cup {r} /\ Len(more) = n + 1
      /\ \A i \in 1..n : more[i] = got[i]
      /\ more[n + 1] = r
  BY <1>2, <1>4, <1>5, NextInOrder
<1>7. Range(more) \subseteq set
  BY <1>1, <1>2, <1>3, <1>6 DEF Range
<1> HIDE DEF more, r
<1>8. \A i \in 1..(n + 1) : more[i] = rows[i]
  <2>1. \A i \in 1..(n + 1) : i \in 1..n \/ i = n + 1
    BY <1>1
  <2>2. QED
    BY <2>1, <1>3, <1>6 DEF r
<1>9. Yielded(more, rows)
  BY <1>1, <1>2, <1>6, <1>8 DEF Yielded
<1>10. QED
  BY <1>6, <1>7, <1>9 DEF more, r

\* After its last row nothing of an answer is left.
LEMMA YieldedAll ==
    ASSUME NEW kind, NEW set, NEW rows, Lists(kind, rows, set), NEW got \in Seq(Row),
           Yielded(got, rows), ~ Len(got) < Len(rows)
    PROVE  set \subseteq Range(got)
<1>1. /\ rows \in Seq(Row) /\ Range(rows) = set /\ Len(got) = Len(rows)
      /\ DOMAIN rows = 1..Len(rows) /\ DOMAIN got = 1..Len(rows)
  BY DEF Lists, Yielded
<1>2. QED
  BY <1>1 DEF Range, Yielded

\* The types, one by one.
LEMMA TypesAre ==
    ASSUME TypeOK
    PROVE  /\ dialect \in {"postgres", "sqlite"} /\ records \in {"candles", "trades"}
           /\ table \in [Symbols -> [Keys -> SUBSET (1..MaxSaves)]]
           /\ acked \in [Symbols -> [Keys -> SUBSET (1..MaxSaves)]]
           /\ saves \in 0..MaxSaves /\ failures \in 0..MaxFailures
           /\ leased \in BOOLEAN /\ healthy \in BOOLEAN /\ undefined \in BOOLEAN
           /\ query \in [Statements -> Queries]
           /\ \A st \in Statements : query[st].res = "rows" => query[st].row <= Len(query[st].rows) + 1
           /\ reader \in Readers
BY DEF TypeOK, Queries, Readers

\* What a query object may be.
QueryOK(q) ==
    /\ q \in Queries
    /\ q.res = "rows" => q.row <= Len(q.rows) + 1

\* Binding, executing and failing keep it so.
LEMMA CallsKeepTypes ==
    ASSUME NEW q, QueryOK(q), NEW rows \in Seq(Row)
    PROVE  /\ QueryOK(Bind(q)) /\ QueryOK(Dangling(q)) /\ QueryOK(Unexecuted)
           /\ NeedsExecution(Bind(q)) /\ ~ClearsTwice(Bind(q))
           /\ Stepped(Execute(Bind(q), rows)) = [res |-> "rows", rows |-> rows, row |-> 1]
           /\ QueryOK(Stepped(Execute(Bind(q), rows)))
<1>1. << >> \in Seq(Row) /\ Len(rows) \in Nat
  OBVIOUS
<1>2. QED
  BY <1>1 DEF QueryOK, Queries, Bind, Dangling, Unexecuted, NeedsExecution, ClearsTwice, Stepped, Execute

\* A statement that fails leaves types alone, and the read's query object
\* unless it is its own.
LEMMA FailTypes ==
    ASSUME TypeOK, NEW st \in Statements, NEW q, QueryOK(q), Fail(st, q)
    PROVE  /\ failures' \in 0..MaxFailures /\ healthy' \in BOOLEAN
           /\ query' \in [Statements -> Queries]
           /\ \A t \in Statements : QueryOK(query'[t])
           /\ st = "insert" => query'["select"] = query["select"]
<1>1. failures' \in 0..MaxFailures
  BY QueriesAssumption DEF Fail, TypeOK
<1>2. /\ query \in [Statements -> Queries]
      /\ \A t \in Statements : QueryOK(query[t])
      /\ healthy \in BOOLEAN
  BY TypesAre DEF QueryOK
<1>3. QueryOK(Dangling(q))
  BY << >> \in Seq(Row), CallsKeepTypes
<1>4. Dangling(q) \in Queries
  BY <1>3 DEF QueryOK
<1>5. CASE dialect = "postgres"
  <2>1. query' = [query EXCEPT ![st] = Dangling(q)] /\ healthy' \in BOOLEAN
    BY <1>5 DEF Fail
  <2>2. QED
    BY <1>1, <1>2, <1>3, <1>4, <2>1 DEF Statements
<1>6. CASE dialect # "postgres"
  BY <1>1, <1>2, <1>6 DEF Fail
<1>7. QED
  BY <1>5, <1>6

\* Steps that leave the reader alone and, while it reads, what it reads from.
LEMMA ReadGoesOn ==
    ASSUME ReadInv, TypeOK', reader' = reader, dialect' = dialect, records' = records,
           reader.state = "open" => /\ query'["select"] = query["select"]
                                    /\ dialect = "postgres" \/ table' = table
    PROVE  ReadInv'
<1>1. ReaderOK'
  BY DEF ReadInv, ReaderOK
<1>2. CursorOK'
  <2>1. CASE reader.state # "open"
    BY <2>1 DEF CursorOK
  <2>2. CASE reader.state = "open" /\ dialect = "postgres"
    BY <2>2 DEF ReadInv, CursorOK
  <2>3. CASE reader.state = "open" /\ dialect # "postgres"
    <3>1. RowsOf(reader.symbol)' = RowsOf(reader.symbol)
      BY <2>3 DEF RowsOf, Row
    <3>2. QED
      BY <2>3, <3>1 DEF ReadInv, CursorOK
  <2>4. QED
    BY <2>1, <2>2, <2>3
<1>3. QED
  BY <1>1, <1>2 DEF ReadInv

\* Getting the connection and giving it back.
LEMMA LeaseKeepsReads ==
    ASSUME ReadInv, Lease \/ Return
    PROVE  ReadInv'
<1> TypeOK
  BY DEF ReadInv
<1>1. CASE Lease
  <2>1. TypeOK'
    BY <1>1 DEF TypeOK, Lease, Row
  <2>2. QED
    BY <1>1, <2>1, ReadGoesOn DEF Lease
<1>2. CASE Return
  <2>1. reader.state # "open" /\ reader' = reader /\ dialect' = dialect /\ records' = records
    BY <1>2 DEF Return, Reading
  <2>2. UNCHANGED <<table, acked, saves, failures>> /\ leased' \in BOOLEAN
    BY <1>2 DEF Return
  <2>3. /\ healthy' \in BOOLEAN /\ undefined' \in BOOLEAN
        /\ query' = query \/ query' = [st \in Statements |-> Unexecuted]
    BY <1>2, TypesAre DEF Return
  <2>4. /\ query' \in [Statements -> Queries]
        /\ \A st \in Statements : query'[st].res = "rows" => query'[st].row <= Len(query'[st].rows) + 1
    <3>1. CASE query' = query
      BY <3>1, TypesAre
    <3>2. CASE query' = [st \in Statements |-> Unexecuted]
      <4>1. Unexecuted \in Queries /\ Unexecuted.res # "rows"
        BY DEF Unexecuted, Queries
      <4>2. QED
        BY <3>2, <4>1
    <3>3. QED
      BY <2>3, <3>1, <3>2
  <2>5. TypeOK'
    BY <2>1, <2>2, <2>3, <2>4 DEF TypeOK, Row, Queries
  <2>6. QED
    BY <2>1, <2>5, ReadGoesOn
<1>3. QED
  BY <1>1, <1>2

\* The reader changes; the types of the rest are shown where they change.
LEMMA ReaderTypes ==
    ASSUME TypeOK, UNCHANGED <<dialect, records, table, saves, acked, leased>>,
           reader' \in Readers,
           failures' \in 0..MaxFailures, healthy' \in BOOLEAN, undefined' \in BOOLEAN,
           query' \in [Statements -> Queries],
           \A st \in Statements : QueryOK(query'[st])
    PROVE  TypeOK'
BY DEF TypeOK, QueryOK, Row, Readers, Queries

\* A reader that yields nothing: it fails or is dropped.
LEMMA ReaderEnds ==
    ASSUME ReadInv, TypeOK', records' = records,
           reader'.state \in {"dropped", "threw"},
           reader'.symbol = reader.symbol, reader'.got = reader.got, reader'.wanted = reader.wanted
    PROVE  ReadInv'
BY DEF ReadInv, ReaderOK, CursorOK

\* A generator is made, or dropped.
LEMMA ReadKeepsReads ==
    ASSUME ReadInv, (\E s \in Symbols : Read(s)) \/ Drop
    PROVE  ReadInv'
<1> TypeOK
  BY DEF ReadInv
<1>1. /\ query' = query /\ \A st \in Statements : QueryOK(query[st])
      /\ UNCHANGED <<dialect, records, table, saves, acked, leased, healthy, failures, undefined>>
  BY TypesAre DEF Read, Drop, QueryOK
<1>2. ASSUME NEW s \in Symbols, Read(s) PROVE ReadInv'
  <2>1. reader' = [symbol |-> s, state |-> "new", got |-> << >>, wanted |-> {}]
    BY <1>2 DEF Read
  <2>2. TypeOK'
    <3>1. reader' \in Readers
      BY <2>1, NothingSorted DEF Readers
    <3>2. QED
      BY <3>1, <1>1, TypesAre, ReaderTypes
  <2>3. ReaderOK' /\ CursorOK'
    BY <2>1, NothingSorted DEF ReaderOK, CursorOK
  <2>4. QED
    BY <2>2, <2>3 DEF ReadInv
<1>3. CASE Drop
  <2>1. reader' = [reader EXCEPT !.state = "dropped"]
    BY <1>3 DEF Drop
  <2>2. /\ reader' \in Readers
        /\ reader'.state = "dropped" /\ reader'.got = reader.got
        /\ reader'.wanted = reader.wanted /\ reader'.symbol = reader.symbol
    BY <2>1, TypesAre DEF Readers
  <2>3. TypeOK'
    BY <2>2, <1>1, TypesAre, ReaderTypes
  <2>4. QED
    BY <1>1, <2>2, <2>3, ReaderEnds
<1>4. QED
  BY <1>2, <1>3

\* The first step of a Postgres generator binds, executes and yields the first
\* row, or fails.
LEMMA StartKeepsReads ==
    ASSUME ReadInv, Start
    PROVE  ReadInv'
<1> DEFINE bound == Bind(query["select"])
           set == RowsOf(reader.symbol)
           q(rows) == Stepped(Execute(bound, rows))
<1>1. TypeOK /\ "select" \in Statements
  BY DEF ReadInv, Statements
<1>2. /\ dialect = "postgres" /\ reader.state = "new"
      /\ UNCHANGED <<dialect, records, table, saves, acked, leased>>
  BY DEF Start
<1>3. reader \in Readers /\ \A st \in Statements : QueryOK(query[st])
  BY <1>1, TypesAre DEF QueryOK
<1>4. QueryOK(bound) /\ NeedsExecution(bound) /\ ~ClearsTwice(bound)
  BY << >> \in Seq(Row), <1>1, <1>3, CallsKeepTypes
<1>5. CASE undefined' = TRUE /\ UNCHANGED <<query, healthy, reader, failures>>
  <2>1. TypeOK'
    BY <1>1, <1>2, <1>3, <1>5, TypesAre, ReaderTypes
  <2>2. QED
    BY <1>2, <1>5, <2>1, ReadGoesOn
<1>6. CASE /\ Fail("select", bound)
           /\ reader' = [reader EXCEPT !.state = "threw"]
           /\ undefined' = undefined
  <2>1. /\ reader' \in Readers
        /\ reader'.state = "threw" /\ reader'.got = reader.got
        /\ reader'.wanted = reader.wanted /\ reader'.symbol = reader.symbol
    BY <1>3, <1>6 DEF Readers
  <2>2. TypeOK'
    BY <1>1, <1>2, <1>4, <1>6, <2>1, TypesAre, FailTypes, ReaderTypes
  <2>3. QED
    BY <1>2, <2>1, <2>2, ReaderEnds
<1>7. ASSUME NEW rows \in Answers(reader.symbol),
             query' = [query EXCEPT !["select"] = q(rows)],
             reader' = [reader EXCEPT !.wanted = set, !.state = IF AtRow(q(rows)) THEN "open" ELSE "done",
                                      !.got = IF AtRow(q(rows)) THEN <<q(rows).rows[q(rows).row]>> ELSE << >>],
             UNCHANGED <<healthy, failures, undefined>>
      PROVE  ReadInv'
  <2>1. Lists(records, rows, set) /\ rows \in Seq(Row) /\ Len(rows) \in Nat /\ set \in SUBSET Row
    BY AnswersList DEF Lists, RowsOf
  <2>2. q(rows) = [res |-> "rows", rows |-> rows, row |-> 1] /\ QueryOK(q(rows)) /\ q(rows) \in Queries
    BY <1>1, <1>3, <2>1, CallsKeepTypes DEF QueryOK
  <2>3. AtRow(q(rows)) <=> 1 <= Len(rows)
    BY <2>2 DEF AtRow
  <2> DEFINE first == q(rows)
  <2>4. /\ first \in Queries /\ QueryOK(first) /\ first.res = "rows" /\ first.rows = rows /\ first.row = 1
        /\ query' = [query EXCEPT !["select"] = first]
    BY <1>7, <2>2
  <2>5. reader' = [reader EXCEPT !.wanted = set, !.state = IF 1 <= Len(rows) THEN "open" ELSE "done",
                                 !.got = IF 1 <= Len(rows) THEN <<rows[1]>> ELSE << >>]
    <3>1. q(rows).row = 1 /\ q(rows).rows = rows
      BY <2>2
    <3>2. /\ (IF AtRow(q(rows)) THEN "open" ELSE "done") = (IF 1 <= Len(rows) THEN "open" ELSE "done")
          /\ (IF AtRow(q(rows)) THEN <<q(rows).rows[q(rows).row]>> ELSE << >>)
               = (IF 1 <= Len(rows) THEN <<rows[1]>> ELSE << >>)
      BY <2>3, <3>1
    <3> HIDE DEF q, set
    <3>3. QED
      BY <1>7, <3>2
  <2> HIDE DEF first, q, set, bound
  <2>6. /\ query' \in [Statements -> Queries] /\ \A st \in Statements : QueryOK(query'[st])
        /\ query'["select"] = first
    BY <1>1, <1>3, <2>4, TypesAre
  <2>7. CASE 1 <= Len(rows)
    <3> DEFINE one == <<rows[1]>>
    <3>1. one = Append(<< >>, rows[Len(<< >>) + 1])
      BY NothingSorted
    <3>2. Yielded(<< >>, rows) /\ Len(<< >>) < Len(rows)
      BY <2>1, <2>7, NothingSorted DEF Yielded
    <3>3. /\ one \in Seq(Row) /\ Sorted(records, one) /\ Len(one) = 1
          /\ Range(one) \subseteq set /\ Yielded(one, rows)
      <4> DEFINE none == << >>
      <4>1. none \in Seq(Row) /\ Sorted(records, none) /\ Len(none) = 0
        BY NothingSorted
      <4> DEFINE more == Append(none, rows[Len(none) + 1])
      <4>2. Yielded(none, rows) /\ Len(none) < Len(rows)
        BY <3>2
      <4>3. one = more
        BY <3>1
      <4> HIDE DEF none, one
      <4>4. /\ more \in Seq(Row) /\ Sorted(records, more) /\ Len(more) = Len(none) + 1
            /\ Range(more) \subseteq set /\ Yielded(more, rows)
        BY <2>1, <4>1, <4>2, YieldsNext
      <4> HIDE DEF more
      <4>5. QED
        BY <4>1, <4>3, <4>4
    <3>4. reader' = [reader EXCEPT !.wanted = set, !.state = "open", !.got = one]
      BY <2>5, <2>7
    <3> HIDE DEF one
    <3>5. /\ reader' \in Readers /\ reader'.state = "open" /\ reader'.got = one
          /\ reader'.wanted = set /\ reader'.symbol = reader.symbol
      BY <1>3, <2>1, <3>3, <3>4 DEF Readers
    <3>6. TypeOK'
      BY <1>1, <1>2, <1>7, <2>6, <3>5, TypesAre, ReaderTypes
    <3>7. ReaderOK'
      BY <1>2, <3>3, <3>5 DEF ReaderOK, set, RowsOf
    <3>8. CursorOK'
      BY <1>2, <2>1, <2>4, <2>6, <3>3, <3>5 DEF CursorOK
    <3>9. QED
      BY <3>6, <3>7, <3>8 DEF ReadInv
  <2>8. CASE ~ 1 <= Len(rows)
    <3>1. reader' = [reader EXCEPT !.wanted = set, !.state = "done", !.got = << >>]
      BY <2>5, <2>8
    <3>2. /\ reader' \in Readers /\ reader'.state = "done" /\ reader'.got = << >>
          /\ reader'.wanted = set /\ reader'.symbol = reader.symbol
      BY <1>3, <2>1, <3>1, NothingSorted DEF Readers
    <3>3. TypeOK'
      BY <1>1, <1>2, <1>7, <2>6, <3>2, TypesAre, ReaderTypes
    <3>4. set \subseteq Range(<< >>)
      <4>1. Yielded(<< >>, rows) /\ ~ Len(<< >>) < Len(rows)
        BY <2>1, <2>8, NothingSorted DEF Yielded
      <4>2. QED
        BY <4>1, <2>1, NothingSorted, YieldedAll
    <3>5. ReaderOK' /\ CursorOK'
      BY <1>2, <3>2, <3>4, NothingSorted DEF ReaderOK, CursorOK, set, RowsOf
    <3>6. QED
      BY <3>3, <3>5 DEF ReadInv
  <2>9. QED
    BY <2>7, <2>8
<1>8. QED
  BY <1>4, <1>5, <1>6, <1>7 DEF Start

\* A Postgres generator goes on with the row after the one it yielded last.
LEMMA ResumeKeepsReads ==
    ASSUME ReadInv, Resume
    PROVE  ReadInv'
<1> DEFINE old == query["select"]
           q == Stepped(old)
           n == Len(reader.got)
           rows == old.rows
<1>1. TypeOK /\ "select" \in Statements
  BY DEF ReadInv, Statements
<1>2. /\ dialect = "postgres" /\ reader.state = "open"
      /\ query' = [query EXCEPT !["select"] = q]
      /\ reader' = IF AtRow(q) THEN [reader EXCEPT !.state = "open", !.got = Append(@, q.rows[q.row])]
                   ELSE [reader EXCEPT !.state = "done"]
      /\ UNCHANGED <<dialect, records, table, saves, acked, leased, healthy, failures, undefined>>
  BY DEF Resume, Yield
<1>3. /\ reader \in Readers /\ reader.got \in Seq(Row) /\ query \in [Statements -> Queries]
      /\ \A st \in Statements : QueryOK(query[st])
  BY <1>1, TypesAre DEF QueryOK, Readers
<1>4. /\ old.res = "rows" /\ Lists(records, rows, reader.wanted) /\ Yielded(reader.got, rows)
      /\ old.row = n /\ old \in Queries
  BY <1>1, <1>2, <1>3 DEF ReadInv, CursorOK
<1>5. ReaderOK /\ Sorted(records, reader.got)
  BY DEF ReadInv, ReaderOK
<1>6. n \in Nat /\ Len(rows) \in Nat /\ n <= Len(rows)
  BY <1>3, <1>4 DEF Lists, Yielded
<1>7. q \in Queries /\ q.res = "rows" /\ q.rows = rows /\ q.row = n + 1
  BY <1>4, <1>6 DEF Stepped, Queries
<1>8. QueryOK(q) /\ (AtRow(q) <=> n + 1 <= Len(rows))
  BY <1>6, <1>7 DEF QueryOK, AtRow
<1> HIDE DEF q, old, rows
<1>9. /\ query' \in [Statements -> Queries] /\ \A st \in Statements : QueryOK(query'[st])
      /\ query'["select"] = q
  BY <1>1, <1>2, <1>3, <1>7, <1>8
<1>10. CASE n < Len(rows)
  <2> DEFINE more == Append(reader.got, rows[n + 1])
  <2>1. /\ more \in Seq(Row) /\ Sorted(records, more) /\ Len(more) = n + 1
        /\ Range(more) \subseteq reader.wanted /\ Yielded(more, rows)
    BY <1>3, <1>4, <1>5, <1>10, YieldsNext
  <2>2. reader' = [reader EXCEPT !.state = "open", !.got = more]
    BY <1>2, <1>3, <1>6, <1>7, <1>8, <1>10 DEF Readers
  <2> HIDE DEF more
  <2>3. /\ reader' \in Readers /\ reader'.state = "open" /\ reader'.got = more
        /\ reader'.wanted = reader.wanted /\ reader'.symbol = reader.symbol
    BY <1>3, <2>1, <2>2 DEF Readers
  <2>4. TypeOK'
    BY <1>1, <1>2, <1>9, <2>3, TypesAre, ReaderTypes
  <2>5. ReaderOK'
    BY <1>2, <1>5, <2>1, <2>3 DEF ReaderOK
  <2>6. CursorOK'
    BY <1>2, <1>4, <1>7, <1>9, <2>1, <2>3 DEF CursorOK
  <2>7. QED
    BY <2>4, <2>5, <2>6 DEF ReadInv
<1>11. CASE ~ n < Len(rows)
  <2>1. ~ n + 1 <= Len(rows) /\ reader.wanted \subseteq Range(reader.got)
    BY <1>3, <1>4, <1>6, <1>11, YieldedAll
  <2>2. reader' = [reader EXCEPT !.state = "done"]
    BY <1>2, <1>8, <2>1
  <2>3. /\ reader' \in Readers /\ reader'.state = "done" /\ reader'.got = reader.got
        /\ reader'.wanted = reader.wanted /\ reader'.symbol = reader.symbol
    BY <1>3, <2>2 DEF Readers
  <2>4. TypeOK'
    BY <1>1, <1>2, <1>9, <2>3, TypesAre, ReaderTypes
  <2>5. ReaderOK' /\ CursorOK'
    BY <1>2, <1>5, <2>1, <2>3 DEF ReaderOK, CursorOK
  <2>6. QED
    BY <2>4, <2>5 DEF ReadInv
<1>12. QED
  BY <1>10, <1>11

\* An SQLite generator takes its next row from the table.
LEMMA StepLiveKeepsReads ==
    ASSUME ReadInv, StepLive
    PROVE  ReadInv'
<1> DEFINE set == RowsOf(reader.symbol)
           left == Remaining
<1>1. TypeOK /\ "select" \in Statements /\ ReaderOK
  BY DEF ReadInv, Statements
<1>2. /\ dialect = "sqlite" /\ reader.state \in {"new", "open"}
      /\ UNCHANGED <<dialect, records, table, saves, acked, leased, undefined>>
  BY DEF StepLive, Reading
<1>3. /\ reader \in Readers /\ reader.got \in Seq(Row) /\ DOMAIN reader.got = 1..Len(reader.got)
      /\ \A st \in Statements : QueryOK(query[st])
  BY <1>1, TypesAre DEF QueryOK, Readers
<1>4. /\ set \in SUBSET Row /\ \A r \in set : r.symbol = reader.symbol
      /\ left = set \ Range(reader.got)
  BY DEF RowsOf, Remaining
<1>5. /\ Range(reader.got) \subseteq set /\ Sorted(records, reader.got)
      /\ reader.state = "new" => left = set /\ reader.got = << >> /\ reader.wanted = {}
      /\ reader.state = "open" => reader.wanted = set
      /\ \A r \in left : \A i \in 1..Len(reader.got) : ~Comes(records, r, reader.got[i])
  <2>1. CASE reader.state = "new"
    BY <1>1, <1>4, <2>1, NothingSorted DEF ReaderOK
  <2>2. CASE reader.state = "open"
    BY <1>1, <1>2, <1>4, <2>2 DEF ReadInv, ReaderOK, CursorOK
  <2>3. QED
    BY <1>2, <2>1, <2>2
<1>6. ASSUME reader'.symbol = reader.symbol PROVE RowsOf(reader.symbol)' = set
  BY <1>2, <1>6 DEF RowsOf, Row
<1>7. CASE /\ Fail("select", Unexecuted)
           /\ reader' = [reader EXCEPT !.state = "threw"]
  <2>1. /\ reader' \in Readers /\ reader'.state = "threw" /\ reader'.got = reader.got
        /\ reader'.wanted = reader.wanted /\ reader'.symbol = reader.symbol
    BY <1>3, <1>7 DEF Readers
  <2>2. QueryOK(Unexecuted)
    BY << >> \in Seq(Row), <1>1, <1>3, CallsKeepTypes
  <2>3. TypeOK'
    BY <1>1, <1>2, <1>7, <2>1, <2>2, TypesAre, FailTypes, ReaderTypes
  <2>4. QED
    BY <1>2, <2>1, <2>3, ReaderEnds
<1>8. CASE /\ left = {}
           /\ reader' = [reader EXCEPT !.wanted = IF reader.state = "new" THEN {} ELSE @, !.state = "done"]
           /\ UNCHANGED <<healthy, query, failures>>
  <2>1. /\ reader' \in Readers /\ reader'.state = "done" /\ reader'.got = reader.got
        /\ reader'.wanted = reader.wanted /\ reader'.symbol = reader.symbol
    BY <1>3, <1>5, <1>8 DEF Readers
  <2>2. reader.wanted \subseteq Range(reader.got)
    BY <1>2, <1>4, <1>5, <1>8
  <2>3. TypeOK'
    BY <1>1, <1>2, <1>3, <1>8, <2>1, TypesAre, ReaderTypes
  <2>4. ReaderOK' /\ CursorOK'
    BY <1>1, <1>2, <2>1, <2>2 DEF ReaderOK, CursorOK
  <2>5. QED
    BY <2>3, <2>4 DEF ReadInv
<1>9. ASSUME NEW r \in left,
             \A t \in left : ~Earlier(t, r),
             reader' = [reader EXCEPT !.wanted = IF reader.state = "new" THEN left ELSE @,
                                      !.state = "open", !.got = Append(@, r)],
             UNCHANGED <<healthy, query, failures>>
      PROVE  ReadInv'
  <2> DEFINE more == Append(reader.got, r)
             n == Len(reader.got)
  <2>1. r \in Row /\ r \in set /\ r \notin Range(reader.got) /\ n \in Nat
    BY <1>3, <1>4, <1>9
  <2>2. /\ more \in Seq(Row) /\ Sorted(records, more)
        /\ Range(more) = Range(reader.got) \cup {r} /\ Len(more) = n + 1
        /\ \A i \in 1..n : more[i] = reader.got[i]
        /\ more[n + 1] = r
    BY <1>3, <1>5, <1>9, <2>1, NextInOrder
  <2> HIDE DEF more
  <2>3. reader' = [reader EXCEPT !.wanted = set, !.state = "open", !.got = more]
    <3>1. (IF reader.state = "new" THEN left ELSE reader.wanted) = set
      BY <1>2, <1>5
    <3>2. reader' = [reader EXCEPT !.wanted = IF reader.state = "new" THEN left ELSE reader.wanted,
                                   !.state = "open", !.got = more]
      BY <1>3, <1>9 DEF Readers, more
    <3> HIDE DEF left, set
    <3>3. QED
      BY <3>1, <3>2
  <2>4. /\ reader' \in Readers /\ reader'.state = "open" /\ reader'.got = more
        /\ reader'.wanted = set /\ reader'.symbol = reader.symbol
    BY <1>3, <1>4, <2>2, <2>3 DEF Readers
  <2>5. TypeOK'
    BY <1>1, <1>2, <1>3, <1>9, <2>4, TypesAre, ReaderTypes
  <2>6. ReaderOK'
    BY <1>2, <1>4, <1>5, <2>1, <2>2, <2>4 DEF ReaderOK
  <2>7. ASSUME NEW t \in set \ Range(more), NEW i \in 1..(n + 1) PROVE ~Comes(records, t, more[i])
    <3>1. t \in left
      BY <1>4, <2>2, <2>7
    <3>2. CASE i \in 1..n
      BY <3>1, <3>2, <1>5, <2>2
    <3>3. CASE i = n + 1
      BY <3>1, <3>3, <1>9, <2>2 DEF Earlier, Comes
    <3>4. QED
      BY <3>2, <3>3, <2>1
  <2>8. CursorOK'
    <3>1. RowsOf(reader.symbol)' = set
      BY <1>6, <2>4
    <3> HIDE DEF set
    <3>2. QED
      BY <1>2, <2>2, <2>4, <2>7, <3>1 DEF CursorOK
  <2>9. QED
    BY <2>5, <2>6, <2>8 DEF ReadInv
<1>10. QED
  BY <1>7, <1>8, <1>9 DEF StepLive

\* A version is stored: the table keeps its type.
LEMMA StoredTypes ==
    ASSUME TypeOK, saves < MaxSaves, NEW s \in Symbols, NEW k \in Keys
    PROVE  /\ Stored(s, k) => /\ table' \in [Symbols -> [Keys -> SUBSET (1..MaxSaves)]]
                              /\ saves' \in 0..MaxSaves
           /\ [acked EXCEPT ![s][k] = With(@, saves + 1)] \in [Symbols -> [Keys -> SUBSET (1..MaxSaves)]]
<1>1. /\ saves + 1 \in 1..MaxSaves /\ saves + 1 \in 0..MaxSaves
      /\ table \in [Symbols -> [Keys -> SUBSET (1..MaxSaves)]]
      /\ acked \in [Symbols -> [Keys -> SUBSET (1..MaxSaves)]]
  BY QueriesAssumption, TypesAre
<1>2. /\ With(table[s][k], saves + 1) \in SUBSET (1..MaxSaves)
      /\ With(acked[s][k], saves + 1) \in SUBSET (1..MaxSaves)
  BY <1>1 DEF With
<1> DEFINE t == With(table[s][k], saves + 1)
           a == With(acked[s][k], saves + 1)
<1>3. t \in SUBSET (1..MaxSaves) /\ a \in SUBSET (1..MaxSaves)
  BY <1>2
<1>4. /\ Stored(s, k) => table' = [table EXCEPT ![s][k] = t] /\ saves' = saves + 1
      /\ [acked EXCEPT ![s][k] = With(@, saves + 1)] = [acked EXCEPT ![s][k] = a]
  BY <1>1 DEF Stored
<1> HIDE DEF t, a
<1>5. /\ [table[s] EXCEPT ![k] = t] \in [Keys -> SUBSET (1..MaxSaves)]
      /\ [acked[s] EXCEPT ![k] = a] \in [Keys -> SUBSET (1..MaxSaves)]
  BY <1>1, <1>3
<1>6. [table EXCEPT ![s][k] = t] \in [Symbols -> [Keys -> SUBSET (1..MaxSaves)]]
  BY <1>1, <1>5
<1>7. [acked EXCEPT ![s][k] = a] \in [Symbols -> [Keys -> SUBSET (1..MaxSaves)]]
  BY <1>1, <1>5
<1>8. saves + 1 \in 0..MaxSaves
  BY <1>1
<1>9. QED
  BY <1>4, <1>6, <1>7, <1>8

\* Saves here come between reads, and saves elsewhere do not reach an open one.
LEMMA SavesKeepReads ==
    ASSUME ReadInv, NEW s \in Symbols, NEW k \in Keys, Save(s, k) \/ SaveElsewhere(s, k)
    PROVE  ReadInv'
<1> DEFINE bound == Bind(query["insert"])
<1>1. /\ TypeOK /\ "insert" \in Statements /\ "select" \in Statements
      /\ saves < MaxSaves /\ dialect' = dialect /\ records' = records /\ reader' = reader
  BY DEF ReadInv, Statements, Save, SaveElsewhere
<1>2. (\A st \in Statements : QueryOK(query[st])) /\ query \in [Statements -> Queries]
  BY <1>1, TypesAre DEF QueryOK
<1>3. CASE SaveElsewhere(s, k)
  <2>1. /\ UNCHANGED <<dialect, records, acked, leased, healthy, query, reader, failures, undefined>>
        /\ Stored(s, k)
        /\ dialect = "sqlite" => reader.state # "open"
    BY <1>3 DEF SaveElsewhere, NotLocked
  <2>2. TypeOK'
    BY <1>1, <2>1, StoredTypes, TypesAre DEF TypeOK, Row
  <2>3. dialect = "postgres" \/ reader.state # "open"
    BY <1>1, <2>1, TypesAre
  <2>4. QED
    BY <2>1, <2>2, <2>3, ReadGoesOn
<1>4. CASE Save(s, k)
  <2>1. reader.state # "open" /\ leased' = leased
    BY <1>4 DEF Save, Reading
  <2>2. /\ QueryOK(bound) /\ NeedsExecution(bound) /\ ~ClearsTwice(bound)
        /\ QueryOK(Stepped(Execute(bound, << >>)))
    BY << >> \in Seq(Row), <1>1, <1>2, CallsKeepTypes
  <2>3. CASE undefined' = TRUE /\ UNCHANGED <<query, healthy, table, saves, acked, failures>>
    <3>1. TypeOK'
      BY <1>1, <2>1, <2>3, TypesAre DEF TypeOK, Row
    <3>2. QED
      BY <1>1, <2>1, <3>1, ReadGoesOn
  <2>4. CASE Fail("insert", bound) /\ UNCHANGED <<table, saves, acked, undefined>>
    <3>1. TypeOK'
      BY <1>1, <2>1, <2>2, <2>4, FailTypes, TypesAre DEF TypeOK, Row, QueryOK, Queries
    <3>2. QED
      BY <1>1, <2>1, <3>1, ReadGoesOn
  <2>5. CASE /\ Stored(s, k) \/ UNCHANGED <<table, saves>>
             /\ acked' = [acked EXCEPT ![s][k] = With(@, saves + 1)]
             /\ query' = query \/ query' = [query EXCEPT !["insert"] = Stepped(Execute(bound, << >>))]
             /\ UNCHANGED <<healthy, failures, undefined>>
    <3>1. /\ query' \in [Statements -> Queries]
          /\ \A st \in Statements : QueryOK(query'[st])
      <4>1. CASE query' = query
        BY <1>2, <4>1
      <4>2. CASE query' = [query EXCEPT !["insert"] = Stepped(Execute(bound, << >>))]
        <5> DEFINE q == Stepped(Execute(bound, << >>))
        <5>1. QueryOK(q) /\ q \in Queries
          BY <2>2 DEF QueryOK
        <5> HIDE DEF q
        <5>2. query' = [query EXCEPT !["insert"] = q]
          BY <4>2 DEF q
        <5>3. QED
          BY <1>1, <1>2, <5>1, <5>2
      <4>3. QED
        BY <2>5, <4>1, <4>2
    <3>2. /\ table' \in [Symbols -> [Keys -> SUBSET (1..MaxSaves)]] /\ saves' \in 0..MaxSaves
          /\ acked' \in [Symbols -> [Keys -> SUBSET (1..MaxSaves)]]
      BY <1>1, <2>5, StoredTypes, TypesAre
    <3>3. TypeOK'
      BY <1>1, <2>1, <2>5, <3>1, <3>2, TypesAre DEF TypeOK, Row, QueryOK, Queries
    <3>4. QED
      BY <1>1, <2>1, <3>3, ReadGoesOn
  <2>6. QED
    BY <1>4, <2>2, <2>3, <2>4, <2>5 DEF Save
<1>5. QED
  BY <1>3, <1>4

\* A connection starts with nothing read.
LEMMA ReadStarts == ASSUME Init PROVE ReadInv
<1>1. reader.got = << >> /\ reader.wanted = {} /\ reader.state = "done"
  BY DEF Init
<1>2. TypeOK
  <2>1. \A st \in Statements : query[st] = Unexecuted
    BY DEF Init
  <2>2. Unexecuted \in Queries /\ Unexecuted.res # "rows"
    BY DEF Unexecuted, Queries
  <2>3. query \in [Statements -> Queries]
    BY <2>2 DEF Init
  <2>4. /\ table \in [Symbols -> [Keys -> SUBSET (1..MaxSaves)]]
        /\ acked \in [Symbols -> [Keys -> SUBSET (1..MaxSaves)]]
        /\ saves \in 0..MaxSaves /\ failures \in 0..MaxFailures
    BY QueriesAssumption DEF Init
  <2>5. reader \in Readers
    <3>1. (CHOOSE s \in Symbols : TRUE) \in Symbols
      BY QueriesAssumption
    <3>2. QED
      BY <3>1, NothingSorted DEF Init, Readers
  <2>6. QED
    BY <2>1, <2>2, <2>3, <2>4, <2>5 DEF Init, TypeOK, Queries, Readers
<1>3. ReaderOK /\ CursorOK
  BY <1>1, NothingSorted DEF ReaderOK, CursorOK
<1>4. QED
  BY <1>2, <1>3 DEF ReadInv

\* The inductive invariant of reads: whatever else is called or fails on the
\* connection, or saved beside it.
THEOREM ReadInvariant == Spec => []ReadInv
<1>1. ASSUME ReadInv, Next PROVE ReadInv'
  BY <1>1, LeaseKeepsReads, ReadKeepsReads, StartKeepsReads, ResumeKeepsReads, StepLiveKeepsReads, SavesKeepReads
     DEF Next
<1>2. ASSUME ReadInv, UNCHANGED vars PROVE ReadInv'
  <2>1. TypeOK'
    BY <1>2 DEF ReadInv, vars, TypeOK, Row
  <2>2. QED
    BY <1>2, <2>1, ReadGoesOn DEF vars
<1>3. ReadInv /\ [Next]_vars => ReadInv'
  BY <1>1, <1>2
<1>4. QED
  BY <1>3, ReadStarts, PTL DEF Spec

\* A generator yields the rows its symbol had when it started, none twice and
\* in the statement's order, and ends after the last, for any calls before it,
\* failures, and saves of others meanwhile.
THEOREM QueriesReadTheirSnapshot == Spec => []ReadsItsSnapshot
<1>1. ReadInv => ReadsItsSnapshot
  BY DEF ReadInv, ReaderOK, ReadsItsSnapshot, Sorted, Comes, Earlier
<1>2. QED
  BY <1>1, ReadInvariant, PTL

\* What a generator yields are rows of its own symbol, none twice: candles
\* and quotes from the first opened_at or emitted_at on, trades from the last
\* executed_at back.
ReadsInOrder ==
    /\ \A i \in DOMAIN reader.got : reader.got[i].symbol = reader.symbol
    /\ \A i, j \in DOMAIN reader.got : i < j =>
         /\ reader.got[i] # reader.got[j]
         /\ records = "candles" => reader.got[i].key <= reader.got[j].key
         /\ records = "trades" => reader.got[i].key >= reader.got[j].key

\* So it is for any keys, although other symbols' rows are read in between.
THEOREM QueriesReadInOrder == Spec => []ReadsInOrder
<1>1. ReadInv => ReadsInOrder
  <2> SUFFICES ASSUME ReadInv PROVE ReadsInOrder
    OBVIOUS
  <2>1. /\ reader.got \in Seq(Row) /\ DOMAIN reader.got = 1..Len(reader.got)
        /\ \A i \in DOMAIN reader.got : reader.got[i] \in Row /\ reader.got[i] \in Range(reader.got)
    BY TypesAre DEF ReadInv, Readers, Range
  <2>2. \A i \in DOMAIN reader.got : reader.got[i].symbol = reader.symbol /\ reader.got[i].key \in Nat
    BY <2>1, QueriesAssumption DEF ReadInv, ReaderOK, Row
  <2>3. ASSUME NEW i \in DOMAIN reader.got, NEW j \in DOMAIN reader.got, i < j
        PROVE  reader.got[i] # reader.got[j] /\ ~Comes(records, reader.got[j], reader.got[i])
    BY <2>1, <2>3 DEF ReadInv, ReaderOK, Sorted, IsInjective
  <2>4. QED
    BY <2>2, <2>3 DEF ReadsInOrder, Comes
<1>2. QED
  BY <1>1, ReadInvariant, PTL

=============================================================================
