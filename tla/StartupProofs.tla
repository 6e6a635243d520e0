--------------------------- MODULE StartupProofs ---------------------------
(***************************************************************************)
(* A deployment, for any number of upgraders and applications, any delays  *)
(* of the wait and any accounts: the version never claims what is not      *)
(* there and never goes back, an application that runs finds everything,   *)
(* and an executor's account is its own.                                   *)
(***************************************************************************)
EXTENDS Startup, FiniteSetTheorems, TLAPS

-----------------------------------------------------------------------------
(* The inductive invariant.                                                *)

\* An upgrader is inside a file when it has executed a command of it and not
\* the last one, which writes the version.
Inside(u) == pc[u] = "script" /\ script[u] # End /\ script[u].command > 1

\* The version an upgrader inside a file of that number finds in the table:
\* none in full.sql, the one before in an update.
RowsBefore(file) == IF file = Full THEN << >> ELSE <<file - 1>>

\* An upgrader never reaches a file before the version has reached the file
\* before it; inside a file the version has not moved, and what the executed
\* commands create exists.  At the end of its script everything exists.
ScriptInStep(u) ==
    pc[u] = "script" =>
        IF script[u] = End THEN AllObjects \subseteq objects
        ELSE /\ script[u].file # Full => rows # << >> /\ rows[1] >= script[u].file - 1
             /\ script[u].command > 1 => rows = RowsBefore(script[u].file)
             /\ \A k \in 1..script[u].command - 1 :
                  File(script[u].file)[k].creates \subseteq objects

\* The first command of a file lets one upgrader in.
OneInside == \A u, w \in Upgraders : Inside(u) /\ Inside(w) => u = w

\* After its script an upgrader fills the enum tables, then grants.
AfterInStep(u) ==
    /\ pc[u] \in EnumTables \cup {"grant", "prepare", "done"} => AllObjects \subseteq objects
    /\ pc[u] = "enum_actions" => "enum_symbols" \in names
    /\ pc[u] = "grant" => EnumTables \subseteq names
    /\ pc[u] \in {"prepare", "done"} /\ dialect = "postgres" =>
         EnumTables \subseteq names /\ AllObjects \subseteq granted

\* An application starts on what an upgrader has completed, and gets past the
\* check of its version only on the whole schema.
Connected == {"prepare", "certificate", "numbers", "details", "positions", "running"}
AppInStep(a) ==
    /\ pc[a] \notin {"idle", "failed"} /\ dialect = "postgres" =>
         EnumTables \subseteq names /\ AllObjects \subseteq granted
    /\ pc[a] \in Connected => AllObjects \subseteq objects

\* What holds of the database and of where each process is with it.
SchemaInv ==
    /\ VersionMeansObjects
    /\ \A u \in Upgraders : ScriptInStep(u) /\ AfterInStep(u)
    /\ OneInside
    /\ \A a \in Apps : AppInStep(a)

\* The first answer lists every account of some set of them once, and what the
\* executor has found is its own.
AccountInStep(a) ==
    /\ pc[a] = "details" => \E S \in SUBSET Numbers : numbers[a] \in Listings(S)
    /\ pc[a] \in {"positions", "running"} =>
         /\ account[a].number \in Numbers /\ Name[account[a].number] = Flag
         /\ account[a].cash = Balance[account[a].number]

\* Nobody sleeps once the deadline has passed.
WaitInStep(a) == waited[a] < Timeout + MaxDelay

\* The whole invariant.
StartupInv ==
    /\ StartupTypeOK
    /\ SchemaInv
    /\ \A a \in Apps : AccountInStep(a) /\ WaitInStep(a)

-----------------------------------------------------------------------------
(* The scripts.                                                            *)

\* The files there are: full.sql and update_2 to update_5.
FileNumbers == {Full} \cup 2..Latest

\* The update files as they stand in the repository.
LEMMA LatestIs == Latest = 5 /\ FileNumbers = {0, 2, 3, 4, 5}
<1>1. Latest = 5
  BY DEF Latest, Updates
<1>2. QED
  BY <1>1 DEF FileNumbers, Full

\* The commands of each file, one by one.
LEMMA AppendedTo ==
    ASSUME NEW a, NEW b, NEW c, NEW d
    PROVE  /\ LET s == Append(<<a>>, d) IN
              Len(s) = 2 /\ DOMAIN s = 1..2 /\ s[1] = a /\ s[2] = d
           /\ LET s == Append(<<a, b>>, d) IN
              Len(s) = 3 /\ DOMAIN s = 1..3 /\ s[1] = a /\ s[2] = b /\ s[3] = d
           /\ LET s == Append(<<a, b, c>>, d) IN
              Len(s) = 4 /\ DOMAIN s = 1..4 /\ s[1] = a /\ s[2] = b /\ s[3] = c /\ s[4] = d
OBVIOUS

\* Each update file creates something and writes its own number last.
LEMMA FileContents ==
    /\ File(Full) = FullSchema
    /\ \A n \in 2..5 : File(n) = Updates[n]
    /\ Len(File(2)) = 2 /\ DOMAIN File(2) = 1..2
    /\ File(2)[1] = Create({"auth_tokens"}) /\ File(2)[2] = SetVersion(2)
    /\ Len(File(3)) = 2 /\ DOMAIN File(3) = 1..2
    /\ File(3)[1] = Create({"last_notified_at"}) /\ File(3)[2] = SetVersion(3)
    /\ Len(File(4)) = 3 /\ DOMAIN File(4) = 1..3
    /\ File(4)[1] = Create({"notice_token"}) /\ File(4)[2] = Create({"expires_at"})
    /\ File(4)[3] = SetVersion(4)
    /\ Len(File(5)) = 4 /\ DOMAIN File(5) = 1..4
    /\ File(5)[1] = Create({"enum_symbols"}) /\ File(5)[2] = Create({"enum_actions"})
    /\ File(5)[3] = Create({"v_trades"}) /\ File(5)[4] = SetVersion(5)
<1>1. /\ Updates[2] = Append(<<Create({"auth_tokens"})>>, SetVersion(2))
      /\ Updates[3] = Append(<<Create({"last_notified_at"})>>, SetVersion(3))
      /\ Updates[4] = Append(<<Create({"notice_token"}), Create({"expires_at"})>>, SetVersion(4))
      /\ Updates[5] = Append(<<Create({"enum_symbols"}), Create({"enum_actions"}), Create({"v_trades"})>>,
                             SetVersion(5))
  BY DEF Updates, UpdateFile
<1>2. /\ File(Full) = FullSchema /\ \A n \in 2..5 : File(n) = Updates[n]
      /\ File(2) = Updates[2] /\ File(3) = Updates[3]
      /\ File(4) = Updates[4] /\ File(5) = Updates[5]
  BY DEF File, Full
<1>3. /\ File(2) = Append(<<Create({"auth_tokens"})>>, SetVersion(2))
      /\ File(3) = Append(<<Create({"last_notified_at"})>>, SetVersion(3))
      /\ File(4) = Append(<<Create({"notice_token"}), Create({"expires_at"})>>, SetVersion(4))
      /\ File(5) = Append(<<Create({"enum_symbols"}), Create({"enum_actions"}), Create({"v_trades"})>>,
                          SetVersion(5))
  BY <1>1, <1>2
<1>4. QED
  BY <1>2, <1>3, AppendedTo

\* The fields of each kind of command.
LEMMA CommandFields ==
    ASSUME NEW created, NEW n
    PROVE  /\ Create(created).kind = "create" /\ Create(created).creates = created
           /\ SetVersion(n).kind = "update" /\ SetVersion(n).creates = {} /\ SetVersion(n).v = n
           /\ InsertVersion(n).kind = "insert" /\ InsertVersion(n).creates = {} /\ InsertVersion(n).v = n
BY DEF Create, SetVersion, InsertVersion

\* The objects of full.sql.
LEMMA AllObjectsAre ==
    AllObjects = {"howling_version", "auth_tokens", "notice_token", "last_notified_at", "expires_at",
                  "candles", "market", "trades", "idx_trades", "enum_symbols", "enum_actions", "v_trades"}
<1>1. /\ DOMAIN FullSchema = 1..10
      /\ FullSchema[1].creates = {"howling_version"}
      /\ FullSchema[2].creates = {"auth_tokens", "notice_token", "last_notified_at", "expires_at"}
      /\ FullSchema[3].creates = {"candles"} /\ FullSchema[4].creates = {"market"}
      /\ FullSchema[5].creates = {"trades"} /\ FullSchema[6].creates = {"idx_trades"}
      /\ FullSchema[7].creates = {"enum_symbols"} /\ FullSchema[8].creates = {"enum_actions"}
      /\ FullSchema[9].creates = {"v_trades"} /\ FullSchema[10].creates = {}
  BY DEF FullSchema, Create, InsertVersion
<1>2. AllObjects = UNION {FullSchema[k].creates : k \in 1..10}
  BY <1>1 DEF AllObjects, Creations
<1> HIDE DEF AllObjects
<1>3. 1..10 = {1, 2, 3, 4, 5, 6, 7, 8, 9, 10}
  OBVIOUS
<1>4. QED
  BY <1>1, <1>2, <1>3

\* How a file is made: creating commands, and last the one for the version.
Shaped(s, kind, v) ==
    /\ Len(s) \in Nat /\ Len(s) >= 2 /\ DOMAIN s = 1..Len(s)
    /\ \A k \in 1..Len(s) - 1 :
         s[k].kind = "create" /\ s[k].creates # {} /\ s[k].creates \subseteq AllObjects
    /\ s[Len(s)].creates = {} /\ s[Len(s)].kind = kind /\ s[Len(s)].v = v

\* Every file creates something first, writes its version last and only then.
LEMMA FileShape ==
    /\ Shaped(File(Full), "insert", Latest)
    /\ \A n \in 2..Latest : Shaped(File(n), "update", n)
<1>1. Shaped(FullSchema, "insert", Latest)
  <2>1. Len(FullSchema) = 10 /\ DOMAIN FullSchema = 1..10
    BY DEF FullSchema
  <2>2. /\ FullSchema[1] = Create({"howling_version"})
        /\ FullSchema[2] = Create({"auth_tokens", "notice_token", "last_notified_at", "expires_at"})
        /\ FullSchema[3] = Create({"candles"}) /\ FullSchema[4] = Create({"market"})
        /\ FullSchema[5] = Create({"trades"}) /\ FullSchema[6] = Create({"idx_trades"})
        /\ FullSchema[7] = Create({"enum_symbols"}) /\ FullSchema[8] = Create({"enum_actions"})
        /\ FullSchema[9] = Create({"v_trades"}) /\ FullSchema[10] = InsertVersion(Latest)
    BY DEF FullSchema
  <2>3. \A k \in 1..9 : FullSchema[k].kind = "create" /\ FullSchema[k].creates # {}
    <3>1. \A k \in 1..9 : k \in {1, 2, 3, 4, 5, 6, 7, 8, 9}
      OBVIOUS
    <3>2. QED
      BY <2>2, <3>1, CommandFields
  <2>4. \A k \in 1..9 : FullSchema[k].creates \subseteq AllObjects
    BY <2>1 DEF AllObjects, Creations
  <2>5. FullSchema[10].creates = {} /\ FullSchema[10].kind = "insert" /\ FullSchema[10].v = Latest
    BY <2>2, CommandFields
  <2>6. QED
    BY <2>1, <2>3, <2>4, <2>5 DEF Shaped
<1>2. ASSUME NEW s, NEW c \in SUBSET AllObjects, c # {}, NEW n,
             Len(s) = 2, DOMAIN s = 1..2, s[1] = Create(c), s[2] = SetVersion(n)
      PROVE  Shaped(s, "update", n)
  <2>1. \A k \in 1..Len(s) - 1 : k = 1
    BY <1>2
  <2>2. s[1].kind = "create" /\ s[1].creates = c /\ s[2].kind = "update" /\ s[2].creates = {} /\ s[2].v = n
    BY <1>2, CommandFields
  <2>3. Len(s) \in Nat /\ Len(s) >= 2 /\ DOMAIN s = 1..Len(s) /\ s[Len(s)] = s[2]
    BY <1>2
  <2>4. QED
    BY <1>2, <2>1, <2>2, <2>3 DEF Shaped
<1>3. ASSUME NEW s, NEW c \in SUBSET AllObjects, c # {}, NEW d \in SUBSET AllObjects, d # {}, NEW n,
             Len(s) = 3, DOMAIN s = 1..3, s[1] = Create(c), s[2] = Create(d), s[3] = SetVersion(n)
      PROVE  Shaped(s, "update", n)
  <2>1. \A k \in 1..2 : k = 1 \/ k = 2
    OBVIOUS
  <2>2. QED
    BY <1>3, <2>1, CommandFields DEF Shaped
<1>4. ASSUME NEW s, NEW c \in SUBSET AllObjects, c # {}, NEW d \in SUBSET AllObjects, d # {},
             NEW e \in SUBSET AllObjects, e # {}, NEW n,
             Len(s) = 4, DOMAIN s = 1..4,
             s[1] = Create(c), s[2] = Create(d), s[3] = Create(e), s[4] = SetVersion(n)
      PROVE  Shaped(s, "update", n)
  <2>1. \A k \in 1..3 : k = 1 \/ k = 2 \/ k = 3
    OBVIOUS
  <2>2. QED
    BY <1>4, <2>1, CommandFields DEF Shaped
<1>5. /\ {"auth_tokens"} \subseteq AllObjects /\ {"last_notified_at"} \subseteq AllObjects
      /\ {"notice_token"} \subseteq AllObjects /\ {"expires_at"} \subseteq AllObjects
      /\ {"enum_symbols"} \subseteq AllObjects /\ {"enum_actions"} \subseteq AllObjects
      /\ {"v_trades"} \subseteq AllObjects
  BY AllObjectsAre
<1>6. /\ Shaped(File(2), "update", 2) /\ Shaped(File(3), "update", 3)
      /\ Shaped(File(4), "update", 4) /\ Shaped(File(5), "update", 5)
  <2>1. Shaped(File(2), "update", 2)
    BY <1>2, <1>5, FileContents
  <2>2. Shaped(File(3), "update", 3)
    BY <1>2, <1>5, FileContents
  <2>3. Shaped(File(4), "update", 4)
    BY <1>3, <1>5, FileContents
  <2>4. Shaped(File(5), "update", 5)
    BY <1>4, <1>5, FileContents
  <2>5. QED
    BY <2>1, <2>2, <2>3, <2>4
<1>7. \A n \in 2..Latest : n \in {2, 3, 4, 5}
  BY LatestIs
<1>8. QED
  BY <1>1, <1>6, <1>7, FileContents DEF Full

\* A version's objects are those of the version before it and its file's;
\* later versions have more, the latest everything.
LEMMA ObjectsGrow ==
    /\ \A v, w \in Nat : v <= w => ObjectsOf(v) \subseteq ObjectsOf(w)
    /\ \A n \in 2..Latest : ObjectsOf(n) \subseteq ObjectsOf(n - 1) \cup Creations(Updates[n])
    /\ \A v \in Nat : v >= Latest => ObjectsOf(v) = AllObjects
<1> USE LatestIs
<1>1. ASSUME NEW v \in Nat, NEW w \in Nat, v <= w
      PROVE  ObjectsOf(v) \subseteq ObjectsOf(w)
  <2>1. w + 1..Latest \subseteq v + 1..Latest
    BY <1>1
  <2>2. QED
    BY <2>1 DEF ObjectsOf
<1>2. ASSUME NEW n \in 2..Latest
      PROVE  ObjectsOf(n) \subseteq ObjectsOf(n - 1) \cup Creations(Updates[n])
  <2>1. (n - 1) + 1..Latest = {n} \cup (n + 1..Latest)
    OBVIOUS
  <2>2. QED
    BY <2>1 DEF ObjectsOf
<1>3. ASSUME NEW v \in Nat, v >= Latest
      PROVE  ObjectsOf(v) = AllObjects
  <2>1. v + 1..Latest = {}
    BY <1>3
  <2>2. QED
    BY <2>1 DEF ObjectsOf
<1>4. QED
  BY <1>1, <1>2, <1>3

\* The first command of a file creates what every version from its own on has.
LEMMA FirstCommand ==
    /\ \A n \in 2..Latest, v \in Nat : v >= n => File(n)[1].creates \subseteq ObjectsOf(v)
    /\ "howling_version" \in File(Full)[1].creates
    /\ \A v \in Nat \ {0} : "howling_version" \in ObjectsOf(v)
<1> USE LatestIs
<1>1. /\ Creations(Updates[2]) = {"auth_tokens"}
      /\ Creations(Updates[3]) = {"last_notified_at"}
      /\ Creations(Updates[4]) = {"notice_token", "expires_at"}
      /\ Creations(Updates[5]) = {"enum_symbols", "enum_actions", "v_trades"}
  <2>1. /\ DOMAIN File(2) = {1, 2} /\ DOMAIN File(3) = {1, 2}
        /\ DOMAIN File(4) = {1, 2, 3} /\ DOMAIN File(5) = {1, 2, 3, 4}
    BY FileContents
  <2>2. /\ File(2)[1].creates = {"auth_tokens"} /\ File(2)[2].creates = {}
        /\ File(3)[1].creates = {"last_notified_at"} /\ File(3)[2].creates = {}
    BY FileContents, CommandFields
  <2>3. /\ File(4)[1].creates = {"notice_token"} /\ File(4)[2].creates = {"expires_at"}
        /\ File(4)[3].creates = {}
    BY FileContents, CommandFields
  <2>4. /\ File(5)[1].creates = {"enum_symbols"} /\ File(5)[2].creates = {"enum_actions"}
        /\ File(5)[3].creates = {"v_trades"} /\ File(5)[4].creates = {}
    BY FileContents, CommandFields
  <2>5. /\ Creations(File(2)) = {"auth_tokens"} /\ Creations(File(3)) = {"last_notified_at"}
    BY <2>1, <2>2 DEF Creations
  <2>6. Creations(File(4)) = {"notice_token", "expires_at"}
    BY <2>1, <2>3 DEF Creations
  <2>7. Creations(File(5)) = {"enum_symbols", "enum_actions", "v_trades"}
    BY <2>1, <2>4 DEF Creations
  <2>8. QED
    BY <2>5, <2>6, <2>7, FileContents
<1>2. ASSUME NEW n \in 2..Latest
      PROVE  File(n)[1].creates \subseteq ObjectsOf(n)
  <2>1. /\ File(2)[1].creates = {"auth_tokens"} /\ File(3)[1].creates = {"last_notified_at"}
        /\ File(4)[1].creates = {"notice_token"} /\ File(5)[1].creates = {"enum_symbols"}
    BY FileContents, CommandFields
  <2>2. ASSUME NEW m \in n + 1..Latest
        PROVE  File(n)[1].creates \cap Creations(Updates[m]) = {}
    <3>1. m \in {3, 4, 5} /\ n \in {2, 3, 4} /\ n < m
      OBVIOUS
    <3>2. QED
      BY <1>1, <2>1, <3>1
  <2>3. File(n)[1].creates \subseteq AllObjects
    BY FileShape DEF Shaped
  <2>4. QED
    BY <2>2, <2>3 DEF ObjectsOf
<1>3. \A m \in 2..Latest : "howling_version" \notin Creations(Updates[m])
  <2>1. \A m \in 2..Latest : m \in {2, 3, 4, 5}
    OBVIOUS
  <2>2. QED
    BY <1>1, <2>1
<1>4. \A v \in Nat \ {0} : "howling_version" \in ObjectsOf(v)
  BY <1>3, AllObjectsAre DEF ObjectsOf
<1>5. "howling_version" \in File(Full)[1].creates
  BY FileContents, CommandFields DEF Full, FullSchema
<1>6. QED
  BY <1>2, <1>4, <1>5, ObjectsGrow

\* Where a script goes on: at the next command of the file, or with the next
\* update, or nowhere.
LEMMA PlaceIs ==
    ASSUME NEW place \in Places, place # End
    PROVE  /\ place.file \in FileNumbers /\ place.command \in 1..Len(File(place.file))
           /\ place.file \in Nat /\ place.command \in Nat /\ Len(File(place.file)) \in Nat
           /\ place = Place(place.file, place.command)
<1>0. PICK n \in FileNumbers : \E k \in DOMAIN File(n) : place = Place(n, k)
  BY DEF Places, FileNumbers
<1>1. PICK k \in DOMAIN File(n) : place = Place(n, k)
  BY <1>0
<1>2. place.file = n /\ place.command = k
  BY <1>1 DEF Place
<1>3. Shaped(File(n), IF n = Full THEN "insert" ELSE "update", IF n = Full THEN Latest ELSE n)
  BY FileShape DEF FileNumbers
<1>4. Len(File(n)) \in Nat /\ DOMAIN File(n) = 1..Len(File(n))
  BY <1>3 DEF Shaped
<1>5. n \in Nat
  BY LatestIs
<1>6. QED
  BY <1>1, <1>2, <1>4, <1>5

\* Each command of each file has a place of its own.
LEMMA PlacesAre ==
    ASSUME NEW n \in FileNumbers, NEW k \in 1..Len(File(n))
    PROVE  Place(n, k) \in Places /\ Place(n, k) # End /\ Place(n, k).file = n /\ Place(n, k).command = k
<1>1. Shaped(File(n), IF n = Full THEN "insert" ELSE "update", IF n = Full THEN Latest ELSE n)
  BY FileShape DEF FileNumbers
<1>2. DOMAIN File(n) = 1..Len(File(n))
  BY <1>1 DEF Shaped
<1>3. Place(n, k) \in Places
  BY <1>2 DEF Places, FileNumbers
<1>4. Place(n, k).file = n /\ End.file = Latest + 1 /\ Place(n, k).command = k
  BY DEF Place, End
<1>5. n # Latest + 1
  BY LatestIs
<1>6. QED
  BY <1>3, <1>4, <1>5

\* get_schema_update starts with the file after the version.
LEMMA AfterVersion ==
    ASSUME NEW v \in Nat \ {0}
    PROVE  /\ UpdatesAfter(v) \in Places
           /\ v >= Latest => UpdatesAfter(v) = End
           /\ v < Latest => /\ UpdatesAfter(v) # End
                            /\ UpdatesAfter(v).file = v + 1 /\ UpdatesAfter(v).file # Full
                            /\ UpdatesAfter(v).command = 1
<1>1. CASE v >= Latest
  <2>1. UpdatesAfter(v) = End
    BY <1>1, LatestIs DEF UpdatesAfter
  <2>2. QED
    BY <1>1, <2>1, LatestIs DEF Places
<1>2. CASE v < Latest
  <2>1. v + 1 \in 2..Latest /\ v + 1 \in FileNumbers /\ v + 1 # Full
    BY <1>2, LatestIs DEF FileNumbers, Full
  <2>2. 1 \in 1..Len(File(v + 1))
    BY <2>1, FileShape DEF Shaped
  <2>3. UpdatesAfter(v) = Place(v + 1, 1)
    BY <1>2 DEF UpdatesAfter
  <2>4. QED
    BY <1>2, <2>1, <2>2, <2>3, PlacesAre, LatestIs
<1>3. QED
  BY <1>1, <1>2, LatestIs

-----------------------------------------------------------------------------
(* The schema's steps, seen by its invariant.                              *)

\* The version table holds one row or none.
LEMMA VersionInTable ==
    ASSUME SchemaInv
    PROVE  /\ rows = << >> \/ \E v \in 1..Latest + 1 : rows = <<v>>
           /\ rows # << >> => /\ rows = <<rows[1]>> /\ rows[1] \in Nat \ {0} /\ Len(rows) = 1
                              /\ ObjectsOf(rows[1]) \subseteq objects
                              /\ "howling_version" \in objects
<1>1. rows = << >> \/ \E v \in 1..Latest + 1 : rows = <<v>>
  BY DEF SchemaInv, VersionMeansObjects, TypeOK
<1>2. ASSUME NEW v \in 1..Latest + 1, rows = <<v>>
      PROVE  /\ rows = <<rows[1]>> /\ rows[1] \in Nat \ {0} /\ Len(rows) = 1
             /\ ObjectsOf(rows[1]) \subseteq objects /\ "howling_version" \in objects
  <2>1. rows[1] = v /\ Len(rows) = 1 /\ 1 \in DOMAIN rows
    BY <1>2
  <2>2. v \in Nat \ {0}
    BY LatestIs
  <2>3. ObjectsOf(rows[1]) \subseteq objects
    BY <2>1 DEF SchemaInv, VersionMeansObjects
  <2>4. QED
    BY <1>2, <2>1, <2>2, <2>3, FirstCommand
<1>3. QED
  BY <1>1, <1>2

\* A step of one upgrader that writes neither objects nor version.
LEMMA UpgraderMoves ==
    ASSUME SchemaInv, NEW u \in Upgraders, NEW label \in Labels,
           pc' = [pc EXCEPT ![u] = label],
           script' \in [Upgraders -> Places],
           \A w \in Upgraders \ {u} : script'[w] = script[w],
           UNCHANGED <<dialect, objects, rows>>, deaths' \in 0..MaxDeaths,
           names \subseteq names', names' \subseteq EnumTables,
           granted \subseteq granted', granted' \subseteq objects,
           ScriptInStep(u)', AfterInStep(u)', ~Inside(u)'
    PROVE  SchemaInv'
<1>1. TypeOK /\ pc \in [Upgraders \cup Apps -> Labels]
  BY DEF SchemaInv, VersionMeansObjects, TypeOK
<1>2. TypeOK'
  BY <1>1 DEF TypeOK
<1>3. VersionMeansObjects'
  BY <1>2 DEF SchemaInv, VersionMeansObjects
<1>4. \A q \in (Upgraders \cup Apps) \ {u} : pc'[q] = pc[q]
  BY <1>1
<1>5. ASSUME NEW w \in Upgraders, w # u
      PROVE  ScriptInStep(w)' /\ AfterInStep(w)' /\ (Inside(w)' => Inside(w))
  <2>1. ScriptInStep(w) /\ AfterInStep(w) /\ pc'[w] = pc[w] /\ script'[w] = script[w]
    BY <1>4, <1>5 DEF SchemaInv
  <2>2. ScriptInStep(w)'
    BY <2>1 DEF ScriptInStep
  <2>3. AfterInStep(w)'
    BY <2>1 DEF AfterInStep
  <2>4. QED
    BY <2>1, <2>2, <2>3 DEF Inside
<1>6. OneInside'
  BY <1>5 DEF OneInside, SchemaInv
<1>7. ASSUME NEW a \in Apps
      PROVE  AppInStep(a)'
  <2>1. a # u
    BY SchemaAssumption
  <2>2. AppInStep(a) /\ pc'[a] = pc[a]
    BY <1>4, <2>1 DEF SchemaInv
  <2>3. QED
    BY <2>2 DEF AppInStep
<1>8. QED
  BY <1>3, <1>5, <1>6, <1>7 DEF SchemaInv

\* A step of one application: it may start only on a complete upgrade, and
\* connect only to a complete schema.
LEMMA AppMoves ==
    ASSUME SchemaInv, NEW a \in Apps, NEW label \in Labels,
           pc' = [pc EXCEPT ![a] = label],
           UNCHANGED <<dialect, objects, rows, names, granted, script>>, deaths' \in 0..MaxDeaths,
           \/ label = "failed"
           \/ pc[a] \notin {"idle", "failed"}
           \/ dialect = "postgres" => EnumTables \subseteq names /\ AllObjects \subseteq granted,
           label \in Connected => AllObjects \subseteq objects
    PROVE  SchemaInv'
<1>1. TypeOK /\ pc \in [Upgraders \cup Apps -> Labels]
  BY DEF SchemaInv, VersionMeansObjects, TypeOK
<1>2. TypeOK'
  BY <1>1 DEF TypeOK
<1>3. VersionMeansObjects'
  BY <1>2 DEF SchemaInv, VersionMeansObjects
<1>4. pc'[a] = label /\ \A q \in (Upgraders \cup Apps) \ {a} : pc'[q] = pc[q]
  BY <1>1
<1>5. ASSUME NEW w \in Upgraders
      PROVE  ScriptInStep(w)' /\ AfterInStep(w)' /\ (Inside(w)' => Inside(w))
  <2>1. w # a
    BY SchemaAssumption
  <2>2. ScriptInStep(w) /\ AfterInStep(w) /\ pc'[w] = pc[w] /\ script'[w] = script[w]
    BY <1>4, <2>1 DEF SchemaInv
  <2>3. ScriptInStep(w)'
    BY <2>2 DEF ScriptInStep
  <2>4. AfterInStep(w)'
    BY <2>2 DEF AfterInStep
  <2>5. QED
    BY <2>2, <2>3, <2>4 DEF Inside
<1>6. OneInside'
  BY <1>5 DEF OneInside, SchemaInv
<1>7. AppInStep(a)'
  BY <1>4 DEF AppInStep, SchemaInv
<1>8. ASSUME NEW b \in Apps, b # a
      PROVE  AppInStep(b)'
  BY <1>4, <1>8 DEF AppInStep, SchemaInv
<1>9. QED
  BY <1>3, <1>5, <1>6, <1>7, <1>8 DEF SchemaInv

-----------------------------------------------------------------------------
(* A command.                                                              *)

\* What is known of the command an upgrader is about to execute.
LEMMA AtCommand ==
    ASSUME SchemaInv, NEW u \in Upgraders, pc[u] = "script", script[u] # End
    PROVE  LET f == script[u].file
               k == script[u].command IN
           /\ f \in FileNumbers /\ k \in 1..Len(File(f)) /\ f \in Nat /\ k \in Nat /\ Len(File(f)) \in Nat
           /\ Shaped(File(f), IF f = Full THEN "insert" ELSE "update", IF f = Full THEN Latest ELSE f)
           /\ f # Full => f \in 2..Latest /\ rows # << >> /\ rows[1] >= f - 1
           /\ k > 1 => rows = RowsBefore(f)
           /\ \A i \in 1..k - 1 : File(f)[i].creates \subseteq objects
           /\ Command(script[u]) = File(f)[k]
           /\ script[u] = Place(f, k)
<1> DEFINE f == script[u].file
           k == script[u].command
<1>1. script[u] \in Places /\ ScriptInStep(u)
  BY DEF SchemaInv, VersionMeansObjects, TypeOK
<1>2. /\ f \in FileNumbers /\ k \in 1..Len(File(f)) /\ f \in Nat /\ k \in Nat /\ Len(File(f)) \in Nat
      /\ script[u] = Place(f, k)
  BY <1>1, PlaceIs
<1>3. f # Full => f \in 2..Latest
  BY <1>2 DEF FileNumbers
<1>4. Shaped(File(f), IF f = Full THEN "insert" ELSE "update", IF f = Full THEN Latest ELSE f)
  BY <1>2, FileShape DEF FileNumbers
<1>5. QED
  BY <1>1, <1>2, <1>3, <1>4 DEF ScriptInStep, Command

\* The first command of a file succeeds only at the version before the file,
\* and never while another upgrader is inside a file: that one's version or
\* what it has created is in the way.
LEMMA FirstCommandExcludes ==
    ASSUME SchemaInv, NEW u \in Upgraders, pc[u] = "script", script[u] # End,
           script[u].command = 1, Command(script[u]).creates \cap objects = {}
    PROVE  /\ rows = RowsBefore(script[u].file)
           /\ \A w \in Upgraders : ~ Inside(w)
<1> DEFINE f == script[u].file
<1>1. /\ f \in FileNumbers /\ f \in Nat /\ Command(script[u]) = File(f)[1]
      /\ Shaped(File(f), IF f = Full THEN "insert" ELSE "update", IF f = Full THEN Latest ELSE f)
      /\ f # Full => f \in 2..Latest /\ rows # << >> /\ rows[1] >= f - 1
  BY AtCommand
<1>2. File(f)[1].creates # {} /\ File(f)[1].creates \cap objects = {}
  BY <1>1 DEF Shaped
<1> HIDE DEF f
<1>3. f = Full => rows = << >>
  BY <1>2, FirstCommand, VersionInTable
<1>4. f # Full => rows = <<f - 1>> /\ f - 1 \in Nat
  <2> SUFFICES ASSUME f # Full
               PROVE  rows = <<f - 1>> /\ f - 1 \in Nat
    OBVIOUS
  <2>1. f \in 2..Latest /\ rows = <<rows[1]>> /\ rows[1] \in Nat /\ rows[1] >= f - 1
        /\ ObjectsOf(rows[1]) \subseteq objects
    BY <1>1, VersionInTable
  <2>2. ~(rows[1] >= f)
    BY <1>2, <2>1, FirstCommand
  <2>3. rows[1] = f - 1
    BY <1>1, <2>1, <2>2
  <2>4. QED
    BY <2>1, <2>3
<1>5. rows = RowsBefore(f)
  BY <1>3, <1>4 DEF RowsBefore
<1>6. ASSUME NEW w \in Upgraders, Inside(w)
      PROVE  FALSE
  <2> DEFINE g == script[w].file
  <2>1. /\ g \in FileNumbers /\ g \in Nat /\ rows = RowsBefore(g)
        /\ File(g)[1].creates \subseteq objects
        /\ g # Full => rows # << >>
    BY <1>6, AtCommand DEF Inside
  <2> HIDE DEF g
  <2>2. g = f
    <3>1. CASE f = Full
      BY <1>3, <2>1, <3>1
    <3>2. CASE f # Full
      <4>1. rows = <<f - 1>> /\ rows # << >>
        BY <1>1, <1>4, <3>2 DEF f
      <4>2. g # Full
        BY <2>1, <4>1 DEF RowsBefore
      <4>3. rows = <<g - 1>>
        BY <2>1, <4>2 DEF RowsBefore
      <4>4. f - 1 = g - 1
        BY <4>1, <4>3
      <4>5. QED
        BY <1>1, <2>1, <4>4
    <3>3. QED
      BY <3>1, <3>2
  <2>3. QED
    BY <1>2, <2>1, <2>2
<1>7. QED
  BY <1>5, <1>6 DEF f

\* So whoever executes a command was inside its file or is the only one to
\* enter one.
LEMMA OnlyOneExecutes ==
    ASSUME SchemaInv, NEW u \in Upgraders, pc[u] = "script", script[u] # End,
           Succeeds(Command(script[u]))
    PROVE  /\ rows = RowsBefore(script[u].file)
           /\ \A w \in Upgraders \ {u} : ~ Inside(w)
<1>1. script[u].command \in Nat /\ script[u].command >= 1
  BY AtCommand
<1>2. CASE script[u].command = 1
  BY <1>2, FirstCommandExcludes DEF Succeeds
<1>3. CASE script[u].command > 1
  <2>1. Inside(u)
    BY <1>3 DEF Inside
  <2>2. rows = RowsBefore(script[u].file)
    BY <1>3, AtCommand
  <2>3. QED
    BY <2>1, <2>2 DEF SchemaInv, OneInside
<1>4. QED
  BY <1>1, <1>2, <1>3

\* Objects and version only grow, under upgraders that are at the start of a
\* file or outside.
LEMMA SchemaGrows ==
    ASSUME SchemaInv, NEW u \in Upgraders, pc[u] = "script",
           UNCHANGED <<dialect, names, granted, deaths, pc>>, objects \subseteq objects',
           script' \in [Upgraders -> Places],
           \A w \in Upgraders \ {u} : script'[w] = script[w] /\ ~ Inside(w),
           rows # << >> => rows' # << >> /\ rows'[1] >= rows[1],
           rows # << >> => rows[1] \in Nat /\ rows'[1] \in Nat,
           VersionMeansObjects', ScriptInStep(u)'
    PROVE  SchemaInv'
<1>1. ASSUME NEW w \in Upgraders, w # u
      PROVE  ScriptInStep(w)' /\ AfterInStep(w)' /\ ~ Inside(w)'
  <2>1. ScriptInStep(w) /\ AfterInStep(w) /\ pc'[w] = pc[w] /\ script'[w] = script[w] /\ ~ Inside(w)
    BY <1>1 DEF SchemaInv
  <2>2. ~ Inside(w)' /\ AfterInStep(w)'
    BY <2>1 DEF Inside, AfterInStep
  <2>3. CASE pc[w] # "script"
    BY <2>1, <2>2, <2>3 DEF ScriptInStep
  <2>4. CASE pc[w] = "script" /\ script[w] = End
    BY <2>1, <2>2, <2>4 DEF ScriptInStep
  <2>5. CASE pc[w] = "script" /\ script[w] # End
    <3>1. script[w].file \in Nat /\ script[w].command \in Nat /\ ~(script[w].command > 1)
      BY <2>1, <2>5, AtCommand DEF Inside
    <3>2. \A k \in 1..script[w].command - 1 : FALSE
      BY <3>1
    <3>3. script[w].file # Full => rows # << >> /\ rows[1] >= script[w].file - 1
      BY <2>1, <2>5 DEF ScriptInStep
    <3>4. script[w].file # Full => rows' # << >> /\ rows'[1] >= script[w].file - 1
      BY <3>1, <3>3
    <3>5. ScriptInStep(w)'
      BY <2>1, <2>5, <3>1, <3>2, <3>4 DEF ScriptInStep
    <3>6. QED
      BY <2>2, <3>5
  <2>6. QED
    BY <2>3, <2>4, <2>5
<1>2. AfterInStep(u)'
  BY DEF AfterInStep, EnumTables
<1>3. ASSUME NEW a \in Apps
      PROVE  AppInStep(a)'
  <2>1. AppInStep(a)
    BY DEF SchemaInv
  <2>2. QED
    BY <2>1 DEF AppInStep
<1>4. OneInside'
  BY <1>1 DEF OneInside
<1>5. QED
  BY <1>1, <1>2, <1>3, <1>4 DEF SchemaInv

\* A creating statement that succeeds.
LEMMA CreateInv ==
    ASSUME SchemaInv, NEW u \in Upgraders, Execute(u), Succeeds(Command(script[u])),
           script[u].command < Len(File(script[u].file))
    PROVE  SchemaInv' /\ rows' = rows
<1> DEFINE f == script[u].file
           k == script[u].command
           st == Command(script[u])
<1>1. pc[u] = "script" /\ script[u] # End
  BY DEF Execute
<1>2. /\ f \in FileNumbers /\ k \in 1..Len(File(f)) /\ f \in Nat /\ k \in Nat /\ Len(File(f)) \in Nat
      /\ Shaped(File(f), IF f = Full THEN "insert" ELSE "update", IF f = Full THEN Latest ELSE f)
      /\ f # Full => f \in 2..Latest /\ rows # << >> /\ rows[1] >= f - 1
      /\ \A i \in 1..k - 1 : File(f)[i].creates \subseteq objects
      /\ st = File(f)[k] /\ script[u] = Place(f, k)
  BY <1>1, AtCommand
<1>3. rows = RowsBefore(f) /\ \A w \in Upgraders \ {u} : ~ Inside(w)
  BY <1>1, OnlyOneExecutes
<1>4. k \in 1..Len(File(f)) - 1
  BY <1>2
<1>5. st.kind = "create" /\ st.creates \subseteq AllObjects
  BY <1>2, <1>4 DEF Shaped
<1>6. objects' = objects \cup st.creates /\ rows' = VersionRows(st)
      /\ script' = [script EXCEPT ![u] = Following(script[u])] /\ pc' = pc
      /\ UNCHANGED <<dialect, names, granted, deaths>>
  BY DEF Execute
<1>7. rows' = rows
  BY <1>5, <1>6 DEF VersionRows
<1>8. Following(script[u]) = Place(f, k + 1)
  BY <1>2, <1>4 DEF Following, Place
<1> HIDE DEF f, k, st
<1>9. k + 1 \in 1..Len(File(f))
  BY <1>2, <1>4
<1>10. Place(f, k + 1) \in Places /\ Place(f, k + 1) # End
       /\ Place(f, k + 1).file = f /\ Place(f, k + 1).command = k + 1
  BY <1>2, <1>9, PlacesAre
<1>11. script \in [Upgraders -> Places] /\ TypeOK
  BY DEF SchemaInv, VersionMeansObjects, TypeOK
<1>12. script' \in [Upgraders -> Places] /\ script'[u] = Place(f, k + 1)
       /\ \A w \in Upgraders \ {u} : script'[w] = script[w]
  BY <1>6, <1>8, <1>10, <1>11
<1>13. TypeOK'
  BY <1>5, <1>6, <1>7, <1>11, <1>12 DEF TypeOK
<1>14. VersionMeansObjects'
  BY <1>6, <1>7, <1>13 DEF VersionMeansObjects, SchemaInv
<1>15. \A i \in 1..(k + 1) - 1 : File(f)[i].creates \subseteq objects'
  <2>1. \A i \in 1..(k + 1) - 1 : i \in 1..k - 1 \/ i = k
    BY <1>2
  <2>2. QED
    BY <1>2, <1>6, <2>1
<1>16. ScriptInStep(u)'
  BY <1>2, <1>3, <1>7, <1>10, <1>12, <1>15 DEF ScriptInStep
<1>17. rows # << >> => rows[1] \in Nat
  BY VersionInTable
<1>18. rows # << >> => rows' # << >> /\ rows'[1] >= rows[1] /\ rows[1] \in Nat /\ rows'[1] \in Nat
  BY <1>7, <1>17
<1>19. objects \subseteq objects' /\ UNCHANGED <<dialect, names, granted, deaths, pc>>
  BY <1>6
<1>20. \A w \in Upgraders \ {u} : script'[w] = script[w] /\ ~ Inside(w)
  BY <1>3, <1>12
<1>21. QED
  BY <1>1, <1>7, <1>12, <1>14, <1>16, <1>18, <1>19, <1>20, SchemaGrows

\* The last command of a file: all that its version means is there.
LEMMA VersionInv ==
    ASSUME SchemaInv, NEW u \in Upgraders, Execute(u), Succeeds(Command(script[u])),
           ~(script[u].command < Len(File(script[u].file)))
    PROVE  /\ SchemaInv'
           /\ rows = << >> \/ \E v \in Nat : rows = <<v>> /\ rows' = <<v + 1>>
<1> DEFINE f == script[u].file
           k == script[u].command
           st == Command(script[u])
<1>1. pc[u] = "script" /\ script[u] # End
  BY DEF Execute
<1>2. /\ f \in FileNumbers /\ k \in 1..Len(File(f)) /\ f \in Nat /\ k \in Nat /\ Len(File(f)) \in Nat
      /\ Shaped(File(f), IF f = Full THEN "insert" ELSE "update", IF f = Full THEN Latest ELSE f)
      /\ f # Full => f \in 2..Latest
      /\ \A i \in 1..k - 1 : File(f)[i].creates \subseteq objects
      /\ st = File(f)[k] /\ script[u] = Place(f, k)
  BY <1>1, AtCommand
<1>3. rows = RowsBefore(f) /\ \A w \in Upgraders \ {u} : ~ Inside(w)
  BY <1>1, OnlyOneExecutes
<1>4. k = Len(File(f))
  BY <1>2
<1>5. st.creates = {} /\ st.kind = (IF f = Full THEN "insert" ELSE "update")
      /\ st.v = (IF f = Full THEN Latest ELSE f)
  BY <1>2, <1>4 DEF Shaped
<1>6. objects' = objects \cup st.creates /\ rows' = VersionRows(st)
      /\ script' = [script EXCEPT ![u] = Following(script[u])] /\ pc' = pc
      /\ UNCHANGED <<dialect, names, granted, deaths>>
  BY DEF Execute
<1>7. Following(script[u]) = IF f = Full THEN End ELSE UpdatesAfter(f)
  BY <1>2, <1>4 DEF Following
<1> HIDE DEF f, k, st
<1>8. objects' = objects
  BY <1>5, <1>6
<1>9. Creations(File(f)) \subseteq objects
  <2>1. DOMAIN File(f) = 1..Len(File(f))
    BY <1>2 DEF Shaped
  <2>2. ASSUME NEW i \in 1..Len(File(f))
        PROVE  File(f)[i].creates \subseteq objects
    <3>1. CASE i = k
      BY <1>2, <1>5, <3>1
    <3>2. CASE i # k
      BY <1>2, <1>4, <3>2
    <3>3. QED
      BY <3>1, <3>2
  <2>3. QED
    BY <2>1, <2>2 DEF Creations
<1>10. TypeOK /\ script \in [Upgraders -> Places]
  BY DEF SchemaInv, VersionMeansObjects, TypeOK
<1>11. CASE f = Full
  <2>1. rows = << >> /\ rows' = <<Latest>> /\ AllObjects \subseteq objects
    BY <1>3, <1>5, <1>6, <1>9, <1>11, FileContents DEF RowsBefore, VersionRows, AllObjects
  <2>2. script' \in [Upgraders -> Places] /\ script'[u] = End
        /\ \A w \in Upgraders \ {u} : script'[w] = script[w]
    BY <1>6, <1>7, <1>10, <1>11 DEF Places
  <2>3. TypeOK'
    <3>1. rows' \in {<<v>> : v \in 1..Latest + 1}
      BY <2>1, LatestIs
    <3>2. QED
      BY <1>6, <1>8, <1>10, <2>2, <3>1 DEF TypeOK
  <2>4. VersionMeansObjects'
    <3>1. \A i \in DOMAIN rows' : ObjectsOf(rows'[i]) \subseteq AllObjects
      BY DEF ObjectsOf
    <3>2. QED
      BY <1>8, <2>1, <2>3, <3>1 DEF VersionMeansObjects
  <2>5. ScriptInStep(u)'
    BY <1>8, <2>1, <2>2 DEF ScriptInStep
  <2>6. UNCHANGED <<dialect, names, granted, deaths, pc>> /\ objects \subseteq objects'
    BY <1>6, <1>8
  <2>7. \A w \in Upgraders \ {u} : script'[w] = script[w] /\ ~ Inside(w)
    BY <1>3, <2>2
  <2>8. QED
    BY <1>1, <2>1, <2>2, <2>4, <2>5, <2>6, <2>7, SchemaGrows
<1>12. CASE f # Full
  <2>1. f \in 2..Latest /\ f - 1 \in Nat \ {0} /\ f \in Nat \ {0}
    BY <1>2, <1>12, LatestIs
  <2>2. rows = <<f - 1>> /\ rows[1] = f - 1 /\ rows # << >>
    <3>1. rows = <<f - 1>>
      BY <1>3, <1>12 DEF RowsBefore
    <3>2. QED
      BY <3>1
  <2>3. rows' = <<f>> /\ rows'[1] = f /\ DOMAIN rows' = {1} /\ rows' # << >>
    <3>1. rows' = [i \in DOMAIN rows |-> f]
      BY <1>5, <1>6, <1>12 DEF VersionRows
    <3>2. rows' = <<f>>
      BY <2>2, <3>1
    <3>3. QED
      BY <3>2
  <2>4. ObjectsOf(f) \subseteq objects
    <3>1. ObjectsOf(f - 1) \subseteq objects
      BY <2>2, VersionInTable
    <3>2. File(f) = Updates[f]
      BY <2>1, LatestIs, FileContents
    <3>3. QED
      BY <1>9, <2>1, <3>1, <3>2, ObjectsGrow
  <2>5. script' \in [Upgraders -> Places] /\ script'[u] = UpdatesAfter(f)
        /\ \A w \in Upgraders \ {u} : script'[w] = script[w]
    BY <1>6, <1>7, <1>10, <1>12, <2>1, AfterVersion
  <2>6. TypeOK'
    <3>1. rows' \in {<<v>> : v \in 1..Latest + 1}
      BY <2>1, <2>3, LatestIs
    <3>2. QED
      BY <1>6, <1>8, <1>10, <2>5, <3>1 DEF TypeOK
  <2>7. VersionMeansObjects'
    BY <1>8, <2>3, <2>4, <2>6 DEF VersionMeansObjects
  <2>8. ScriptInStep(u)'
    <3>1. CASE f = Latest
      <4>1. script'[u] = End
        BY <2>1, <2>5, <3>1, AfterVersion, LatestIs
      <4>2. AllObjects \subseteq objects'
        BY <1>8, <2>1, <2>4, <3>1, ObjectsGrow, LatestIs
      <4>3. QED
        BY <4>1, <4>2 DEF ScriptInStep
    <3>2. CASE f < Latest
      <4>1. script'[u] # End /\ script'[u].file = f + 1 /\ script'[u].command = 1
        BY <2>1, <2>5, <3>2, AfterVersion
      <4>2. rows' # << >> /\ rows'[1] >= (f + 1) - 1
        BY <2>1, <2>3
      <4>3. \A i \in 1..1 - 1 : FALSE
        OBVIOUS
      <4>4. QED
        BY <4>1, <4>2, <4>3 DEF ScriptInStep
    <3>3. QED
      BY <2>1, <3>1, <3>2, LatestIs
  <2>9. UNCHANGED <<dialect, names, granted, deaths, pc>> /\ objects \subseteq objects'
        /\ \A w \in Upgraders \ {u} : script'[w] = script[w] /\ ~ Inside(w)
    BY <1>3, <1>6, <1>8, <2>5
  <2>10. rows # << >> => rows' # << >> /\ rows'[1] >= rows[1] /\ rows[1] \in Nat /\ rows'[1] \in Nat
    BY <2>1, <2>2, <2>3
  <2>11. SchemaInv'
    BY <1>1, <2>5, <2>7, <2>8, <2>9, <2>10, SchemaGrows
  <2>12. rows = <<f - 1>> /\ rows' = <<(f - 1) + 1>> /\ f - 1 \in Nat
    BY <2>1, <2>2, <2>3
  <2>13. QED
    BY <2>11, <2>12
<1>13. QED
  BY <1>11, <1>12

\* A statement of a script: one that creates, one that writes the version, or one that fails.
LEMMA ExecuteInv ==
    ASSUME SchemaInv, NEW u \in Upgraders, Execute(u)
    PROVE  SchemaInv'
<1>1. CASE Succeeds(Command(script[u]))
  BY <1>1, CreateInv, VersionInv
<1>2. CASE ~ Succeeds(Command(script[u]))
  <2>1. /\ pc' = [pc EXCEPT ![u] = "failed"] /\ script' = [script EXCEPT ![u] = End]
        /\ UNCHANGED <<dialect, objects, rows, names, granted, deaths>>
    BY <1>2 DEF Execute, Goto
  <2>2. TypeOK
    BY DEF SchemaInv, VersionMeansObjects
  <2>3. pc'[u] = "failed" /\ script' \in [Upgraders -> Places]
        /\ \A w \in Upgraders \ {u} : script'[w] = script[w]
    BY <2>1, <2>2 DEF TypeOK, Places
  <2>4. ScriptInStep(u)' /\ AfterInStep(u)' /\ ~ Inside(u)'
    BY <2>3 DEF ScriptInStep, AfterInStep, Inside, EnumTables
  <2>5. "failed" \in Labels
    BY DEF Labels
  <2>6. QED
    BY <2>1, <2>2, <2>3, <2>4, <2>5, UpgraderMoves DEF TypeOK
<1>3. QED
  BY <1>1, <1>2

-----------------------------------------------------------------------------
(* The other steps of an upgrader.                                         *)

\* An upgrader moves to a label at which nothing is asked of it.
LEMMA UpgraderGoes ==
    ASSUME SchemaInv, NEW u \in Upgraders, NEW label \in {"exists", "version", "failed"},
           pc' = [pc EXCEPT ![u] = label],
           script' \in [Upgraders -> Places],
           \A w \in Upgraders \ {u} : script'[w] = script[w],
           UNCHANGED <<dialect, objects, rows, names, granted>>, deaths' \in 0..MaxDeaths
    PROVE  SchemaInv'
<1>1. TypeOK
  BY DEF SchemaInv, VersionMeansObjects
<1>2. pc'[u] = label /\ label \in Labels
  BY <1>1 DEF TypeOK, Labels
<1>3. ScriptInStep(u)' /\ AfterInStep(u)' /\ ~ Inside(u)'
  BY <1>2 DEF ScriptInStep, AfterInStep, Inside, EnumTables
<1>4. QED
  BY <1>1, <1>2, <1>3, UpgraderMoves DEF TypeOK

\* upgrade_schema begins by looking.
LEMMA StartUpgradeInv ==
    ASSUME SchemaInv, NEW u \in Upgraders, StartUpgrade(u)
    PROVE  SchemaInv'
BY UpgraderGoes DEF StartUpgrade, Goto, Unchanged, SchemaInv, VersionMeansObjects, TypeOK

\* A start that ends before it.
LEMMA FailsToStartInv ==
    ASSUME SchemaInv, NEW u \in Upgraders, FailsToStart(u)
    PROVE  SchemaInv'
<1>1. pc' = [pc EXCEPT ![u] = "failed"]
  BY DEF FailsToStart, GoesOn, Goto
<1>2. QED
  BY <1>1, UpgraderGoes DEF FailsToStart, GoesOn, Unchanged, SchemaInv, VersionMeansObjects, TypeOK

\* Without a version table the upgrader starts full.sql.
LEMMA UpgraderExistsInv ==
    ASSUME SchemaInv, NEW u \in Upgraders, ExistsQuery(u)
    PROVE  SchemaInv'
<1>1. TypeOK
  BY DEF SchemaInv, VersionMeansObjects
<1>2. CASE "howling_version" \in objects
  BY <1>1, <1>2, UpgraderGoes DEF ExistsQuery, Goto, Unchanged, TypeOK
<1>3. CASE "howling_version" \notin objects
  <2>1. /\ pc' = [pc EXCEPT ![u] = "script"] /\ script' = [script EXCEPT ![u] = Place(Full, 1)]
        /\ UNCHANGED <<dialect, objects, rows, names, granted, deaths>>
    BY <1>3 DEF ExistsQuery, Goto, Unchanged
  <2>2. Full \in FileNumbers /\ 1 \in 1..Len(File(Full))
    BY FileShape DEF FileNumbers, Shaped
  <2>3. /\ Place(Full, 1) \in Places /\ Place(Full, 1) # End
        /\ Place(Full, 1).file = Full /\ Place(Full, 1).command = 1
    BY <2>2, PlacesAre
  <2>4. /\ pc'[u] = "script" /\ script'[u] = Place(Full, 1) /\ script' \in [Upgraders -> Places]
        /\ \A w \in Upgraders \ {u} : script'[w] = script[w]
    BY <1>1, <2>1, <2>3 DEF TypeOK
  <2>5. ScriptInStep(u)' /\ AfterInStep(u)' /\ ~ Inside(u)'
    BY <2>3, <2>4 DEF ScriptInStep, AfterInStep, Inside, EnumTables
  <2>6. "script" \in Labels
    BY DEF Labels
  <2>7. QED
    BY <1>1, <2>1, <2>4, <2>5, <2>6, UpgraderMoves DEF TypeOK
<1>4. QED
  BY <1>2, <1>3

\* With a version it starts the updates after it.
LEMMA UpgraderVersionInv ==
    ASSUME SchemaInv, NEW u \in Upgraders, UpgraderReadsVersion(u)
    PROVE  SchemaInv'
<1>1. TypeOK
  BY DEF SchemaInv, VersionMeansObjects
<1>2. CASE Len(rows) # 1
  BY <1>1, <1>2, UpgraderGoes DEF UpgraderReadsVersion, Goto, Unchanged, TypeOK
<1>3. CASE Len(rows) = 1
  <2> DEFINE v == rows[1]
  <2>1. /\ pc' = [pc EXCEPT ![u] = "script"] /\ script' = [script EXCEPT ![u] = UpdatesAfter(v)]
        /\ UNCHANGED <<dialect, objects, rows, names, granted, deaths>>
    BY <1>3 DEF UpgraderReadsVersion, Goto, Unchanged
  <2>2. rows # << >> /\ v \in Nat \ {0} /\ ObjectsOf(v) \subseteq objects
    <3>1. rows # << >>
      BY <1>3
    <3>2. QED
      BY <3>1, VersionInTable
  <2> HIDE DEF v
  <2>3. /\ pc'[u] = "script" /\ script'[u] = UpdatesAfter(v) /\ script' \in [Upgraders -> Places]
        /\ \A w \in Upgraders \ {u} : script'[w] = script[w]
    BY <1>1, <2>1, <2>2, AfterVersion DEF TypeOK
  <2>4. ScriptInStep(u)' /\ ~ Inside(u)'
    <3>1. CASE v >= Latest
      <4>1. script'[u] = End /\ AllObjects \subseteq objects'
        BY <2>1, <2>2, <2>3, <3>1, AfterVersion, ObjectsGrow
      <4>2. QED
        BY <4>1 DEF ScriptInStep, Inside
    <3>2. CASE v < Latest
      <4>1. /\ script'[u] # End /\ script'[u].file = v + 1 /\ script'[u].command = 1
            /\ rows' # << >> /\ rows'[1] = v
        BY <2>1, <2>2, <2>3, <3>2, AfterVersion DEF v
      <4>2. \A i \in 1..1 - 1 : FALSE
        OBVIOUS
      <4>3. rows'[1] >= script'[u].file - 1
        BY <2>2, <4>1
      <4>4. ~ Inside(u)'
        BY <4>1 DEF Inside
      <4>5. QED
        BY <4>1, <4>2, <4>3, <4>4 DEF ScriptInStep
    <3>3. QED
      BY <2>2, <3>1, <3>2, LatestIs
  <2>5. AfterInStep(u)'
    BY <2>3 DEF AfterInStep, EnumTables
  <2>6. "script" \in Labels
    BY DEF Labels
  <2>7. QED
    BY <1>1, <2>1, <2>3, <2>4, <2>5, <2>6, UpgraderMoves DEF TypeOK
<1>4. QED
  BY <1>2, <1>3

\* An upgrader moves on after its script, with all objects there.
LEMMA UpgraderGoesOn ==
    ASSUME SchemaInv, NEW u \in Upgraders, NEW label \in Labels \ {"script"},
           pc' = [pc EXCEPT ![u] = label],
           UNCHANGED <<dialect, objects, rows, deaths, script>>,
           names \subseteq names', names' \subseteq EnumTables,
           granted \subseteq granted', granted' \subseteq objects,
           AfterInStep(u)'
    PROVE  SchemaInv'
<1>1. TypeOK
  BY DEF SchemaInv, VersionMeansObjects
<1>2. pc'[u] = label
  BY <1>1 DEF TypeOK
<1>3. ScriptInStep(u)' /\ ~ Inside(u)'
  BY <1>2 DEF ScriptInStep, Inside
<1>4. QED
  BY <1>1, <1>3, UpgraderMoves DEF TypeOK

\* What follows the script.
LEMMA AfterScriptInv ==
    ASSUME SchemaInv, NEW u \in Upgraders, ScriptDone(u) \/ SyncEnum(u) \/ Grant(u) \/ Prepare(u)
    PROVE  SchemaInv'
<1>1. TypeOK /\ ScriptInStep(u) /\ AfterInStep(u) /\ u \notin Apps
  BY SchemaAssumption DEF SchemaInv, VersionMeansObjects
<1>2. u \in DOMAIN pc /\ names \subseteq EnumTables /\ granted \subseteq objects /\ objects \subseteq AllObjects
  BY <1>1 DEF TypeOK
<1>3. CASE ScriptDone(u)
  <2>1. pc' = [pc EXCEPT ![u] = AfterScript] /\ AllObjects \subseteq objects
        /\ UNCHANGED <<dialect, objects, rows, names, granted, deaths, script>>
    BY <1>1, <1>3 DEF ScriptDone, ScriptInStep, Goto, Unchanged
  <2>2. AfterScript \in Labels \ {"script"} /\ pc'[u] = AfterScript
    BY <1>2, <2>1 DEF AfterScript, Labels, EnumTables
  <2>3. AfterInStep(u)'
    BY <2>1, <2>2 DEF AfterInStep, AfterScript
  <2>4. QED
    BY <1>2, <2>1, <2>2, <2>3, UpgraderGoesOn
<1>4. CASE SyncEnum(u)
  <2>1. PICK table \in EnumTables :
          /\ pc[u] = table
          /\ IF table \in objects
             THEN /\ names' = names \cup {table}
                  /\ Goto(u, IF table = "enum_symbols" THEN "enum_actions" ELSE "grant")
             ELSE Goto(u, "failed") /\ UNCHANGED names
          /\ UNCHANGED <<dialect, objects, rows, granted, script, deaths>>
    BY <1>4 DEF SyncEnum
  <2>2. AllObjects \subseteq objects
    BY <1>1, <2>1 DEF AfterInStep
  <2>3. table \in objects
    BY <2>2, AllObjectsAre, <2>1 DEF EnumTables
  <2>4. CASE table = "enum_symbols"
    <3>1. pc' = [pc EXCEPT ![u] = "enum_actions"] /\ names' = names \cup {"enum_symbols"}
      BY <2>1, <2>3, <2>4 DEF Goto
    <3>2. pc'[u] = "enum_actions" /\ "enum_actions" \in Labels \ {"script"}
      BY <1>2, <3>1 DEF Labels, EnumTables
    <3>3. AfterInStep(u)'
      BY <2>1, <2>2, <3>1, <3>2 DEF AfterInStep
    <3>4. names \subseteq names' /\ names' \subseteq EnumTables
      BY <1>2, <3>1 DEF EnumTables
    <3>5. QED
      BY <1>2, <2>1, <3>1, <3>2, <3>3, <3>4, UpgraderGoesOn
  <2>5. CASE table = "enum_actions"
    <3>1. pc' = [pc EXCEPT ![u] = "grant"] /\ names' = names \cup {"enum_actions"}
      BY <2>1, <2>3, <2>5 DEF Goto
    <3>2. pc'[u] = "grant" /\ "grant" \in Labels \ {"script"}
      BY <1>2, <3>1 DEF Labels
    <3>3. "enum_symbols" \in names
      BY <1>1, <2>1, <2>5 DEF AfterInStep
    <3>4. names \subseteq names' /\ names' \subseteq EnumTables /\ EnumTables \subseteq names'
      BY <1>2, <3>1, <3>3 DEF EnumTables
    <3>5. AfterInStep(u)'
      BY <2>1, <2>2, <3>2, <3>4 DEF AfterInStep
    <3>6. QED
      BY <1>2, <2>1, <3>1, <3>2, <3>4, <3>5, UpgraderGoesOn
  <2>6. QED
    BY <2>4, <2>5 DEF EnumTables
<1>5. CASE Grant(u)
  <2>1. /\ pc[u] = "grant" /\ pc' = [pc EXCEPT ![u] = "prepare"] /\ granted' = granted \cup objects
        /\ UNCHANGED <<dialect, objects, rows, names, script, deaths>>
    BY <1>5 DEF Grant, Goto
  <2>2. AllObjects \subseteq objects /\ EnumTables \subseteq names
    BY <1>1, <2>1 DEF AfterInStep
  <2>3. pc'[u] = "prepare" /\ "prepare" \in Labels \ {"script"}
    BY <1>2, <2>1 DEF Labels
  <2>4. AfterInStep(u)'
    BY <2>1, <2>2, <2>3 DEF AfterInStep
  <2>5. QED
    BY <1>2, <2>1, <2>3, <2>4, UpgraderGoesOn
<1>6. CASE Prepare(u)
  <2>1. PICK label \in {"failed", "done"} : pc' = [pc EXCEPT ![u] = label]
    BY <1>1, <1>6 DEF Prepare, Goto
  <2>2. pc[u] = "prepare" /\ UNCHANGED <<dialect, objects, rows, names, granted, deaths, script>>
    BY <1>6 DEF Prepare, Unchanged
  <2>3. pc'[u] = label /\ label \in Labels \ {"script"}
    BY <1>2, <2>1 DEF Labels
  <2>4. AfterInStep(u)'
    BY <1>1, <2>2, <2>3 DEF AfterInStep
  <2>5. QED
    BY <1>2, <2>1, <2>2, <2>3, <2>4, UpgraderGoesOn
<1>7. QED
  BY <1>3, <1>4, <1>5, <1>6

\* Every step of an upgrader.
LEMMA UpgraderStepInv ==
    ASSUME SchemaInv, NEW u \in Upgraders, UpgraderStep(u)
    PROVE  SchemaInv'
BY UpgraderExistsInv, UpgraderVersionInv, ExecuteInv, AfterScriptInv DEF UpgraderStep

\* A death or a lost connection leaves what was committed.
LEMMA DiesInv ==
    ASSUME SchemaInv, NEW p \in Upgraders \cup Apps, Dies(p)
    PROVE  SchemaInv'
<1>1. TypeOK
  BY DEF SchemaInv, VersionMeansObjects
<1>2. deaths' \in 0..MaxDeaths
  BY <1>1, SchemaAssumption DEF Dies, TypeOK
<1>3. pc' = [pc EXCEPT ![p] = "failed"] /\ UNCHANGED <<dialect, objects, rows, names, granted>>
  BY DEF Dies, Goto
<1>4. CASE p \in Upgraders
  <2>1. script' = [script EXCEPT ![p] = End]
    BY <1>4 DEF Dies
  <2>2. script' \in [Upgraders -> Places] /\ \A w \in Upgraders \ {p} : script'[w] = script[w]
    BY <1>1, <2>1 DEF TypeOK, Places
  <2>3. QED
    BY <1>2, <1>3, <1>4, <2>2, UpgraderGoes
<1>5. CASE p \in Apps
  <2>1. script' = script
    BY <1>5, SchemaAssumption DEF Dies
  <2>2. "failed" \in Labels /\ "failed" \notin Connected
    BY DEF Labels, Connected
  <2>3. QED
    BY <1>2, <1>3, <1>5, <2>1, <2>2, AppMoves
<1>6. QED
  BY <1>4, <1>5

-----------------------------------------------------------------------------
(* The applications' steps, and those of everybody else.                   *)

\* Nothing of the schema moves.
LEMMA SchemaStays ==
    ASSUME SchemaInv, UNCHANGED <<schemaVars, pc>>, deaths' \in 0..MaxDeaths
    PROVE  SchemaInv'
<1> USE DEF schemaVars
<1>1. VersionMeansObjects'
  BY DEF SchemaInv, VersionMeansObjects, TypeOK
<1>2. ASSUME NEW u \in Upgraders
      PROVE  ScriptInStep(u)' /\ AfterInStep(u)' /\ (Inside(u)' <=> Inside(u))
  BY DEF SchemaInv, ScriptInStep, AfterInStep, Inside
<1>3. OneInside'
  BY <1>2 DEF SchemaInv, OneInside
<1>4. ASSUME NEW a \in Apps
      PROVE  AppInStep(a)'
  BY DEF SchemaInv, AppInStep
<1>5. QED
  BY <1>1, <1>2, <1>3, <1>4 DEF SchemaInv

\* The next release finds nobody of this one inside a file.
LEMMA LaterReleaseInv ==
    ASSUME SchemaInv, LaterRelease
    PROVE  SchemaInv'
<1>1. /\ rows = <<Latest>> /\ rows' = <<Latest + 1>>
      /\ UNCHANGED <<dialect, objects, names, granted, script, pc, deaths>>
  BY DEF LaterRelease
<1>2. rows # << >> /\ rows[1] = Latest /\ rows' # << >> /\ rows'[1] = Latest + 1 /\ DOMAIN rows' = {1}
  BY <1>1
<1>3. AllObjects \subseteq objects
  BY <1>2, VersionInTable, ObjectsGrow, LatestIs
<1>4. TypeOK'
  <2>1. TypeOK
    BY DEF SchemaInv, VersionMeansObjects
  <2>2. Latest + 1 \in 1..Latest + 1
    BY LatestIs
  <2>3. rows' \in {<<v>> : v \in 1..Latest + 1}
    BY <1>1, <2>2
  <2>4. QED
    BY <1>1, <2>1, <2>3 DEF TypeOK
<1>5. VersionMeansObjects'
  <2>1. ObjectsOf(rows'[1]) \subseteq AllObjects
    BY DEF ObjectsOf
  <2>2. QED
    BY <1>1, <1>2, <1>3, <1>4, <2>1 DEF VersionMeansObjects
<1>6. ASSUME NEW u \in Upgraders
      PROVE  ScriptInStep(u)' /\ ~ Inside(u)'
  <2>1. ScriptInStep(u) /\ pc'[u] = pc[u] /\ script'[u] = script[u] /\ objects' = objects
    BY <1>1 DEF SchemaInv
  <2>2. CASE pc[u] # "script" \/ script[u] = End
    BY <2>1, <2>2 DEF ScriptInStep, Inside
  <2>3. CASE pc[u] = "script" /\ script[u] # End
    <3>1. /\ script[u].file \in FileNumbers /\ script[u].command \in Nat
          /\ script[u].command > 1 => rows = RowsBefore(script[u].file)
      BY <2>3, AtCommand
    <3>2. rows # RowsBefore(script[u].file)
      <4>1. script[u].file - 1 # Latest
        BY <3>1, LatestIs
      <4>2. script[u].file # Full => RowsBefore(script[u].file)[1] = script[u].file - 1
        BY DEF RowsBefore
      <4>3. script[u].file = Full => RowsBefore(script[u].file) = << >>
        BY DEF RowsBefore
      <4>4. QED
        BY <1>2, <4>1, <4>2, <4>3
    <3>3. ~(script[u].command > 1)
      BY <3>1, <3>2
    <3>4. ~ Inside(u)'
      BY <2>1, <3>3 DEF Inside
    <3>5. \A k \in 1..script[u].command - 1 : FALSE
      BY <3>1, <3>3
    <3>6. rows'[1] >= script[u].file - 1
      BY <1>2, <3>1, LatestIs
    <3>7. QED
      BY <1>2, <2>1, <2>3, <3>3, <3>4, <3>5, <3>6 DEF ScriptInStep
  <2>4. QED
    BY <2>2, <2>3
<1>7. OneInside'
  BY <1>6 DEF OneInside
<1>8. ASSUME NEW u \in Upgraders
      PROVE  AfterInStep(u)'
  BY <1>1 DEF SchemaInv, AfterInStep
<1>9. ASSUME NEW a \in Apps
      PROVE  AppInStep(a)'
  BY <1>1 DEF SchemaInv, AppInStep
<1>10. QED
  BY <1>5, <1>6, <1>7, <1>8, <1>9 DEF SchemaInv

\* What an application's step does to its label.
AppGoes(a, label) == pc' = [pc EXCEPT ![a] = label] /\ UNCHANGED <<schemaVars, deaths>>

\* An application that moves from label to label changes nothing in the database.
LEMMA AppGoesInv ==
    ASSUME SchemaInv, NEW a \in Apps, NEW label \in Labels, AppGoes(a, label),
           \/ label = "failed"
           \/ pc[a] \notin {"idle", "failed"}
           \/ dialect = "postgres" => EnumTables \subseteq names /\ AllObjects \subseteq granted,
           label \in Connected => pc[a] \in Connected \/ AllObjects \subseteq objects
    PROVE  SchemaInv'
<1>1. label \in Connected => AllObjects \subseteq objects
  BY DEF SchemaInv, AppInStep
<1>2. deaths' \in 0..MaxDeaths
  BY DEF AppGoes, SchemaInv, VersionMeansObjects, TypeOK
<1>3. QED
  BY <1>1, <1>2, AppMoves DEF AppGoes, schemaVars

\* An application is started on a complete upgrade.
LEMMA StartAppInv ==
    ASSUME SchemaInv, NEW a \in Apps, StartApp(a)
    PROVE  SchemaInv'
<1>1. AppGoes(a, "waiting") /\ "waiting" \in Labels /\ "waiting" \notin Connected
  BY DEF StartApp, AppGoes, Goto, Unchanged, schemaVars, Labels, Connected
<1>2. dialect = "postgres" => EnumTables \subseteq names /\ AllObjects \subseteq granted
  BY DEF StartApp, SchemaInv, AfterInStep
<1>3. QED
  BY <1>1, <1>2, AppGoesInv

\* The labels an application's steps take it from and to.
AppMove(a) ==
    \/ \E label \in Labels \ {"details", "positions", "running"} :
         /\ AppGoes(a, label)
         /\ pc[a] \notin {"idle", "failed"}
         /\ label \in Connected => pc[a] \in Connected \/ (pc[a] = "version" /\ rows = <<Latest>>)
         /\ UNCHANGED accountVars
    \/ GetNumbers(a) \/ GetAccount(a) \/ LoadPositions(a)
    \/ UNCHANGED <<vars, accountVars>>

\* Every step of an application is such a move.
LEMMA AppStepMoves ==
    ASSUME NEW a \in Apps, TypeOK, AppStep(a) \/ PoolCannotGrow(a)
    PROVE  AppMove(a)
<1> USE DEF AppGoes, Goto, Unchanged, schemaVars, Labels, Connected
<1>1. CASE FindsStore(a) \/ GivesUp(a)
  BY <1>1 DEF AppMove, FindsStore, GivesUp, StopsWaiting
<1>2. CASE Sleeps(a)
  BY <1>2 DEF AppMove, Sleeps
<1>3. ASSUME NEW from \in Labels \ {"idle", "failed"}, NEW to \in Labels \ {"details", "positions", "running"},
             NEW c \in BOOLEAN, GoesOn(a, from, to, c),
             to \in Connected => from \in Connected
      PROVE  AppMove(a)
  BY <1>3 DEF AppMove, GoesOn
<1>4. CASE GetSecrets(a)
  BY <1>3, <1>4 DEF GetSecrets, HasSecrets
<1>5. CASE GetCredentials(a)
  BY <1>3, <1>5 DEF GetCredentials, HasSecrets
<1>6. CASE GetCertificate(a)
  BY <1>3, <1>6 DEF GetCertificate, Certifies
<1>7. CASE ConnectStep(a) /\ UNCHANGED <<baoVars, accountVars>>
  <2>1. CASE ExistsQuery(a)
    <3>1. a \notin Upgraders
      BY SchemaAssumption
    <3>2. PICK label \in {"version", "failed"} : AppGoes(a, label)
      BY <2>1, <3>1 DEF ExistsQuery
    <3>3. pc[a] = "exists"
      BY <2>1 DEF ExistsQuery
    <3>4. QED
      BY <1>7, <3>2, <3>3 DEF AppMove
  <2>2. CASE AppReadsVersion(a)
    BY <1>7, <2>2 DEF AppMove, AppReadsVersion, Accepts
  <2>3. CASE Prepare(a)
    <3>1. PICK label \in {"certificate", "failed"} : AppGoes(a, label)
      BY <2>3 DEF Prepare
    <3>2. pc[a] = "prepare"
      BY <2>3 DEF Prepare
    <3>3. QED
      BY <1>7, <3>1, <3>2 DEF AppMove
  <2>4. QED
    BY <1>7, <2>1, <2>2, <2>3 DEF ConnectStep
<1>8. CASE GetNumbers(a) \/ GetAccount(a) \/ LoadPositions(a)
  BY <1>8 DEF AppMove
<1>9. CASE PoolCannotGrow(a)
  BY <1>9 DEF PoolCannotGrow, GoesOn, AppMove
<1>10. QED
  BY <1>1, <1>2, <1>4, <1>5, <1>6, <1>7, <1>8, <1>9 DEF AppStep

\* Every step of an application.
LEMMA AppStepInv ==
    ASSUME SchemaInv, NEW a \in Apps, AppStep(a) \/ PoolCannotGrow(a)
    PROVE  SchemaInv'
<1>1. TypeOK /\ AppMove(a)
  BY AppStepMoves DEF SchemaInv, VersionMeansObjects
<1>2. ASSUME NEW label \in Labels, AppGoes(a, label), pc[a] \notin {"idle", "failed"},
             label \in Connected => pc[a] \in Connected \/ (pc[a] = "version" /\ rows = <<Latest>>)
      PROVE  SchemaInv'
  <2>1. rows = <<Latest>> => AllObjects \subseteq objects
    <3> SUFFICES ASSUME rows = <<Latest>>
                 PROVE  AllObjects \subseteq objects
      OBVIOUS
    <3>1. rows # << >> /\ rows[1] = Latest
      OBVIOUS
    <3>2. QED
      BY <3>1, VersionInTable, ObjectsGrow, LatestIs
  <2>2. QED
    BY <1>2, <2>1, AppGoesInv
<1>3. CASE GetNumbers(a)
  <2>1. AppGoes(a, "details") /\ pc[a] = "numbers" /\ "details" \in Labels /\ "numbers" \in Connected
    BY <1>3 DEF GetNumbers, AppGoes, Goto, Unchanged, schemaVars, Labels, Connected
  <2>2. QED
    BY <1>2, <2>1
<1>4. CASE GetAccount(a)
  <2>1. PICK label \in {"positions", "failed"} : AppGoes(a, label)
    BY <1>4 DEF GetAccount, AppGoes, Goto, Unchanged, schemaVars
  <2>2. pc[a] = "details" /\ label \in Labels /\ "details" \in Connected
    BY <1>4 DEF GetAccount, Labels, Connected
  <2>3. QED
    BY <1>2, <2>1, <2>2
<1>5. CASE LoadPositions(a)
  <2>1. AppGoes(a, "running") /\ pc[a] = "positions" /\ "running" \in Labels /\ "positions" \in Connected
    BY <1>5 DEF LoadPositions, GoesOn, AppGoes, Goto, Unchanged, schemaVars, Labels, Connected
  <2>2. QED
    BY <1>2, <2>1
<1>6. CASE UNCHANGED <<vars, accountVars>>
  BY <1>1, <1>6, SchemaStays DEF vars, TypeOK
<1>7. QED
  BY <1>1, <1>2, <1>3, <1>4, <1>5, <1>6 DEF AppMove

\* Every step keeps the schema's invariant.
LEMMA SchemaNextInv ==
    ASSUME SchemaInv, [Next]_startupVars
    PROVE  SchemaInv'
<1> USE SchemaAssumption
<1>1. deaths \in 0..MaxDeaths
  BY DEF SchemaInv, VersionMeansObjects, TypeOK
<1>2. ASSUME NEW u \in Upgraders, BringUp(u) \/ FailsToStart(u) \/ UpgraderStep(u)
      PROVE  SchemaInv'
  BY <1>2, StartUpgradeInv, FailsToStartInv, UpgraderStepInv DEF BringUp
<1>3. ASSUME NEW a \in Apps, StartApp(a) \/ AppStep(a) \/ PoolCannotGrow(a)
      PROVE  SchemaInv'
  BY <1>3, StartAppInv, AppStepInv
<1>4. ASSUME NEW p \in Upgraders \cup Apps, Dies(p)
      PROVE  SchemaInv'
  BY <1>4, DiesInv
<1>5. CASE BaoStarts \/ BaoInit
  BY <1>1, <1>5, SchemaStays DEF BaoStarts, BaoInit, vars
<1>6. CASE BaoDies
  BY <1>1, <1>6, SchemaStays DEF BaoDies
<1>7. CASE LaterRelease
  BY <1>7, LaterReleaseInv
<1>8. ASSUME NEW n \in Numbers, ChangeAccounts(n)
      PROVE  SchemaInv'
  BY <1>1, <1>8, SchemaStays DEF ChangeAccounts
<1>9. CASE UNCHANGED startupVars
  BY <1>1, <1>9, SchemaStays DEF startupVars, vars
<1>10. QED
  BY <1>2, <1>3, <1>4, <1>5, <1>6, <1>7, <1>8, <1>9 DEF Next

-----------------------------------------------------------------------------
(* The accounts.                                                           *)

\* Every set of natural numbers that has one has a least one.
LEMMA LeastNat ==
    ASSUME NEW T, T \subseteq Nat, T # {}
    PROVE  \E x \in T : \A y \in T : x <= y
<1>1. IsWellFoundedOn(OpToRel(<, Nat), Nat)
  BY NatLessThanWellFounded
<1>2. PICK x \in T : \A y \in T : ~ (<<y, x>> \in OpToRel(<, Nat))
  BY <1>1, WFMin
<1>3. ASSUME NEW y \in T
      PROVE  x <= y
  <2>1. <<y, x>> \in Nat \X Nat /\ ~(<<y, x>> \in OpToRel(<, Nat))
    BY <1>2
  <2>2. ~(y < x)
    BY <2>1 DEF OpToRel
  <2>3. QED
    BY <2>2
<1>4. QED
  BY <1>3

\* A listing names every account of its set once.
LEMMA ListingIs ==
    ASSUME NEW S \in SUBSET Numbers, NEW l \in Listings(S)
    PROVE  /\ Cardinality(S) \in Nat /\ DOMAIN l = 1..Cardinality(S) /\ Len(l) = Cardinality(S)
           /\ l \in [1..Cardinality(S) -> S]
           /\ \A i, j \in 1..Cardinality(S) : l[i] = l[j] => i = j
           /\ Cardinality(S) <= Cardinality(Numbers) /\ Cardinality(Numbers) \in Nat
<1>1. IsFiniteSet(Numbers)
  BY AccountsAssumption
<1>2. Cardinality(S) \in Nat /\ Cardinality(S) <= Cardinality(Numbers) /\ Cardinality(Numbers) \in Nat
  BY <1>1, FS_Subset, FS_CardinalityType
<1>3. l \in [1..Cardinality(S) -> S] /\ \A i, j \in DOMAIN l : l[i] = l[j] => i = j
  BY DEF Listings
<1>4. DOMAIN l = 1..Cardinality(S)
  BY <1>3
<1>5. Len(l) = Cardinality(S)
  BY <1>2, <1>3
<1>6. QED
  BY <1>2, <1>3, <1>4, <1>5

\* When the two answers are as long and the second names no account that the
\* first does not, each account of the first has its details in the second.
LEMMA EveryNumberDetailed ==
    ASSUME NEW S \in SUBSET Numbers, NEW l \in Listings(S),
           NEW T \in SUBSET Numbers, NEW m \in Listings(T),
           Len(l) = Len(m), \A i \in DOMAIN m : \E j \in DOMAIN l : l[j] = m[i],
           NEW i \in DOMAIN l
    PROVE  \E j \in DOMAIN m : m[j] = l[i]
<1> DEFINE n == Cardinality(S)
<1>1. /\ n \in Nat /\ DOMAIN l = 1..n /\ l \in [1..n -> S]
      /\ Cardinality(T) = n /\ DOMAIN m = 1..n /\ m \in [1..n -> T]
      /\ \A x, y \in 1..n : m[x] = m[y] => x = y
  BY ListingIs
<1>2. IsFiniteSet(S) /\ IsFiniteSet(1..n) /\ Cardinality(1..n) = n
  <2>1. IsFiniteSet(S)
    BY FS_Subset, AccountsAssumption
  <2> HIDE DEF n
  <2>2. IsFiniteSet(1..n) /\ Cardinality(1..n) = n
    BY <1>1, FS_Interval
  <2>3. QED
    BY <2>1, <2>2
<1> HIDE DEF n
<1>3. m \in [1..n -> S]
  <2>1. \A x \in 1..n : m[x] \in S
    BY <1>1
  <2>2. QED
    BY <1>1, <2>1
<1>4. m \in Injection(1..n, S)
  BY <1>1, <1>3 DEF Injection, IsInjective
<1>5. m \in Surjection(1..n, S)
  BY <1>2, <1>4, FS_Injection DEF n
<1>6. l[i] \in S
  BY <1>1
<1>7. QED
  BY <1>1, <1>5, <1>6 DEF Surjection

\* The account that get_account takes has the name, and the cash of its own
\* number.
LEMMA TakenAccount ==
    ASSUME NEW S \in SUBSET Numbers, NEW l \in Listings(S),
           NEW T \in SUBSET Numbers, NEW details \in Details(T),
           Matches(l, details), Named(Joined(l, details)) # {}
    PROVE  LET taken == Joined(l, details)[First(Named(Joined(l, details)))] IN
           /\ taken \in [number : Numbers, cash : Nat]
           /\ Name[taken.number] = Flag /\ taken.cash = Balance[taken.number]
<1> DEFINE accounts == Joined(l, details)
           k == First(Named(accounts))
<1>1. PICK m \in Listings(T) :
        details = [i \in DOMAIN m |-> [number |-> m[i], cash |-> Balance[m[i]]]]
  BY DEF Details
<1>2. /\ DOMAIN l = 1..Cardinality(S) /\ Cardinality(S) \in Nat
      /\ DOMAIN m = 1..Cardinality(T) /\ m \in [1..Cardinality(T) -> T] /\ Len(m) = Cardinality(T)
      /\ Cardinality(T) \in Nat
  BY ListingIs
<1>3. /\ DOMAIN details = DOMAIN m /\ Len(details) = Len(m)
      /\ \A i \in DOMAIN m : details[i].number = m[i] /\ details[i].cash = Balance[m[i]]
                             /\ details[i] = [number |-> m[i], cash |-> Balance[m[i]]]
  BY <1>1, <1>2
<1>4. Len(l) = Len(m) /\ \A i \in DOMAIN m : \E j \in DOMAIN l : l[j] = m[i]
  BY <1>3 DEF Matches
<1>5. DOMAIN accounts = DOMAIN l
  BY DEF Joined
<1>6. k \in Named(accounts)
  <2>1. Named(accounts) \subseteq Nat
    BY <1>2, <1>5 DEF Named
  <2>2. \E i \in Named(accounts) : \A j \in Named(accounts) : i <= j
    BY <2>1, LeastNat
  <2>3. QED
    BY <2>2 DEF First
<1>7. k \in DOMAIN l /\ Name[accounts[k].number] = Flag
  BY <1>5, <1>6 DEF Named
<1>8. PICK j \in DOMAIN m : accounts[k] = details[j]
  <2>1. accounts[k] = details[CHOOSE j \in DOMAIN details : details[j].number = l[k]]
    BY <1>7 DEF Joined
  <2>2. \E j \in DOMAIN m : m[j] = l[k]
    BY <1>4, <1>7, EveryNumberDetailed
  <2>3. (CHOOSE j \in DOMAIN details : details[j].number = l[k]) \in DOMAIN m
    BY <1>3, <2>2
  <2>4. QED
    BY <2>1, <2>3
<1>9. m[j] \in Numbers /\ Balance[m[j]] \in Nat
  BY <1>2, AccountsAssumption
<1>10. QED
  BY <1>3, <1>7, <1>8, <1>9

-----------------------------------------------------------------------------
(* The executor's part of the invariant.                                   *)

\* What holds of the accounts and of the waiting.
ExecutorInv ==
    /\ StartupTypeOK
    /\ \A a \in Apps : AccountInStep(a) /\ WaitInStep(a)

\* Whoever does not come to hold an account keeps what is known of it.
LEMMA AccountKept ==
    ASSUME NEW a \in Apps, AccountInStep(a),
           \/ pc'[a] \notin {"details", "positions", "running"}
           \/ pc'[a] = pc[a]
           \/ pc[a] = "positions" /\ pc'[a] = "running",
           numbers'[a] = numbers[a], account'[a] = account[a]
    PROVE  AccountInStep(a)'
BY DEF AccountInStep

\* A step that leaves the waits alone, and the answers as well.
LEMMA ExecutorStays ==
    ASSUME ExecutorInv, UNCHANGED <<waited, delay, numbers, account>>,
           bao' \in StoreStates, filled' \in BOOLEAN, open' \subseteq Numbers,
           \A a \in Apps :
              \/ pc'[a] \notin {"details", "positions", "running"}
              \/ pc'[a] = pc[a]
              \/ pc[a] = "positions" /\ pc'[a] = "running"
    PROVE  ExecutorInv'
<1>1. StartupTypeOK'
  BY DEF ExecutorInv, StartupTypeOK
<1>2. ASSUME NEW a \in Apps
      PROVE  AccountInStep(a)' /\ WaitInStep(a)'
  BY AccountKept DEF ExecutorInv, WaitInStep
<1>3. QED
  BY <1>1, <1>2 DEF ExecutorInv

\* A step of a wait: 1.2 times a delay is no shorter.
LEMMA WaitInv ==
    ASSUME TypeOK, ExecutorInv, NEW a \in Apps,
           StartApp(a) \/ FindsStore(a) \/ GivesUp(a) \/ Sleeps(a)
    PROVE  ExecutorInv'
<1>1. /\ waited \in [Apps -> 0..Timeout + MaxDelay] /\ delay \in [Apps -> FirstDelay..MaxDelay]
      /\ FirstDelay \in Nat \ {0} /\ MaxDelay \in Nat \ {0} /\ Timeout \in Nat /\ FirstDelay <= MaxDelay
  BY StartupAssumption DEF ExecutorInv, StartupTypeOK
<1>2. UNCHANGED <<bao, filled, open, numbers, account>>
  BY DEF StartApp, FindsStore, GivesUp, StopsWaiting, Sleeps, storeVars, accountVars
<1>3. /\ waited' \in [Apps -> 0..Timeout + MaxDelay] /\ delay' \in [Apps -> FirstDelay..MaxDelay]
      /\ \A b \in Apps : WaitInStep(b)'
  <2>1. CASE StartApp(a) \/ FindsStore(a) \/ GivesUp(a)
    <3>1. waited' = [waited EXCEPT ![a] = 0] /\ delay' = [delay EXCEPT ![a] = FirstDelay]
      BY <2>1 DEF StartApp, FindsStore, GivesUp, StopsWaiting
    <3>2. \A b \in Apps : waited'[b] = 0 \/ waited'[b] = waited[b]
      BY <1>1, <3>1
    <3>3. QED
      BY <1>1, <3>1, <3>2 DEF ExecutorInv, WaitInStep
  <2>2. CASE Sleeps(a)
    <3>1. /\ waited' = [waited EXCEPT ![a] = waited[a] + delay[a]]
          /\ delay' = [delay EXCEPT ![a] = NextDelay(delay[a])]
          /\ ~ (waited[a] >= Timeout)
      BY <2>2 DEF Sleeps, TimedOut
    <3>2. waited[a] \in Nat /\ delay[a] \in Nat /\ delay[a] >= FirstDelay /\ delay[a] <= MaxDelay
      BY <1>1
    <3>3. waited[a] + delay[a] \in 0..Timeout + MaxDelay /\ waited[a] + delay[a] < Timeout + MaxDelay
      BY <1>1, <3>1, <3>2
    <3>4. NextDelay(delay[a]) \in FirstDelay..MaxDelay
      <4>1. GrownDelay(delay[a]) \in Nat /\ GrownDelay(delay[a]) >= delay[a]
        BY <3>2 DEF GrownDelay
      <4>2. QED
        BY <1>1, <3>2, <4>1 DEF NextDelay
    <3>5. /\ waited' \in [Apps -> 0..Timeout + MaxDelay] /\ delay' \in [Apps -> FirstDelay..MaxDelay]
          /\ waited'[a] = waited[a] + delay[a] /\ \A b \in Apps \ {a} : waited'[b] = waited[b]
      BY <1>1, <3>1, <3>3, <3>4
    <3>6. QED
      BY <3>3, <3>5 DEF ExecutorInv, WaitInStep
  <2>3. QED
    BY <2>1, <2>2
<1>4. StartupTypeOK'
  BY <1>2, <1>3 DEF ExecutorInv, StartupTypeOK
<1>5. \A b \in Apps : pc'[b] = pc[b] \/ pc'[b] \in {"waiting", "secrets", "failed"}
  BY DEF StartApp, FindsStore, GivesUp, StopsWaiting, Sleeps, Goto, vars, TypeOK
<1>6. \A b \in Apps : AccountInStep(b)'
  BY <1>2, <1>5, AccountKept DEF ExecutorInv
<1>7. QED
  BY <1>3, <1>4, <1>6 DEF ExecutorInv

\* The first answer.
LEMMA GetNumbersInv ==
    ASSUME TypeOK, ExecutorInv, NEW a \in Apps, GetNumbers(a)
    PROVE  ExecutorInv'
<1>1. PICK l \in Listings(open) : numbers' = [numbers EXCEPT ![a] = l]
  BY DEF GetNumbers
<1>2. pc' = [pc EXCEPT ![a] = "details"] /\ UNCHANGED <<bao, filled, waited, delay, open, account>>
  BY DEF GetNumbers, Goto, storeVars, baoVars
<1>3. open \in SUBSET Numbers
  BY DEF ExecutorInv, StartupTypeOK
<1>4. l \in UNION {[1..n -> Numbers] : n \in 0..Cardinality(Numbers)}
  <2>1. /\ l \in [1..Cardinality(open) -> open] /\ Cardinality(open) \in 0..Cardinality(Numbers)
    BY <1>3, ListingIs
  <2>2. l \in [1..Cardinality(open) -> Numbers]
    BY <1>3, <2>1
  <2>3. QED
    BY <2>1, <2>2
<1>5. StartupTypeOK'
  BY <1>1, <1>2, <1>4 DEF ExecutorInv, StartupTypeOK
<1>6. numbers'[a] = l /\ pc'[a] = "details"
  BY <1>1, <1>2 DEF ExecutorInv, StartupTypeOK, TypeOK
<1>7. AccountInStep(a)'
  BY <1>3, <1>6 DEF AccountInStep
<1>8. ASSUME NEW b \in Apps, b # a
      PROVE  AccountInStep(b)'
  <2>1. pc'[b] = pc[b] /\ numbers'[b] = numbers[b] /\ account'[b] = account[b]
    BY <1>1, <1>2, <1>8 DEF ExecutorInv, StartupTypeOK, TypeOK
  <2>2. QED
    BY <2>1, AccountKept DEF ExecutorInv
<1>9. QED
  BY <1>2, <1>5, <1>7, <1>8 DEF ExecutorInv, WaitInStep

\* The second.
LEMMA GetAccountInv ==
    ASSUME TypeOK, ExecutorInv, NEW a \in Apps, GetAccount(a)
    PROVE  ExecutorInv'
<1>1. PICK details \in Details(open) :
        LET accounts == Joined(numbers[a], details)
            found == Matches(numbers[a], details) /\ Named(accounts) # {} IN
        /\ Goto(a, IF found THEN "positions" ELSE "failed")
        /\ account' = [account EXCEPT ![a] = IF found THEN accounts[First(Named(accounts))] ELSE NoAccount]
  BY DEF GetAccount
<1> DEFINE found == Matches(numbers[a], details) /\ Named(Joined(numbers[a], details)) # {}
           taken == Joined(numbers[a], details)[First(Named(Joined(numbers[a], details)))]
<1>2. /\ pc' = [pc EXCEPT ![a] = IF found THEN "positions" ELSE "failed"]
      /\ account' = [account EXCEPT ![a] = IF found THEN taken ELSE NoAccount]
  BY <1>1 DEF Goto
<1>3. numbers' = [numbers EXCEPT ![a] = << >>] /\ pc[a] = "details" /\ UNCHANGED <<bao, filled, waited, delay, open>>
  BY DEF GetAccount, storeVars, baoVars
<1>4. open \in SUBSET Numbers /\ AccountInStep(a)
  BY DEF ExecutorInv, StartupTypeOK
<1>5. PICK S \in SUBSET Numbers : numbers[a] \in Listings(S)
  BY <1>3, <1>4 DEF AccountInStep
<1>6. found => /\ taken \in [number : Numbers, cash : Nat]
               /\ Name[taken.number] = Flag /\ taken.cash = Balance[taken.number]
  BY <1>4, <1>5, TakenAccount
<1> HIDE DEF found, taken
<1>7. << >> \in UNION {[1..n -> Numbers] : n \in 0..Cardinality(Numbers)}
  <2>1. Cardinality(Numbers) \in Nat
    BY AccountsAssumption, FS_CardinalityType
  <2>2. << >> \in [1..0 -> Numbers] /\ 0 \in 0..Cardinality(Numbers)
    BY <2>1
  <2>3. QED
    BY <2>2
<1>8. StartupTypeOK'
  BY <1>2, <1>3, <1>6, <1>7 DEF ExecutorInv, StartupTypeOK
<1>9. pc'[a] = (IF found THEN "positions" ELSE "failed") /\ (found => account'[a] = taken)
  BY <1>2 DEF ExecutorInv, StartupTypeOK, TypeOK
<1>10. AccountInStep(a)'
  BY <1>6, <1>9 DEF AccountInStep
<1>11. ASSUME NEW b \in Apps, b # a
       PROVE  AccountInStep(b)'
  <2>1. pc'[b] = pc[b] /\ numbers'[b] = numbers[b] /\ account'[b] = account[b]
    BY <1>2, <1>3, <1>11 DEF ExecutorInv, StartupTypeOK, TypeOK
  <2>2. QED
    BY <2>1, AccountKept DEF ExecutorInv
<1>12. QED
  BY <1>3, <1>8, <1>10, <1>11 DEF ExecutorInv, WaitInStep

\* Who moves whom: an upgrader's step leaves the applications where they are.
LEMMA OnlyItself ==
    ASSUME TypeOK, NEW u \in Upgraders, StartUpgrade(u) \/ FailsToStart(u) \/ UpgraderStep(u),
           NEW q \in (Upgraders \cup Apps) \ {u}
    PROVE  pc'[q] = pc[q]
<1>1. ASSUME NEW label, Goto(u, label)
      PROVE  pc'[q] = pc[q]
  BY <1>1 DEF TypeOK, Goto
<1>2. CASE StartUpgrade(u)
  BY <1>1, <1>2 DEF StartUpgrade
<1>3. CASE ExistsQuery(u)
  BY <1>1, <1>3 DEF ExistsQuery
<1>4. CASE UpgraderReadsVersion(u)
  BY <1>1, <1>4 DEF UpgraderReadsVersion
<1>5. CASE Execute(u)
  BY <1>1, <1>5 DEF Execute
<1>6. CASE ScriptDone(u)
  BY <1>1, <1>6 DEF ScriptDone
<1>7. CASE SyncEnum(u)
  BY <1>1, <1>7 DEF SyncEnum
<1>8. CASE Grant(u)
  BY <1>1, <1>8 DEF Grant
<1>9. CASE Prepare(u)
  BY <1>1, <1>9 DEF Prepare
<1>10. CASE FailsToStart(u)
  BY <1>1, <1>10 DEF FailsToStart, GoesOn
<1>11. QED
  BY <1>2, <1>3, <1>4, <1>5, <1>6, <1>7, <1>8, <1>9, <1>10 DEF UpgraderStep

\* The steps of an application, account lookup and waiting included.
LEMMA ExecutorAppInv ==
    ASSUME TypeOK, ExecutorInv, NEW a \in Apps, StartApp(a) \/ AppStep(a) \/ PoolCannotGrow(a)
    PROVE  ExecutorInv'
<1>1. CASE StartApp(a) \/ FindsStore(a) \/ GivesUp(a) \/ Sleeps(a)
  BY <1>1, WaitInv
<1>2. CASE GetNumbers(a) \/ GetAccount(a)
  BY <1>2, GetNumbersInv, GetAccountInv
<1>3. ASSUME NEW label,
             pc' = [pc EXCEPT ![a] = label], UNCHANGED <<baoVars, accountVars>>,
             \/ label \notin {"details", "positions", "running"}
             \/ label = "running" /\ pc[a] = "positions"
      PROVE  ExecutorInv'
  <2>1. \A b \in Apps : \/ pc'[b] \notin {"details", "positions", "running"}
                        \/ pc'[b] = pc[b]
                        \/ pc[b] = "positions" /\ pc'[b] = "running"
    BY <1>3 DEF TypeOK
  <2>2. bao' \in StoreStates /\ filled' \in BOOLEAN /\ open' \subseteq Numbers /\ UNCHANGED <<waited, delay, numbers, account>>
    BY <1>3 DEF storeVars, baoVars, accountVars, ExecutorInv, StartupTypeOK
  <2>3. QED
    BY <2>1, <2>2, ExecutorStays
<1>4. CASE GetSecrets(a) \/ GetCredentials(a) \/ GetCertificate(a) \/ LoadPositions(a) \/ PoolCannotGrow(a)
  BY <1>3, <1>4
  DEF GetSecrets, GetCredentials, GetCertificate, LoadPositions, PoolCannotGrow, GoesOn, Goto
<1>5. CASE ConnectStep(a) /\ UNCHANGED <<baoVars, accountVars>>
  <2>1. a \notin Upgraders
    BY SchemaAssumption
  <2>2. PICK label \in {"version", "prepare", "certificate", "failed"} : pc' = [pc EXCEPT ![a] = label]
    BY <1>5, <2>1 DEF ConnectStep, ExistsQuery, AppReadsVersion, Prepare, Goto
  <2>3. QED
    BY <1>3, <1>5, <2>2
<1>6. QED
  BY <1>1, <1>2, <1>4, <1>5 DEF AppStep

\* Every step of the deployment.
LEMMA ExecutorNextInv ==
    ASSUME TypeOK, ExecutorInv, [Next]_startupVars
    PROVE  ExecutorInv'
<1> USE DEF storeVars, baoVars, accountVars
<1>1. bao \in StoreStates /\ filled \in BOOLEAN /\ open \subseteq Numbers
  BY DEF ExecutorInv, StartupTypeOK
<1>2. ASSUME NEW u \in Upgraders,
             BringUp(u) \/ FailsToStart(u) \/ (UpgraderStep(u) /\ UNCHANGED <<baoVars, accountVars>>)
      PROVE  ExecutorInv'
  <2>1. \A a \in Apps : a # u
    BY SchemaAssumption
  <2>2. \A a \in Apps : pc'[a] = pc[a]
    BY <1>2, <2>1, OnlyItself DEF BringUp
  <2>3. QED
    BY <1>1, <1>2, <2>2, ExecutorStays DEF BringUp, FailsToStart, GoesOn
<1>3. ASSUME NEW a \in Apps, StartApp(a) \/ AppStep(a) \/ PoolCannotGrow(a)
      PROVE  ExecutorInv'
  BY <1>3, ExecutorAppInv
<1>4. ASSUME NEW p \in Upgraders \cup Apps, Dies(p), UNCHANGED <<baoVars, accountVars>>
      PROVE  ExecutorInv'
  <2>1. \A a \in Apps : pc'[a] = pc[a] \/ pc'[a] = "failed"
    BY <1>4 DEF Dies, Goto, TypeOK
  <2>2. QED
    BY <1>1, <1>4, <2>1, ExecutorStays
<1>5. CASE BaoStarts \/ BaoInit \/ BaoDies
  BY <1>1, <1>5, ExecutorStays DEF BaoStarts, BaoInit, BaoDies, vars, StoreStates
<1>6. CASE LaterRelease
  BY <1>1, <1>6, ExecutorStays DEF LaterRelease
<1>7. ASSUME NEW n \in Numbers, ChangeAccounts(n)
      PROVE  ExecutorInv'
  <2>1. open' \subseteq Numbers
    BY <1>1, <1>7 DEF ChangeAccounts
  <2>2. QED
    BY <1>1, <1>7, <2>1, ExecutorStays DEF ChangeAccounts
<1>8. CASE UNCHANGED startupVars
  BY <1>1, <1>8, ExecutorStays DEF startupVars, vars
<1>9. QED
  BY <1>2, <1>3, <1>4, <1>5, <1>6, <1>7, <1>8 DEF Next

-----------------------------------------------------------------------------
(* The invariant, and what the run checks.                                 *)

\* The databases a deployment may start with.
LEMMA SchemaInitInv == Init => SchemaInv
<1> SUFFICES ASSUME Init
             PROVE  SchemaInv
  OBVIOUS
<1>1. /\ dialect \in {"postgres", "sqlite"} /\ names = {} /\ granted = {} /\ deaths = 0
      /\ pc = [p \in Upgraders \cup Apps |-> "idle"] /\ script = [u \in Upgraders |-> End]
      /\ \/ rows = << >> /\ objects = {}
         \/ \E v \in 1..Latest : rows = <<v>> /\ objects = ObjectsOf(v)
         \/ rows = <<Latest + 1>> /\ objects = AllObjects
  BY DEF Init, SchemaInit
<1>2. /\ objects \subseteq AllObjects
      /\ rows = << >> \/ \E v \in 1..Latest + 1 : rows = <<v>> /\ ObjectsOf(v) \subseteq objects
  <2>1. \A v \in Nat : ObjectsOf(v) \subseteq AllObjects
    BY DEF ObjectsOf
  <2>2. 1..Latest \subseteq 1..Latest + 1 /\ Latest + 1 \in 1..Latest + 1 /\ 1..Latest + 1 \subseteq Nat
    BY LatestIs
  <2>3. QED
    BY <1>1, <2>1, <2>2
<1>3. TypeOK
  BY <1>1, <1>2, SchemaAssumption DEF TypeOK, Labels, Places
<1>4. \A i \in DOMAIN rows : ObjectsOf(rows[i]) \subseteq objects
  BY <1>2
<1>5. \A p \in Upgraders \cup Apps : pc[p] = "idle"
  BY <1>1
<1>6. \A u \in Upgraders : ScriptInStep(u) /\ AfterInStep(u) /\ ~ Inside(u)
  BY <1>5 DEF ScriptInStep, AfterInStep, Inside, EnumTables
<1>7. \A a \in Apps : AppInStep(a)
  BY <1>5 DEF AppInStep, Connected
<1>8. QED
  BY <1>3, <1>4, <1>6, <1>7 DEF SchemaInv, VersionMeansObjects, OneInside

\* Nobody has waited or looked up an account.
LEMMA ExecutorInitInv == Init => ExecutorInv
<1> SUFFICES ASSUME Init
             PROVE  ExecutorInv
  OBVIOUS
<1>1. \A a \in Apps : pc[a] = "idle" /\ waited[a] = 0
  BY DEF Init, SchemaInit
<1>2. << >> \in UNION {[1..n -> Numbers] : n \in 0..Cardinality(Numbers)}
  <2>1. Cardinality(Numbers) \in Nat
    BY AccountsAssumption, FS_CardinalityType
  <2>2. << >> \in [1..0 -> Numbers] /\ 0 \in 0..Cardinality(Numbers)
    BY <2>1
  <2>3. QED
    BY <2>2
<1>3. StartupTypeOK
  <2>1. waited \in [Apps -> 0..Timeout + MaxDelay] /\ delay \in [Apps -> FirstDelay..MaxDelay]
    BY StartupAssumption DEF Init
  <2>2. bao \in StoreStates /\ filled \in BOOLEAN /\ open \subseteq Numbers
    BY DEF Init, StoreStates
  <2>3. QED
    BY <1>2, <2>1, <2>2 DEF Init, StartupTypeOK
<1>4. \A a \in Apps : AccountInStep(a) /\ WaitInStep(a)
  BY <1>1, StartupAssumption DEF AccountInStep, WaitInStep
<1>5. QED
  BY <1>3, <1>4 DEF ExecutorInv

\* Every step keeps the whole invariant.
LEMMA NextInv == StartupInv /\ [Next]_startupVars => StartupInv'
<1> SUFFICES ASSUME StartupInv, [Next]_startupVars
             PROVE  StartupInv'
  OBVIOUS
<1>1. SchemaInv /\ TypeOK /\ ExecutorInv
  BY DEF StartupInv, SchemaInv, VersionMeansObjects, ExecutorInv
<1>2. SchemaInv' /\ ExecutorInv'
  BY <1>1, SchemaNextInv, ExecutorNextInv
<1>3. QED
  BY <1>2 DEF StartupInv, ExecutorInv

\* The inductive invariant, for every deployment.
THEOREM StartupInvariant == Spec => []StartupInv
<1>1. Init => StartupInv
  BY SchemaInitInv, ExecutorInitInv DEF StartupInv, ExecutorInv
<1>2. QED
  BY <1>1, NextInv, PTL DEF Spec

\* upgrade_schema, statement by statement: however many upgraders interleave
\* or die, the version never claims an object that does not exist.
THEOREM VersionNeverAhead == Spec => []VersionMeansObjects
<1>1. StartupInv => VersionMeansObjects
  BY DEF StartupInv, SchemaInv
<1>2. QED
  BY <1>1, StartupInvariant, PTL

\* check_schema_version and the order of upgrade_schema: an application that
\* runs finds every object, name and privilege.
THEOREM RunningFindsEverything == Spec => []AppFindsEverything
<1>1. StartupInv => AppFindsEverything
  <2> SUFFICES ASSUME StartupInv
               PROVE  AppFindsEverything
    OBVIOUS
  <2>1. StartupTypeOK /\ TypeOK
    BY DEF StartupInv, SchemaInv, VersionMeansObjects
  <2>2. ASSUME NEW a \in Apps, pc[a] = "running"
        PROVE  /\ objects = AllObjects
               /\ dialect = "postgres" => names = EnumTables /\ granted = AllObjects
    <3>1. AppInStep(a)
      BY DEF StartupInv, SchemaInv
    <3>2. QED
      BY <2>1, <2>2, <3>1 DEF AppInStep, Connected, TypeOK
  <2>3. QED
    BY <2>1, <2>2 DEF AppFindsEverything
<1>2. QED
  BY <1>1, StartupInvariant, PTL

\* get_accounts and get_account: however the two answers are ordered and
\* whatever accounts open and close between them, an executor's account has its
\* flag's name and its own cash.
THEOREM ExecutorHasItsAccount == Spec => []AccountIsItsOwn
<1>1. StartupInv => AccountIsItsOwn
  BY DEF StartupInv, AccountInStep, AccountIsItsOwn
<1>2. QED
  BY <1>1, StartupInvariant, PTL

\* The scripts of upgraders that read different versions, side by side: the
\* version never goes back.
THEOREM VersionNeverGoesBack == Spec => VersionMonotone
<1> DEFINE Grows == \A i \in DOMAIN rows : i \in DOMAIN rows' /\ rows'[i] >= rows[i]
<1>1. ASSUME StartupInv, [Next]_startupVars
      PROVE  Grows
  <2>1. SchemaInv
    BY <1>1 DEF StartupInv
  <2>2. \A i \in DOMAIN rows : rows[i] \in Nat
    BY <2>1, VersionInTable
  <2>3. CASE UNCHANGED rows
    BY <2>2, <2>3
  <2>4. CASE LaterRelease
    <3>1. rows = <<Latest>> /\ rows' = <<Latest + 1>>
      BY <2>4 DEF LaterRelease
    <3>2. QED
      BY <3>1, LatestIs
  <2>5. ASSUME NEW u \in Upgraders, Execute(u)
        PROVE  Grows
    <3>1. CASE Succeeds(Command(script[u])) /\ script[u].command < Len(File(script[u].file))
      BY <2>1, <2>3, <2>5, <3>1, CreateInv
    <3>2. CASE Succeeds(Command(script[u])) /\ ~(script[u].command < Len(File(script[u].file)))
      <4>1. rows = << >> \/ \E v \in Nat : rows = <<v>> /\ rows' = <<v + 1>>
        BY <2>1, <2>5, <3>2, VersionInv
      <4>2. CASE rows = << >>
        BY <4>2
      <4>3. ASSUME NEW v \in Nat, rows = <<v>>, rows' = <<v + 1>>
            PROVE  Grows
        BY <4>3
      <4>4. QED
        BY <4>1, <4>2, <4>3
    <3>3. CASE ~ Succeeds(Command(script[u]))
      BY <2>3, <2>5, <3>3 DEF Execute
    <3>4. QED
      BY <3>1, <3>2, <3>3
  <2> HIDE DEF Grows
  <2>6. ASSUME NEW u \in Upgraders, BringUp(u) \/ FailsToStart(u) \/ UpgraderStep(u)
        PROVE  Grows
    BY <2>3, <2>5, <2>6
    DEF BringUp, FailsToStart, GoesOn, StartUpgrade, UpgraderStep, ExistsQuery, UpgraderReadsVersion, ScriptDone, SyncEnum,
        Grant, Prepare, Unchanged
  <2>7. ASSUME NEW a \in Apps, StartApp(a) \/ AppStep(a) \/ PoolCannotGrow(a)
        PROVE  Grows
    BY <2>3, <2>7
    DEF StartApp, AppStep, PoolCannotGrow, FindsStore, GivesUp, StopsWaiting, Sleeps, GetSecrets, GetCredentials,
        GetCertificate, GoesOn, ConnectStep, ExistsQuery, AppReadsVersion, Prepare, GetNumbers, GetAccount,
        LoadPositions, Unchanged, vars, schemaVars
  <2>8. ASSUME NEW p \in Upgraders \cup Apps, Dies(p)
        PROVE  Grows
    BY <2>3, <2>8 DEF Dies
  <2>9. CASE BaoStarts \/ BaoInit \/ BaoDies \/ UNCHANGED startupVars \/ \E n \in Numbers : ChangeAccounts(n)
    BY <2>3, <2>9 DEF BaoStarts, BaoInit, BaoDies, ChangeAccounts, startupVars, vars, schemaVars
  <2>10. QED
    BY <1>1, <2>4, <2>6, <2>7, <2>8, <2>9 DEF Next
<1>2. QED
  BY <1>1, StartupInvariant, PTL DEF Spec, VersionMonotone

\* wait_for_ready, whatever the delays, the deadline and the store do: who
\* gives up has looked at or after the deadline, and less than MAX_DELAY late.
THEOREM WaitsLongEnough == Spec => WaitIsPatient
<1> DEFINE Patient == \A a \in Apps : pc[a] = "waiting" /\ pc'[a] = "failed" /\ deaths' = deaths =>
                          ~Healthy /\ waited[a] \in Timeout..Timeout + MaxDelay - 1
<1>1. ASSUME StartupInv, [Next]_startupVars
      PROVE  Patient
  <2> SUFFICES ASSUME NEW a \in Apps, pc[a] = "waiting", pc'[a] = "failed", deaths' = deaths
               PROVE  ~Healthy /\ waited[a] \in Timeout..Timeout + MaxDelay - 1
    OBVIOUS
  <2>1. TypeOK /\ WaitInStep(a) /\ waited[a] \in Nat /\ deaths \in Nat
    BY <1>1, SchemaAssumption
    DEF StartupInv, SchemaInv, VersionMeansObjects, StartupTypeOK, TypeOK
  <2>2. CASE GivesUp(a)
    BY <2>1, <2>2, StartupAssumption DEF GivesUp, TimedOut, WaitInStep
  <2>3. ASSUME NEW u \in Upgraders, BringUp(u) \/ FailsToStart(u) \/ UpgraderStep(u)
        PROVE  FALSE
    <3>1. a # u
      BY SchemaAssumption
    <3>2. pc'[a] = pc[a]
      BY <2>1, <2>3, <3>1, OnlyItself DEF BringUp
    <3>3. QED
      BY <3>2
  <2>4. ASSUME NEW b \in Apps, StartApp(b) \/ AppStep(b) \/ PoolCannotGrow(b)
        PROVE  GivesUp(a)
    <3>1. ASSUME NEW label, pc' = [pc EXCEPT ![b] = label], label # "failed" \/ pc[b] # "waiting"
          PROVE  FALSE
      <4>1. pc'[a] = IF a = b THEN label ELSE pc[a]
        BY <2>1, <3>1 DEF TypeOK
      <4>2. QED
        BY <3>1, <4>1
    <3>2. CASE StartApp(b) \/ FindsStore(b)
      BY <3>1, <3>2 DEF StartApp, FindsStore, StopsWaiting, Goto
    <3>3. CASE GivesUp(b)
      <4>1. a = b
        BY <2>1, <3>3 DEF GivesUp, StopsWaiting, Goto, TypeOK
      <4>2. QED
        BY <3>3, <4>1
    <3>4. CASE Sleeps(b)
      BY <3>4 DEF Sleeps, vars
    <3>5. CASE GetSecrets(b) \/ GetCredentials(b) \/ GetCertificate(b) \/ LoadPositions(b) \/ PoolCannotGrow(b)
      BY <3>1, <3>5
      DEF GetSecrets, GetCredentials, GetCertificate, LoadPositions, PoolCannotGrow, GoesOn, Goto
    <3>6. CASE ConnectStep(b)
      BY <3>1, <3>6 DEF ConnectStep, ExistsQuery, AppReadsVersion, Prepare, Goto
    <3>7. CASE GetNumbers(b) \/ GetAccount(b)
      BY <3>1, <3>7 DEF GetNumbers, GetAccount, Goto
    <3>8. QED
      BY <2>4, <3>2, <3>3, <3>4, <3>5, <3>6, <3>7 DEF AppStep
  <2>5. ASSUME NEW p \in Upgraders \cup Apps, Dies(p)
        PROVE  FALSE
    BY <2>1, <2>5 DEF Dies
  <2>6. CASE BaoStarts \/ BaoInit \/ BaoDies \/ LaterRelease \/ UNCHANGED startupVars
             \/ \E n \in Numbers : ChangeAccounts(n)
    BY <2>6 DEF BaoStarts, BaoInit, BaoDies, LaterRelease, ChangeAccounts, startupVars, vars
  <2>7. QED
    BY <1>1, <2>2, <2>3, <2>4, <2>5, <2>6 DEF Next
<1>2. QED
  BY <1>1, StartupInvariant, PTL DEF Spec, WaitIsPatient

=============================================================================
