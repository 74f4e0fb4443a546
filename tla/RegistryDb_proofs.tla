------------------------- MODULE RegistryDb_proofs -------------------------
(***************************************************************************)
(* Proof that the committed registry has the schema its version names and  *)
(* keeps every entry, for any number of connections that create, upgrade,  *)
(* read and write it, fail and are killed.                                 *)
(*                                                                         *)
(* A transaction is a list of statements no other connection sees before   *)
(* it commits. The invariant says that the statements a connection has     *)
(* still to run turn its private copy into what the whole list makes of    *)
(* the committed database, which cannot change under a connection that has *)
(* a lock.                                                                 *)
(***************************************************************************)
EXTENDS RegistryDb, TLAPS

Note == {"portfiles_update_needed"}
Databases == [ver : {NoVersion} \cup 0 .. Later, parts : SUBSET Parts, rows : Nat, saved : Nat]
Lists == {l \in Seq(Statements) : Len(l) <= 6}

(* What a list of statements makes of a database.                          *)
Run(l, i, d) == IF i <= Len(l) THEN After(l[i], d) ELSE d
Result(l, d) == Run(l, 6, Run(l, 5, Run(l, 4, Run(l, 3, Run(l, 2, Run(l, 1, d))))))

Created == Result(CreateTables, Empty)
Updated(d) == Result(UpdateFrom(d.ver), d)

Writer(p) == lock[p] \in {"reserved", "pending"}

(* What a connection has done so far, and which lock it has for it.        *)
Stage(p) ==
    /\ pc[p] \in {"closed", "found", "not found", "begin", "again", "open"} => lock[p] = "none"
    /\ pc[p] = "create" => \/ lock[p] = "none" /\ list[p] = CreateTables
                           \/ Writer(p) /\ db = Empty /\ Result(list[p], work[p]) = Created
    /\ pc[p] = "update" => /\ db.ver \in 0 .. 3
                           /\ \/ lock[p] = "shared" /\ list[p] = UpdateFrom(db.ver)
                              \/ Writer(p) /\ Result(list[p], work[p]) = Updated(db)
    /\ lock[p] = "pending" /\ pc[p] \in {"create", "update"} => list[p] = <<>>
    /\ pc[p] = "writing" => lock[p] = "reserved" /\ work[p] = db
    /\ pc[p] = "written" => Writer(p) /\ work[p] = [db EXCEPT !.rows = @ + 1]
    /\ pc[p] \in {"again"} \cup Using => db.ver \in 1 .. Newest

IInv ==
    /\ pc \in [Proc -> Opening \cup Using \cup {"closed", "failed"}]
    /\ lock \in [Proc -> {"none", "shared", "reserved", "pending"}]
    /\ list \in [Proc -> Lists]
    /\ DOMAIN work = Proc
    /\ db \in Databases /\ acked \in Nat
    /\ \A p, q \in Proc : Writer(p) /\ Writer(q) => p = q
    /\ \A p \in Proc : Stage(p)
    /\ SchemaComplete
    /\ EntriesKept

-----------------------------------------------------------------------------
(* What single statements do.                                              *)
LEMMA Creates ==
    ASSUME NEW d \in Databases, NEW x \in Parts
    PROVE  /\ After(Create(x), d) \in Databases
           /\ After(Create(x), d).ver = d.ver /\ After(Create(x), d).parts = d.parts \cup {x}
           /\ After(Create(x), d).rows = d.rows /\ After(Create(x), d).saved = d.saved
BY DEF After, Create, Databases

LEMMA Drops ==
    ASSUME NEW d \in Databases, NEW x \in Parts
    PROVE  /\ After(Drop(x), d) \in Databases
           /\ After(Drop(x), d).ver = d.ver /\ After(Drop(x), d).parts = d.parts \ {x}
           /\ After(Drop(x), d).rows = d.rows /\ After(Drop(x), d).saved = d.saved
BY DEF After, Drop, Databases

LEMMA SetsVersion ==
    ASSUME NEW d \in Databases, NEW v \in 0 .. Newest
    PROVE  /\ After(SetVersion(v), d) \in Databases
           /\ After(SetVersion(v), d).ver = v /\ After(SetVersion(v), d).parts = d.parts
           /\ After(SetVersion(v), d).rows = d.rows /\ After(SetVersion(v), d).saved = d.saved
BY DEF After, SetVersion, Databases, Newest, Later

LEMMA Saves ==
    ASSUME NEW d \in Databases
    PROVE  /\ After(<<"save">>, d) \in Databases
           /\ After(<<"save">>, d).ver = d.ver /\ After(<<"save">>, d).parts = d.parts
           /\ After(<<"save">>, d).rows = d.rows /\ After(<<"save">>, d).saved = d.rows
BY DEF After, Databases

LEMMA Remakes ==
    ASSUME NEW d \in Databases
    PROVE  /\ After(<<"remake">>, d) \in Databases
           /\ After(<<"remake">>, d).ver = d.ver /\ After(<<"remake">>, d).parts = d.parts \ {"old columns"}
           /\ After(<<"remake">>, d).rows = 0 /\ After(<<"remake">>, d).saved = d.saved
BY DEF After, Databases

LEMMA Restores ==
    ASSUME NEW d \in Databases
    PROVE  /\ After(<<"restore">>, d) \in Databases
           /\ After(<<"restore">>, d).ver = d.ver /\ After(<<"restore">>, d).parts = d.parts
           /\ After(<<"restore">>, d).rows = d.rows + d.saved /\ After(<<"restore">>, d).saved = 0
<1>1. After(<<"restore">>, d) = [[d EXCEPT !.rows = @ + d.saved] EXCEPT !.saved = 0]
    BY DEF After
<1> DEFINE e == [d EXCEPT !.rows = @ + d.saved]
<1>2. /\ e \in Databases /\ e.ver = d.ver /\ e.parts = d.parts
      /\ e.rows = d.rows + d.saved
    BY DEF Databases
<1> HIDE DEF e
<1>3. LET f == [e EXCEPT !.saved = 0]
      IN f \in Databases /\ f.ver = e.ver /\ f.parts = e.parts /\ f.rows = e.rows /\ f.saved = 0
    BY <1>2 DEF Databases
<1> QED BY <1>1, <1>2, <1>3 DEF e

(* The schemas, written out.                                               *)
LEMMA Schemas ==
    /\ Schema(0) = {"metadata", "tables", "old columns"}
    /\ Schema(1) = {"metadata", "tables", "old columns", "binary column", "binary index"}
    /\ Schema(2) = {"metadata", "tables", "old columns", "binary column", "binary index",
                    "portgroups"}
    /\ Schema(3) = {"metadata", "tables", "old columns", "binary column", "portgroups"}
    /\ Schema(4) = {"metadata", "tables", "binary column", "portgroups", "portgroup index"}
    /\ Schema(5) = {"metadata", "tables", "binary column", "portgroups", "portgroup index"}
BY DEF Schema

-----------------------------------------------------------------------------
(* One statement less is left, and the result is the same.                 *)
LEMMA ResultOfTail ==
    ASSUME NEW l \in Lists, l # <<>>, NEW d
    PROVE  Tail(l) \in Lists /\ Result(Tail(l), After(Head(l), d)) = Result(l, d)
<1>1. /\ Len(l) \in 1 .. 6 /\ Len(Tail(l)) = Len(l) - 1
      /\ Tail(l) \in Lists /\ Head(l) = l[1]
    <2>1. l \in Seq(Statements) /\ Len(l) <= 6 /\ l # <<>>
        BY DEF Lists
    <2>2. Len(l) \in 1 .. 6 /\ Head(l) = l[1]
        <3>1. Len(l) \in Nat /\ Len(l) # 0
            BY <2>1
        <3>2. Len(l) <= 6
            BY <2>1
        <3>3. \A n \in Nat : n # 0 /\ n <= 6 => n \in 1 .. 6
            OBVIOUS
        <3>4. Len(l) \in 1 .. 6
            BY <3>1, <3>2, <3>3, Zenon
        <3>5. Head(l) = l[1]
            BY <2>1
        <3> QED BY <3>4, <3>5
    <2>3. Tail(l) \in Seq(Statements) /\ Len(Tail(l)) = Len(l) - 1
        BY <2>1
    <2>4. Tail(l) \in Lists
        BY <2>1, <2>2, <2>3 DEF Lists
    <2> QED BY <2>2, <2>3, <2>4
<1>2. ASSUME NEW i \in 1 .. 5, NEW x
      PROVE  Run(Tail(l), i, x) = Run(l, i + 1, x)
    <2>1. CASE i <= Len(l) - 1
        <3>1. Tail(l)[i] = l[i + 1]
            BY <2>1, <1>1 DEF Lists
        <3> QED BY <3>1, <2>1, <1>1 DEF Run
    <2>2. CASE ~(i <= Len(l) - 1)
        BY <2>2, <1>1 DEF Run
    <2> QED BY <2>1, <2>2
<1>3. ASSUME NEW x
      PROVE  Run(Tail(l), 6, x) = x
    BY <1>1 DEF Run
<1>4. Run(l, 1, d) = After(Head(l), d)
    BY <1>1 DEF Run
<1>5. ASSUME NEW x
      PROVE  /\ Run(Tail(l), 1, x) = Run(l, 2, x) /\ Run(Tail(l), 2, x) = Run(l, 3, x)
             /\ Run(Tail(l), 3, x) = Run(l, 4, x) /\ Run(Tail(l), 4, x) = Run(l, 5, x)
             /\ Run(Tail(l), 5, x) = Run(l, 6, x)
    <2>1. 1 \in 1 .. 5 /\ 2 \in 1 .. 5 /\ 3 \in 1 .. 5 /\ 4 \in 1 .. 5 /\ 5 \in 1 .. 5
        OBVIOUS
    <2>2. 1 + 1 = 2 /\ 2 + 1 = 3 /\ 3 + 1 = 4 /\ 4 + 1 = 5 /\ 5 + 1 = 6
        OBVIOUS
    <2>3. Run(Tail(l), 1, x) = Run(l, 2, x) /\ Run(Tail(l), 2, x) = Run(l, 3, x)
        BY <1>2, <2>1, <2>2
    <2>4. Run(Tail(l), 3, x) = Run(l, 4, x) /\ Run(Tail(l), 4, x) = Run(l, 5, x)
        BY <1>2, <2>1, <2>2
    <2>5. Run(Tail(l), 5, x) = Run(l, 6, x)
        BY <1>2, <2>1, <2>2
    <2> QED BY <2>3, <2>4, <2>5
<1> QED BY <1>1, <1>3, <1>4, <1>5 DEF Result

LEMMA ResultOfNone ==
    ASSUME NEW d
    PROVE  Result(<<>>, d) = d
BY DEF Result, Run

-----------------------------------------------------------------------------
(* The lists of the code.                                                  *)
LEMMA ListOfTwo ==
    ASSUME NEW a \in Statements, NEW b \in Statements
    PROVE  <<a, b>> \in Lists /\ <<a, b>> # <<>>
BY DEF Lists

LEMMA ListOfThree ==
    ASSUME NEW a \in Statements, NEW b \in Statements, NEW c \in Statements
    PROVE  <<a, b, c>> \in Lists /\ <<a, b, c>> # <<>>
BY DEF Lists

LEMMA ListOfFive ==
    ASSUME NEW a \in Statements, NEW b \in Statements, NEW c \in Statements,
           NEW e \in Statements, NEW f \in Statements
    PROVE  <<a, b, c, e, f>> \in Lists /\ <<a, b, c, e, f>> # <<>>
BY DEF Lists

LEMMA ListOfSix ==
    ASSUME NEW a \in Statements, NEW b \in Statements, NEW c \in Statements,
           NEW e \in Statements, NEW f \in Statements, NEW g \in Statements
    PROVE  <<a, b, c, e, f, g>> \in Lists /\ <<a, b, c, e, f, g>> # <<>>
BY DEF Lists

LEMMA StatementsAre ==
    /\ \A x \in Parts : Create(x) \in Statements /\ Drop(x) \in Statements
    /\ \A v \in 0 .. 4 : SetVersion(v) \in Statements
    /\ <<"save">> \in Statements /\ <<"remake">> \in Statements /\ <<"restore">> \in Statements
BY DEF Statements, Newest

From0 == <<Create("binary column"), Create("binary index"), SetVersion(1)>>
From1 == <<Create("portgroups"), SetVersion(2), Create("portfiles_update_needed")>>
From2 == <<Drop("binary index"), SetVersion(3)>>
From3 == <<Create("portgroup index"), <<"save">>, <<"remake">>, <<"restore">>, SetVersion(4)>>

LEMMA UpdateFromIs ==
    ASSUME NEW v
    PROVE  /\ v = 0 => UpdateFrom(v) = From0
           /\ v = 1 => UpdateFrom(v) = From1
           /\ v = 2 => UpdateFrom(v) = From2
           /\ v = 3 => UpdateFrom(v) = From3
<1>1. UpdateFrom(v) = CASE v = 0 -> From0 [] v = 1 -> From1 [] v = 2 -> From2 [] v = 3 -> From3
    BY Zenon DEF UpdateFrom, From0, From1, From2, From3
<1> QED BY <1>1

LEMMA PartsAndVersions ==
    /\ "metadata" \in Parts /\ "tables" \in Parts /\ "binary column" \in Parts
    /\ "binary index" \in Parts /\ "portgroups" \in Parts /\ "portgroup index" \in Parts
    /\ "portfiles_update_needed" \in Parts
    /\ 1 \in 0 .. 4 /\ 2 \in 0 .. 4 /\ 3 \in 0 .. 4 /\ 4 \in 0 .. 4 /\ Newest = 4
BY DEF Parts, Newest

LEMMA UpdateLists ==
    ASSUME NEW v \in 0 .. 3
    PROVE  UpdateFrom(v) \in Lists /\ UpdateFrom(v) # <<>>
<1>1. From0 \in Lists /\ From0 # <<>>
    BY ListOfThree, StatementsAre, PartsAndVersions DEF From0
<1>2. From1 \in Lists /\ From1 # <<>>
    BY ListOfThree, StatementsAre, PartsAndVersions DEF From1
<1>3. From2 \in Lists /\ From2 # <<>>
    BY ListOfTwo, StatementsAre, PartsAndVersions DEF From2
<1>4. From3 \in Lists /\ From3 # <<>>
    BY ListOfFive, StatementsAre, PartsAndVersions DEF From3
<1>5. /\ v = 0 => UpdateFrom(v) = From0
      /\ v = 1 => UpdateFrom(v) = From1
      /\ v = 2 => UpdateFrom(v) = From2
      /\ v = 3 => UpdateFrom(v) = From3
    BY UpdateFromIs
<1>6. v = 0 \/ v = 1 \/ v = 2 \/ v = 3
    OBVIOUS
<1> QED BY <1>1, <1>2, <1>3, <1>4, <1>5, <1>6, Zenon

(* The lists, run one statement after the other.                           *)
LEMMA From0Result ==
    ASSUME NEW d
    PROVE  Result(From0, d)
           = After(SetVersion(1), 
                 After(Create("binary index"), After(Create("binary column"), d)))
<1> DEFINE a == Create("binary column")
           b == Create("binary index")
           c == SetVersion(1)
<1>1. From0 = <<a, b, c>>
    BY DEF From0
<1> HIDE DEF a, b, c
<1>2. Result(<<a, b, c>>, d) = After(c, After(b, After(a, d)))
    BY DEF Result, Run
<1> QED BY <1>1, <1>2 DEF a, b, c

LEMMA From1Result ==
    ASSUME NEW d
    PROVE  Result(From1, d)
           = After(Create("portfiles_update_needed"), 
                 After(SetVersion(2), After(Create("portgroups"), d)))
<1> DEFINE a == Create("portgroups")
           b == SetVersion(2)
           c == Create("portfiles_update_needed")
<1>1. From1 = <<a, b, c>>
    BY DEF From1
<1> HIDE DEF a, b, c
<1>2. Result(<<a, b, c>>, d) = After(c, After(b, After(a, d)))
    BY DEF Result, Run
<1> QED BY <1>1, <1>2 DEF a, b, c

LEMMA From2Result ==
    ASSUME NEW d
    PROVE  Result(From2, d)
           = After(SetVersion(3), After(Drop("binary index"), d))
<1> DEFINE a == Drop("binary index")
           b == SetVersion(3)
<1>1. From2 = <<a, b>>
    BY DEF From2
<1> HIDE DEF a, b
<1>2. Result(<<a, b>>, d) = After(b, After(a, d))
    BY DEF Result, Run
<1> QED BY <1>1, <1>2 DEF a, b

LEMMA From3Result ==
    ASSUME NEW d
    PROVE  Result(From3, d)
           = After(SetVersion(4), After(<<"restore">>, 
                 After(<<"remake">>, After(<<"save">>, After(Create("portgroup index"), d)))))
<1> DEFINE a == Create("portgroup index")
           b == <<"save">>
           c == <<"remake">>
           e == <<"restore">>
           f == SetVersion(4)
<1>1. From3 = <<a, b, c, e, f>>
    BY DEF From3
<1> HIDE DEF a, b, c, e, f
<1>2. Result(<<a, b, c, e, f>>, d) = After(f, After(e, After(c, After(b, After(a, d)))))
    BY DEF Result, Run
<1> QED BY <1>1, <1>2 DEF a, b, c, e, f

LEMMA CreateTablesResult ==
    ASSUME NEW d
    PROVE  Result(CreateTables, d)
           = After(Create("portgroup index"), After(Create("portgroups"), After(Create("binary column"), 
                 After(Create("tables"), After(SetVersion(4), After(Create("metadata"), d))))))
<1> DEFINE a == Create("metadata")
           b == SetVersion(4)
           c == Create("tables")
           e == Create("binary column")
           f == Create("portgroups")
           g == Create("portgroup index")
<1>1. CreateTables = <<a, b, c, e, f, g>>
    BY DEF CreateTables, Newest
<1> HIDE DEF a, b, c, e, f, g
<1>2. Result(<<a, b, c, e, f, g>>, d) = After(g, After(f, After(e, After(c, After(b, After(a, d))))))
    BY DEF Result, Run
<1> QED BY <1>1, <1>2 DEF a, b, c, e, f, g

(* What they make of a database.                                           *)
LEMMA CreatedIs ==
    /\ CreateTables \in Lists /\ CreateTables # <<>>
    /\ Created \in Databases
    /\ Created.ver = 4 /\ Created.parts = Schema(4) /\ Created.rows = 0
<1> DEFINE d1 == After(Create("metadata"), Empty)
           d2 == After(SetVersion(4), d1)
           d3 == After(Create("tables"), d2)
           d4 == After(Create("binary column"), d3)
           d5 == After(Create("portgroups"), d4)
           d6 == After(Create("portgroup index"), d5)
<1>1. CreateTables = <<Create("metadata"), SetVersion(4), Create("tables"),
                       Create("binary column"), Create("portgroups"), Create("portgroup index")>>
    BY PartsAndVersions DEF CreateTables
<1>2. CreateTables \in Lists /\ CreateTables # <<>>
    BY <1>1, ListOfSix, StatementsAre, PartsAndVersions
<1>3. Created = d6
    BY CreateTablesResult DEF Created
<1>4. Empty \in Databases /\ Empty.parts = {} /\ Empty.rows = 0
    BY DEF Empty, Databases
<1>5. d1 \in Databases /\ d1.parts = Empty.parts \cup {"metadata"} /\ d1.rows = 0
    BY <1>4, Creates, PartsAndVersions
<1> HIDE DEF d1
<1>6. d2 \in Databases /\ d2.ver = 4 /\ d2.parts = d1.parts /\ d2.rows = 0
    BY <1>5, SetsVersion, PartsAndVersions
<1> HIDE DEF d2
<1>7. d3 \in Databases /\ d3.ver = 4 /\ d3.parts = d2.parts \cup {"tables"} /\ d3.rows = 0
    BY <1>6, Creates, PartsAndVersions
<1> HIDE DEF d3
<1>8. d4 \in Databases /\ d4.ver = 4 /\ d4.parts = d3.parts \cup {"binary column"} /\ d4.rows = 0
    BY <1>7, Creates, PartsAndVersions
<1> HIDE DEF d4
<1>9. d5 \in Databases /\ d5.ver = 4 /\ d5.parts = d4.parts \cup {"portgroups"} /\ d5.rows = 0
    BY <1>8, Creates, PartsAndVersions
<1> HIDE DEF d5
<1>10. d6 \in Databases /\ d6.ver = 4 /\ d6.parts = d5.parts \cup {"portgroup index"} /\ d6.rows = 0
    BY <1>9, Creates, PartsAndVersions
<1> HIDE DEF d6
<1>11. d6.parts = Schema(4)
    BY <1>4, <1>5, <1>6, <1>7, <1>8, <1>9, <1>10, Schemas
<1> QED BY <1>2, <1>3, <1>10, <1>11

(* An upgrade leads to the schema of a later version, with all entries.    *)
LEMMA UpdatedIs ==
    ASSUME NEW d \in Databases, d.ver \in 0 .. 3, d.parts \ Note = Schema(d.ver)
    PROVE  /\ Updated(d) \in Databases
           /\ Updated(d).ver \in 1 .. 4
           /\ Updated(d).parts \ Note = Schema(Updated(d).ver)
           /\ Updated(d).rows = d.rows
<1>1. CASE d.ver = 0
    <2> DEFINE d1 == After(Create("binary column"), d)
               d2 == After(Create("binary index"), d1)
               d3 == After(SetVersion(1), d2)
    <2>1. Updated(d) = d3
        <3>1. Updated(d) = Result(From0, d)
            BY <1>1, UpdateFromIs DEF Updated
        <3> QED BY <3>1, From0Result
    <2>2. /\ d1 \in Databases /\ d1.ver = 0 /\ d1.parts = d.parts \cup {"binary column"}
          /\ d1.rows = d.rows
        BY <1>1, Creates, PartsAndVersions
    <2> HIDE DEF d1
    <2>3. /\ d2 \in Databases /\ d2.ver = 0 /\ d2.parts = d1.parts \cup {"binary index"}
          /\ d2.rows = d.rows
        BY <2>2, Creates, PartsAndVersions
    <2> HIDE DEF d2
    <2>4. /\ d3 \in Databases /\ d3.ver = 1 /\ d3.parts = d2.parts
          /\ d3.rows = d.rows
        BY <2>3, SetsVersion, PartsAndVersions
    <2> HIDE DEF d3
    <2>5. d3.parts \ Note = Schema(1)
        BY <1>1, <2>2, <2>3, <2>4, Schemas DEF Note
    <2> QED BY <2>1, <2>4, <2>5
<1>2. CASE d.ver = 1
    <2> DEFINE d1 == After(Create("portgroups"), d)
               d2 == After(SetVersion(2), d1)
               d3 == After(Create("portfiles_update_needed"), d2)
    <2>1. Updated(d) = d3
        <3>1. Updated(d) = Result(From1, d)
            BY <1>2, UpdateFromIs DEF Updated
        <3> QED BY <3>1, From1Result
    <2>2. /\ d1 \in Databases /\ d1.ver = 1 /\ d1.parts = d.parts \cup {"portgroups"}
          /\ d1.rows = d.rows
        BY <1>2, Creates, PartsAndVersions
    <2> HIDE DEF d1
    <2>3. /\ d2 \in Databases /\ d2.ver = 2 /\ d2.parts = d1.parts
          /\ d2.rows = d.rows
        BY <2>2, SetsVersion, PartsAndVersions
    <2> HIDE DEF d2
    <2>4. /\ d3 \in Databases /\ d3.ver = 2 /\ d3.parts = d2.parts \cup {"portfiles_update_needed"}
          /\ d3.rows = d.rows
        BY <2>3, Creates, PartsAndVersions
    <2> HIDE DEF d3
    <2>5. d3.parts \ Note = Schema(2)
        BY <1>2, <2>2, <2>3, <2>4, Schemas DEF Note
    <2> QED BY <2>1, <2>4, <2>5
<1>3. CASE d.ver = 2
    <2> DEFINE d1 == After(Drop("binary index"), d)
               d2 == After(SetVersion(3), d1)
    <2>1. Updated(d) = d2
        <3>1. Updated(d) = Result(From2, d)
            BY <1>3, UpdateFromIs DEF Updated
        <3> QED BY <3>1, From2Result
    <2>2. /\ d1 \in Databases /\ d1.ver = 2 /\ d1.parts = d.parts \ {"binary index"}
          /\ d1.rows = d.rows
        BY <1>3, Drops, PartsAndVersions
    <2> HIDE DEF d1
    <2>3. /\ d2 \in Databases /\ d2.ver = 3 /\ d2.parts = d1.parts
          /\ d2.rows = d.rows
        BY <2>2, SetsVersion, PartsAndVersions
    <2> HIDE DEF d2
    <2>4. d2.parts \ Note = Schema(3)
        BY <1>3, <2>2, <2>3, Schemas DEF Note
    <2> QED BY <2>1, <2>3, <2>4
<1>4. CASE d.ver = 3
    <2> DEFINE d1 == After(Create("portgroup index"), d)
               d2 == After(<<"save">>, d1)
               d3 == After(<<"remake">>, d2)
               d4 == After(<<"restore">>, d3)
               d5 == After(SetVersion(4), d4)
    <2>1. Updated(d) = d5
        <3>1. Updated(d) = Result(From3, d)
            BY <1>4, UpdateFromIs DEF Updated
        <3> QED BY <3>1, From3Result
    <2>2. /\ d1 \in Databases /\ d1.ver = 3 /\ d1.parts = d.parts \cup {"portgroup index"}
          /\ d1.rows = d.rows
        BY <1>4, Creates, PartsAndVersions
    <2> HIDE DEF d1
    <2>3. /\ d2 \in Databases /\ d2.ver = 3 /\ d2.parts = d1.parts
          /\ d2.rows = d.rows /\ d2.saved = d.rows
        BY <2>2, Saves
    <2> HIDE DEF d2
    <2>4. /\ d3 \in Databases /\ d3.ver = 3 /\ d3.parts = d2.parts \ {"old columns"}
          /\ d3.rows = 0 /\ d3.saved = d.rows
        BY <2>3, Remakes
    <2> HIDE DEF d3
    <2>5. /\ d4 \in Databases /\ d4.ver = 3 /\ d4.parts = d3.parts
          /\ d4.rows = d.rows
        <3>1. d.rows \in Nat /\ 0 + d.rows = d.rows
            BY DEF Databases
        <3> QED BY <3>1, <2>4, Restores
    <2> HIDE DEF d4
    <2>6. /\ d5 \in Databases /\ d5.ver = 4 /\ d5.parts = d4.parts
          /\ d5.rows = d.rows
        BY <2>5, SetsVersion, PartsAndVersions
    <2> HIDE DEF d5
    <2>7. d5.parts = (d.parts \cup {"portgroup index"}) \ {"old columns"}
        BY <2>2, <2>3, <2>4, <2>5, <2>6
    <2>8. d.parts \ Note = {"metadata", "tables", "old columns", "binary column", "portgroups"}
        BY <1>4, Schemas
    <2>9. d5.parts \ Note = Schema(4)
        BY <2>7, <2>8, Schemas DEF Note
    <2> QED BY <2>1, <2>6, <2>9
<1> QED BY <1>1, <1>2, <1>3, <1>4

-----------------------------------------------------------------------------
LEMMA Initially ==
    ASSUME Init
    PROVE  IInv
<1>1. db \in Databases /\ SchemaComplete
    <2>1. CASE db = Empty
        BY <2>1 DEF Empty, Databases, SchemaComplete
    <2>2. ASSUME NEW v \in 0 .. Later,
                 db = [ver |-> v, parts |-> Schema(v), rows |-> 1, saved |-> 0]
          PROVE  db \in Databases /\ SchemaComplete
        <3>1. v = 0 \/ v = 1 \/ v = 2 \/ v = 3 \/ v = 4 \/ v = 5
            BY DEF Later, Newest
        <3>2. Schema(v) \in SUBSET Parts /\ Schema(v) \ Note = Schema(v)
            BY <3>1, Schemas DEF Parts, Note
        <3>3. db \in Databases
            BY <2>2, <3>2 DEF Databases
        <3>4. db.ver # NoVersion /\ db.parts \ Note = Schema(db.ver)
            BY <2>2, <3>2 DEF NoVersion, Later, Newest
        <3> QED BY <3>3, <3>4 DEF SchemaComplete, Note
    <2> QED BY <2>1, <2>2 DEF Init
<1>2. EntriesKept /\ acked \in Nat
    BY <1>1 DEF Init, EntriesKept, Databases
<1>3. /\ pc \in [Proc -> Opening \cup Using \cup {"closed", "failed"}]
      /\ lock \in [Proc -> {"none", "shared", "reserved", "pending"}]
      /\ DOMAIN work = Proc
    BY DEF Init
<1>4. list \in [Proc -> Lists]
    <2>1. <<>> \in Lists
        BY DEF Lists
    <2> QED BY <2>1 DEF Init
<1>5. \A p \in Proc : Stage(p) /\ ~Writer(p)
    BY DEF Init, Stage, Writer, Using
<1> QED BY <1>1, <1>2, <1>3, <1>4, <1>5 DEF IInv

(* A connection takes a step that leaves the committed database alone.     *)
Alone(p) ==
    /\ pc' \in [Proc -> Opening \cup Using \cup {"closed", "failed"}]
    /\ lock' \in [Proc -> {"none", "shared", "reserved", "pending"}]
    /\ list' \in [Proc -> Lists]
    /\ DOMAIN work' = Proc
    /\ \A q \in Proc \ {p} : /\ pc'[q] = pc[q] /\ lock'[q] = lock[q]
                              /\ list'[q] = list[q] /\ work'[q] = work[q]

LEMMA StepAlone ==
    ASSUME IInv, NEW p \in Proc, Alone(p), db' = db, acked' = acked,
           Writer(p)' => MayWrite(p) \/ Writer(p), Stage(p)'
    PROVE  IInv'
<1>1. ASSUME NEW q \in Proc
      PROVE  Stage(q)'
    <2>1. CASE q = p
        BY <2>1
    <2>2. CASE q # p
        <3>1. Stage(q) /\ q \in Proc \ {p}
            BY <2>2 DEF IInv
        <3> QED BY <3>1 DEF Stage, Alone, Writer
    <2> QED BY <2>1, <2>2
<1>2. ASSUME NEW q \in Proc, NEW r \in Proc, Writer(q)', Writer(r)'
      PROVE  q = r
    <2>1. ASSUME NEW o \in Proc, o # p, Writer(o)'
          PROVE  Writer(o) /\ lock[o] \in Others(p)
        BY <2>1 DEF Alone, Writer, Others
    <2>2. ASSUME NEW o \in Proc, o # p, Writer(o)', Writer(p)'
          PROVE  FALSE
        <3>1. Writer(o) /\ lock[o] \in Others(p)
            BY <2>1, <2>2
        <3>2. ~Writer(p)
            BY <3>1, <2>2 DEF IInv
        <3>3. lock[p] # "reserved" /\ MayWrite(p)
            BY <3>2, <2>2 DEF Writer
        <3>4. Others(p) \cap {"reserved", "pending"} = {}
            BY <3>3 DEF MayWrite, CanReserve
        <3> QED BY <3>1, <3>4 DEF Writer
    <2>3. CASE q # p /\ r # p
        BY <2>3, <2>1, <1>2 DEF IInv
    <2>4. CASE q = p /\ r # p
        BY <2>4, <2>2, <1>2
    <2>5. CASE q # p /\ r = p
        BY <2>5, <2>2, <1>2
    <2> QED BY <2>3, <2>4, <2>5
<1>3. SchemaComplete' /\ EntriesKept' /\ db' \in Databases /\ acked' \in Nat
    BY DEF IInv, SchemaComplete, EntriesKept
<1> QED BY <1>1, <1>2, <1>3 DEF IInv, Alone

(* A connection commits: no other has a lock, so none is in the middle of  *)
(* something that depends on the database.                                 *)
LEMMA StepCommits ==
    ASSUME IInv, NEW p \in Proc, Alone(p), CanCommit(p), lock'[p] = "none", Stage(p)',
           db' \in Databases, db'.ver \in 1 .. Newest, acked' \in Nat,
           SchemaComplete', EntriesKept'
    PROVE  IInv'
<1>1. ASSUME NEW q \in Proc, q # p
      PROVE  lock[q] = "none" /\ lock'[q] = "none"
    BY <1>1 DEF CanCommit, Others, Alone
<1>2. ASSUME NEW q \in Proc
      PROVE  Stage(q)'
    <2>1. CASE q = p
        BY <2>1
    <2>2. CASE q # p
        <3>1. Stage(q) /\ q \in Proc \ {p} /\ lock[q] = "none" /\ lock'[q] = "none"
            BY <2>2, <1>1 DEF IInv
        <3> QED BY <3>1 DEF Stage, Alone, Writer
    <2> QED BY <2>1, <2>2
<1>3. \A q \in Proc : ~Writer(q)'
    BY <1>1 DEF Writer
<1> QED BY <1>2, <1>3 DEF IInv, Alone

-----------------------------------------------------------------------------
(* Opening a registry.                                                     *)
LEMMA ReleasesIs ==
    ASSUME IInv, NEW p \in Proc, Releases(p)
    PROVE  /\ lock' \in [Proc -> {"none", "shared", "reserved", "pending"}] /\ lock'[p] = "none"
           /\ list' \in [Proc -> Lists]
           /\ DOMAIN work' = Proc
           /\ \A q \in Proc \ {p} : /\ lock'[q] = lock[q]
                                     /\ list'[q] = list[q] /\ work'[q] = work[q]
<1>1. <<>> \in Lists
    BY DEF Lists
<1> QED BY <1>1 DEF IInv, Releases

LEMMA StatKeeps ==
    ASSUME IInv, NEW p \in Proc, Stat(p)
    PROVE  IInv'
<1>1. Alone(p) /\ pc'[p] \in {"found", "not found"} /\ lock'[p] = lock[p] /\ pc[p] = "closed"
    BY DEF Stat, Goes, Alone, IInv, Opening
<1>2. Stage(p)' /\ ~Writer(p)'
    BY <1>1 DEF IInv, Stage, Writer, Using
<1> QED BY <1>1, <1>2, StepAlone DEF Stat

LEMMA AttachKeeps ==
    ASSUME IInv, NEW p \in Proc, Attach(p)
    PROVE  IInv'
<1>1. list' \in [Proc -> Lists] /\ \A q \in Proc \ {p} : list'[q] = list[q]
    BY CreatedIs DEF Attach, IInv
<1>2. Alone(p)
    BY <1>1 DEF Attach, Goes, Alone, IInv, Opening
<1>3. lock'[p] = "none"
    BY DEF Attach, IInv, Stage
<1>4. \/ pc'[p] = "begin"
      \/ pc'[p] = "create" /\ list'[p] = CreateTables
    BY DEF Attach, Goes, IInv
<1>5. Stage(p)' /\ ~Writer(p)'
    BY <1>3, <1>4 DEF Stage, Writer, Using
<1> QED BY <1>2, <1>5, StepAlone DEF Attach

(* The first statement works on the committed database, the others on what *)
(* the ones before left.                                                   *)
LEMMA StatementKeeps ==
    ASSUME IInv, NEW p \in Proc, Statement(p)
    PROVE  IInv'
<1>1. /\ list[p] \in Lists /\ list[p] # <<>>
      /\ pc[p] \in {"create", "update"} /\ Stage(p)
    BY DEF Statement, IInv
<1>2. /\ list'[p] = Tail(list[p]) /\ work'[p] = After(Head(list[p]), View(p))
      /\ lock'[p] = "reserved" /\ pc'[p] = pc[p] /\ db' = db
    BY DEF Statement, IInv
<1>3. list'[p] \in Lists /\ Result(list'[p], work'[p]) = Result(list[p], View(p))
    BY <1>1, <1>2, ResultOfTail
<1>4. Alone(p)
    BY <1>1, <1>3, ResultOfTail DEF Statement, Alone, IInv
<1>5. lock[p] # "pending"
    BY <1>1 DEF Stage
<1>6. ASSUME pc[p] = "create"
      PROVE  Stage(p)'
    <2>1. db = Empty /\ Result(list[p], View(p)) = Created
        <3>1. CASE lock[p] = "none" /\ list[p] = CreateTables
            <4>1. View(p) = db /\ "metadata" \notin db.parts
                BY <3>1, <1>6 DEF View, Statement, Conflict
            <4>2. ASSUME db.ver # NoVersion
                  PROVE  FALSE
                <5>1. db.parts \ Note = Schema(db.ver)
                    BY <4>2 DEF IInv, SchemaComplete, Note
                <5> QED BY <5>1, <4>1 DEF Schema
            <4>3. db = Empty
                BY <4>2 DEF IInv, SchemaComplete
            <4> QED BY <4>1, <4>3, <3>1 DEF Created
        <3>2. CASE Writer(p) /\ db = Empty /\ Result(list[p], work[p]) = Created
            BY <3>2, <1>5 DEF Writer, View
        <3> QED BY <3>1, <3>2, <1>1, <1>6 DEF Stage
    <2> QED BY <2>1, <1>2, <1>3, <1>6 DEF Stage, Writer, Using
<1>7. ASSUME pc[p] = "update"
      PROVE  Stage(p)'
    <2>1. db.ver \in 0 .. 3
        BY <1>1, <1>7 DEF Stage
    <2>2. Result(list[p], View(p)) = Updated(db)
        <3>1. CASE lock[p] = "shared" /\ list[p] = UpdateFrom(db.ver)
            BY <3>1 DEF View, Updated
        <3>2. CASE Writer(p) /\ Result(list[p], work[p]) = Updated(db)
            BY <3>2, <1>5 DEF Writer, View
        <3> QED BY <3>1, <3>2, <1>1, <1>7 DEF Stage
    <2> QED BY <2>1, <2>2, <1>2, <1>3, <1>7 DEF Stage, Writer, Using
<1>8. Stage(p)'
    BY <1>1, <1>6, <1>7
<1> QED BY <1>4, <1>8, StepAlone DEF Statement

LEMMA GivesUpKeeps ==
    ASSUME IInv, NEW p \in Proc, GivesUp(p), MayWrite(p)
    PROVE  IInv'
<1>1. pc' \in [Proc -> Opening \cup Using \cup {"closed", "failed"}] /\ pc'[p] = "failed"
      /\ \A q \in Proc \ {p} : pc'[q] = pc[q]
    BY DEF GivesUp, Goes, IInv
<1>2. ASSUME Releases(p)
      PROVE  Alone(p)
    BY <1>1, <1>2, ReleasesIs DEF Alone
<1>3. ASSUME NEW l \in {"none", "reserved"}, lock' = [lock EXCEPT ![p] = l], UNCHANGED <<work, list>>
      PROVE  Alone(p)
    BY <1>1, <1>3 DEF Alone, IInv
<1>4. Alone(p)
    BY <1>2, <1>3 DEF GivesUp
<1>5. lock'[p] \in {"none", "reserved"}
    BY ReleasesIs DEF GivesUp, IInv
<1>6. Stage(p)'
    BY <1>1, <1>5 DEF Stage, Using
<1> QED BY <1>4, <1>6, StepAlone DEF GivesUp

LEMMA CommitWaitsKeeps ==
    ASSUME IInv, NEW p \in Proc, CommitWaits(p)
    PROVE  IInv'
<1>1. Alone(p) /\ lock'[p] = "pending" /\ lock[p] = "reserved"
      /\ pc'[p] = pc[p] /\ work'[p] = work[p] /\ list'[p] = list[p] /\ db' = db
    BY DEF CommitWaits, Alone, IInv
<1>2. /\ Stage(p) /\ Writer(p)
      /\ \/ pc[p] \in {"create", "update"} /\ list[p] = <<>>
         \/ pc[p] = "written"
    BY DEF CommitWaits, IInv, Writer
<1>3. Stage(p)'
    BY <1>1, <1>2 DEF Stage, Writer, Using
<1> QED BY <1>1, <1>2, <1>3, StepAlone DEF CommitWaits

(* Nothing is left to run: the copy is what the whole list makes.          *)
LEMMA CommitQueriesKeeps ==
    ASSUME IInv, NEW p \in Proc, CommitQueries(p)
    PROVE  IInv'
<1>1. /\ pc[p] \in {"create", "update"} /\ list[p] = <<>> /\ Stage(p)
      /\ db' = work[p] /\ acked' = acked /\ CanCommit(p)
      /\ db \in Databases /\ db.rows = acked /\ acked \in Nat
    BY DEF CommitQueries, IInv, EntriesKept
<1>2. Alone(p) /\ lock'[p] = "none" /\ pc'[p] \in {"begin", "again"}
    BY ReleasesIs DEF CommitQueries, Goes, IInv, Alone, Opening
<1>3. Result(list[p], work[p]) = work[p]
    BY <1>1, ResultOfNone
<1>4. /\ db' \in Databases /\ db'.ver \in 1 .. 4 /\ db'.rows = acked
      /\ db'.parts \ Note = Schema(db'.ver)
    <2>1. CASE pc[p] = "create"
        <3>1. work[p] = Created /\ db = Empty
            BY <2>1, <1>1, <1>3, CreatedIs DEF Stage
        <3>2. Schema(4) \ Note = Schema(4)
            BY Schemas DEF Note
        <3>3. acked = 0
            BY <3>1, <1>1 DEF Empty
        <3> QED BY <3>1, <3>2, <3>3, <1>1, CreatedIs
    <2>2. CASE pc[p] = "update"
        <3>1. db.ver \in 0 .. 3 /\ work[p] = Updated(db)
            BY <2>2, <1>1, <1>3, UpdateLists DEF Stage
        <3>2. db.parts \ Note = Schema(db.ver)
            BY <3>1 DEF IInv, SchemaComplete, Note, NoVersion
        <3> QED BY <3>1, <3>2, <1>1, UpdatedIs
    <2> QED BY <2>1, <2>2, <1>1
<1>5. db'.ver \in 1 .. Newest /\ db'.ver # NoVersion
    BY <1>4 DEF Newest, NoVersion
<1>6. Stage(p)'
    BY <1>2, <1>5 DEF Stage, Using
<1>7. SchemaComplete' /\ EntriesKept'
    BY <1>1, <1>4, <1>5 DEF SchemaComplete, EntriesKept, Note
<1> QED BY <1>1, <1>2, <1>4, <1>5, <1>6, <1>7, StepCommits

LEMMA CannotUpdateKeeps ==
    ASSUME IInv, NEW p \in Proc, CannotUpdate(p)
    PROVE  IInv'
<1>1. Alone(p) /\ pc'[p] = "failed" /\ lock'[p] = "none"
    BY DEF CannotUpdate, Goes, Alone, IInv, Stage
<1>2. Stage(p)' /\ ~Writer(p)'
    BY <1>1 DEF Stage, Writer, Using
<1> QED BY <1>1, <1>2, StepAlone DEF CannotUpdate

LEMMA UpToDateKeeps ==
    ASSUME IInv, NEW p \in Proc, UpToDate(p)
    PROVE  IInv'
<1>1. Alone(p) /\ pc'[p] = "open" /\ lock'[p] = "none" /\ db' = db
    BY DEF UpToDate, Goes, Alone, IInv, Stage, Using
<1>2. db.ver \in 1 .. Newest
    BY DEF UpToDate, Newest
<1>3. Stage(p)' /\ ~Writer(p)'
    BY <1>1, <1>2 DEF Stage, Writer, Using
<1> QED BY <1>1, <1>3, StepAlone DEF UpToDate

LEMMA OutdatedKeeps ==
    ASSUME IInv, NEW p \in Proc, Outdated(p)
    PROVE  IInv'
<1>1. db.ver \in 0 .. 3
    BY DEF Outdated, Newest
<1>2. /\ list' \in [Proc -> Lists] /\ list'[p] = UpdateFrom(db.ver)
      /\ \A q \in Proc \ {p} : list'[q] = list[q]
    BY <1>1, UpdateLists DEF Outdated, IInv
<1>3. Alone(p) /\ pc'[p] = "update" /\ lock'[p] = "shared" /\ db' = db
    BY <1>2 DEF Outdated, Goes, Alone, IInv, Opening
<1>4. Stage(p)' /\ ~Writer(p)'
    BY <1>1, <1>2, <1>3 DEF Stage, Writer, Using
<1> QED BY <1>3, <1>4, StepAlone DEF Outdated

LEMMA SecondPassKeeps ==
    ASSUME IInv, NEW p \in Proc, SecondPass(p)
    PROVE  IInv'
<1>1. Alone(p) /\ pc'[p] \in {"open", "failed"} /\ lock'[p] = "none" /\ db' = db
    BY DEF SecondPass, Goes, Alone, IInv, Stage, Using
<1>2. db.ver \in 1 .. Newest
    BY DEF SecondPass, IInv, Stage
<1>3. Stage(p)' /\ ~Writer(p)'
    BY <1>1, <1>2 DEF Stage, Writer, Using
<1> QED BY <1>1, <1>3, StepAlone DEF SecondPass

-----------------------------------------------------------------------------
(* Using a registry.                                                       *)
LEMMA BeginReadKeeps ==
    ASSUME IInv, NEW p \in Proc, BeginRead(p)
    PROVE  IInv'
<1>1. Alone(p) /\ pc'[p] = "reading" /\ lock'[p] = "shared" /\ db' = db
    BY DEF BeginRead, Goes, Alone, IInv, Using
<1>2. db.ver \in 1 .. Newest
    BY DEF BeginRead, IInv, Stage, Using
<1>3. Stage(p)' /\ ~Writer(p)'
    BY <1>1, <1>2 DEF Stage, Writer, Using
<1> QED BY <1>1, <1>3, StepAlone DEF BeginRead

LEMMA EndReadKeeps ==
    ASSUME IInv, NEW p \in Proc, EndRead(p)
    PROVE  IInv'
<1>1. Alone(p) /\ pc'[p] = "open" /\ lock'[p] = "none" /\ db' = db
    BY ReleasesIs DEF EndRead, Goes, Alone, IInv, Using
<1>2. db.ver \in 1 .. Newest
    BY DEF EndRead, IInv, Stage, Using
<1>3. Stage(p)' /\ ~Writer(p)'
    BY <1>1, <1>2 DEF Stage, Writer, Using
<1> QED BY <1>1, <1>3, StepAlone DEF EndRead

LEMMA BeginWriteKeeps ==
    ASSUME IInv, NEW p \in Proc, BeginWrite(p)
    PROVE  IInv'
<1>1. Alone(p) /\ pc'[p] = "writing" /\ lock'[p] = "reserved" /\ work'[p] = db /\ db' = db
    BY DEF BeginWrite, Goes, Alone, IInv, Using
<1>2. db.ver \in 1 .. Newest /\ MayWrite(p)
    BY DEF BeginWrite, IInv, Stage, Using, MayWrite
<1>3. Stage(p)'
    BY <1>1, <1>2 DEF Stage, Writer, Using
<1> QED BY <1>1, <1>2, <1>3, StepAlone DEF BeginWrite

LEMMA InsertKeeps ==
    ASSUME IInv, NEW p \in Proc, Insert(p)
    PROVE  IInv'
<1>1. lock[p] = "reserved" /\ work[p] = db /\ db.ver \in 1 .. Newest
    BY DEF Insert, IInv, Stage, Using
<1>2. Alone(p) /\ pc'[p] = "written" /\ lock'[p] = "reserved" /\ db' = db
    BY <1>1 DEF Insert, Goes, Alone, IInv, Using
<1>3. work'[p] = [db EXCEPT !.rows = @ + 1]
    BY <1>1 DEF Insert, IInv
<1>4. Stage(p)' /\ Writer(p)
    BY <1>1, <1>2, <1>3 DEF Stage, Writer, Using
<1> QED BY <1>2, <1>4, StepAlone DEF Insert

LEMMA CommitWriteKeeps ==
    ASSUME IInv, NEW p \in Proc, CommitWrite(p)
    PROVE  IInv'
<1>1. /\ CanCommit(p) /\ acked' = acked + 1 /\ db' = [db EXCEPT !.rows = @ + 1]
      /\ db.ver \in 1 .. Newest
    BY DEF CommitWrite, IInv, Stage, Using
<1>2. Alone(p) /\ lock'[p] = "none" /\ pc'[p] = "open"
    BY ReleasesIs DEF CommitWrite, Goes, Alone, IInv, Using
<1>3. db \in Databases /\ acked \in Nat /\ db.rows = acked
    BY DEF IInv, EntriesKept
<1>4. /\ db' \in Databases /\ db'.ver = db.ver /\ db'.parts = db.parts
      /\ db'.rows = acked' /\ acked' \in Nat
    BY <1>1, <1>3 DEF Databases
<1>5. SchemaComplete' /\ EntriesKept'
    BY <1>1, <1>4 DEF IInv, SchemaComplete, EntriesKept, NoVersion, Newest
<1>6. Stage(p)'
    BY <1>1, <1>2, <1>4 DEF Stage, Using
<1> QED BY <1>1, <1>2, <1>4, <1>5, <1>6, StepCommits

LEMMA RollbackWriteKeeps ==
    ASSUME IInv, NEW p \in Proc, RollbackWrite(p)
    PROVE  IInv'
<1>1. Alone(p) /\ pc'[p] = "open" /\ lock'[p] = "none" /\ db' = db
    BY ReleasesIs DEF RollbackWrite, Goes, Alone, IInv, Using
<1>2. db.ver \in 1 .. Newest
    BY DEF RollbackWrite, IInv, Stage, Using
<1>3. Stage(p)' /\ ~Writer(p)'
    BY <1>1, <1>2 DEF Stage, Writer, Using
<1> QED BY <1>1, <1>3, StepAlone DEF RollbackWrite

LEMMA CommitFailsKeeps ==
    ASSUME IInv, NEW p \in Proc, CommitFails(p)
    PROVE  IInv'
<1>1. db.ver \in 1 .. Newest /\ Writer(p)
    BY DEF CommitFails, IInv, Stage, Using
<1>2. Alone(p) /\ pc'[p] = "stuck" /\ db' = db
    <2>1. ASSUME Releases(p)
          PROVE  Alone(p) /\ pc'[p] = "stuck"
        BY <2>1, ReleasesIs DEF CommitFails, Goes, Alone, IInv, Using
    <2>2. ASSUME UNCHANGED <<lock, work, list>>
          PROVE  Alone(p) /\ pc'[p] = "stuck"
        BY <2>2 DEF CommitFails, Goes, Alone, IInv, Using
    <2> QED BY <2>1, <2>2 DEF CommitFails
<1>3. Stage(p)'
    BY <1>1, <1>2 DEF Stage, Using
<1> QED BY <1>1, <1>2, <1>3, StepAlone DEF CommitFails

LEMMA EndKeeps ==
    ASSUME IInv, NEW p \in Proc, Close(p) \/ Crash(p)
    PROVE  IInv'
<1>1. Alone(p) /\ pc'[p] = "closed" /\ lock'[p] = "none"
    BY ReleasesIs DEF Close, Crash, Goes, Alone, IInv
<1>2. Stage(p)' /\ ~Writer(p)'
    BY <1>1 DEF Stage, Writer, Using
<1> QED BY <1>1, <1>2, StepAlone DEF Close, Crash

-----------------------------------------------------------------------------
(* The invariant holds however many connections there are, whatever fails  *)
(* and whoever is killed (all of reg_attach, do_queries, reg_start_write,  *)
(* reg_commit, reg_rollback).                                              *)
THEOREM Invariance == Spec => []IInv
<1>1. Init => IInv
    BY Initially
<1>2. ASSUME IInv, [Next]_vars
      PROVE  IInv'
    <2>1. CASE UNCHANGED vars
        BY <1>2, <2>1 DEF vars, IInv, Stage, Writer, SchemaComplete, EntriesKept
    <2>2. ASSUME NEW p \in Proc, Open(p)
          PROVE  IInv'
        BY <1>2, <2>2, StatKeeps, AttachKeeps, StatementKeeps, GivesUpKeeps, CommitWaitsKeeps,
           CommitQueriesKeeps, CannotUpdateKeeps, UpToDateKeeps, OutdatedKeeps, SecondPassKeeps
           DEF Open, AlreadyCreated, QueriesFail
    <2>3. ASSUME NEW p \in Proc, Use(p)
          PROVE  IInv'
        BY <1>2, <2>3, BeginReadKeeps, EndReadKeeps, BeginWriteKeeps, InsertKeeps,
           CommitWriteKeeps, RollbackWriteKeeps, CommitFailsKeeps, EndKeeps DEF Use
    <2> QED BY <1>2, <2>1, <2>2, <2>3 DEF Next
<1> QED BY <1>1, <1>2, PTL DEF Spec

(* The committed schema is the one its version names, whoever was killed   *)
(* or failed half-way of create_tables or update_db.                       *)
THEOREM SchemasAreComplete == Spec => []SchemaComplete
<1>1. IInv => SchemaComplete
    BY DEF IInv
<1> QED BY <1>1, Invariance, PTL

(* No entry whose commit was reported is lost or doubled, by a transaction *)
(* of registry::write or by an upgrade that makes the tables anew.         *)
THEOREM EntriesAreKept == Spec => []EntriesKept
<1>1. IInv => EntriesKept
    BY DEF IInv
<1> QED BY <1>1, Invariance, PTL

(* Who has opened the registry finds tables of a version it knows: the one *)
(* who creates them does not report success before they are there.         *)
THEOREM OpenedHasTables == Spec => []OpenFindsTables
<1>1. IInv => OpenFindsTables
    BY DEF IInv, Stage, OpenFindsTables
<1> QED BY <1>1, Invariance, PTL
=============================================================================
