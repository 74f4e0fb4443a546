----------------------------- MODULE RegistryDb -----------------------------
(***************************************************************************)
(* The registry database as the connections of several port(1) processes   *)
(* open, create, upgrade and use it: reg_attach, create_tables, update_db  *)
(* and do_queries, then registry::read and registry::write over            *)
(* reg_start_*, reg_commit and reg_rollback (cregistry/registry.c, sql.c,  *)
(* registry2.0/registry.c).                                                *)
(*                                                                         *)
(* sqlite is external. A connection has no lock, or reads ("shared"), has  *)
(* written to its private copy ("reserved"), or waits to commit            *)
(* ("pending", which keeps new readers out). Where sqlite answers          *)
(* SQLITE_BUSY and the code tries again, the action is just not enabled.   *)
(*                                                                         *)
(* Versions of the schema: 0 is 1.000, 1 is 1.1 or 1.100, 2 is 1.200, 3 is *)
(* 1.201, 4 is 1.202, and 5 stands for any later one.                      *)
(***************************************************************************)
EXTENDS Integers, Sequences

CONSTANTS
    Proc,    \* the connections
    Faults,  \* what may go wrong: "disk" (a write fails), "crash"
    MaxOpen, \* bound: how often each connection is opened
    MaxRows  \* bound: entries in the registry

ASSUME ConstantsOK ==
    /\ Faults \subseteq {"disk", "crash"}
    /\ MaxOpen \in Nat
    /\ MaxRows \in Nat

Newest == 4
Later == Newest + 1
NoVersion == -1

(* What a database holds: the schema version in its metadata table, the    *)
(* parts of its schema, the number of its entries, and the entries put     *)
(* into a temporary table while a table is made anew.                      *)
Parts == {"metadata", "tables", "old columns", "binary column", "binary index",
          "portgroups", "portgroup index", "portfiles_update_needed"}
Database == [ver : {NoVersion} \cup 0 .. Later, parts : SUBSET Parts,
             rows : 0 .. MaxRows, saved : 0 .. MaxRows]
Empty == [ver |-> NoVersion, parts |-> {}, rows |-> 0, saved |-> 0]

(* The schema of each version, without the note left to dedup_portfiles.   *)
Schema(v) ==
    {"metadata", "tables"}
    \cup (IF v < 4 THEN {"old columns"} ELSE {"portgroup index"})
    \cup (IF v >= 1 THEN {"binary column"} ELSE {})
    \cup (IF v \in {1, 2} THEN {"binary index"} ELSE {})
    \cup (IF v >= 2 THEN {"portgroups"} ELSE {})

(* The statements of the code, and the lists of them it runs up to COMMIT. *)
Create(x) == <<"create", x>>
Drop(x) == <<"drop", x>>
SetVersion(v) == <<"version", v>>

CreateTables ==
    <<Create("metadata"), SetVersion(Newest), Create("tables"),
      Create("binary column"), Create("portgroups"), Create("portgroup index")>>

UpdateFrom(v) ==
    CASE v = 0 -> <<Create("binary column"), Create("binary index"), SetVersion(1)>>
      [] v = 1 -> <<Create("portgroups"), SetVersion(2),
                    Create("portfiles_update_needed")>>
      [] v = 2 -> <<Drop("binary index"), SetVersion(3)>>
      [] v = 3 -> <<Create("portgroup index"), <<"save">>, <<"remake">>,
                    <<"restore">>, SetVersion(4)>>

Statements == {Create(x) : x \in Parts} \cup {Drop(x) : x \in Parts}
              \cup {SetVersion(v) : v \in 0 .. Newest}
              \cup {<<"save">>, <<"remake">>, <<"restore">>}

(* What one statement does to database d.                                  *)
After(s, d) ==
    CASE s[1] = "create"  -> [d EXCEPT !.parts = @ \cup {s[2]}]
      [] s[1] = "drop"    -> [d EXCEPT !.parts = @ \ {s[2]}]
      [] s[1] = "version" -> [d EXCEPT !.ver = s[2]]
      [] s[1] = "save"    -> [d EXCEPT !.saved = d.rows]
      [] s[1] = "remake"  -> [d EXCEPT !.rows = 0, !.parts = @ \ {"old columns"}]
      [] s[1] = "restore" -> [d EXCEPT !.rows = @ + d.saved, !.saved = 0]

VARIABLES
    exists, \* there is a database file
    db,     \* the committed database
    pc,     \* what each connection is doing
    lock,   \* the lock it has
    work,   \* the database its transaction sees, once it has written
    list,   \* the statements do_queries has still to run
    opens,  \* how often it was opened
    acked   \* history: entries whose commit was reported

vars == <<exists, db, pc, lock, work, list, opens, acked>>

Opening == {"found", "not found", "create", "begin", "update", "again"}
Using == {"open", "reading", "writing", "written", "stuck"}

(* A new installation has no file; any other was left by some release.     *)
Init ==
    /\ \/ exists = FALSE /\ db = Empty
       \/ /\ exists = TRUE
          /\ \E v \in 0 .. Later :
                db = [ver |-> v, parts |-> Schema(v), rows |-> 1, saved |-> 0]
    /\ acked = db.rows
    /\ pc = [p \in Proc |-> "closed"]
    /\ lock = [p \in Proc |-> "none"]
    /\ work = [p \in Proc |-> Empty]
    /\ list = [p \in Proc |-> <<>>]
    /\ opens = [p \in Proc |-> 0]

-----------------------------------------------------------------------------
(* When sqlite grants which lock.                                          *)
Others(p) == {lock[q] : q \in Proc \ {p}}
CanRead(p) == "pending" \notin Others(p)
CanReserve(p) == Others(p) \cap {"reserved", "pending"} = {}
CanCommit(p) == Others(p) \subseteq {"none"}

Goes(p, s) == pc' = [pc EXCEPT ![p] = s]

(* The transaction ends, or the process does: lock and copy are gone.      *)
Releases(p) ==
    /\ lock' = [lock EXCEPT ![p] = "none"]
    /\ work' = [work EXCEPT ![p] = Empty]
    /\ list' = [list EXCEPT ![p] = <<>>]

-----------------------------------------------------------------------------
(* reg_attach first looks for the file ...                                 *)
Stat(p) ==
    /\ pc[p] = "closed" /\ opens[p] < MaxOpen
    /\ opens' = [opens EXCEPT ![p] = @ + 1]
    /\ Goes(p, IF exists THEN "found" ELSE "not found")
    /\ UNCHANGED <<exists, db, lock, work, list, acked>>

(* ... then attaches it, which creates an empty one and reads the schema.  *)
(* Tables are created if there was no file at the first look.              *)
Attach(p) ==
    /\ pc[p] \in {"found", "not found"}
    /\ CanRead(p)
    /\ exists' = TRUE
    /\ IF pc[p] = "found"
         THEN Goes(p, "begin") /\ UNCHANGED list
         ELSE Goes(p, "create") /\ list' = [list EXCEPT ![p] = CreateTables]
    /\ UNCHANGED <<db, lock, work, opens, acked>>

(* do_queries runs the next statement; the first takes the reserved lock.  *)
View(p) == IF lock[p] = "reserved" THEN work[p] ELSE db

MayWrite(p) == lock[p] = "reserved" \/ CanReserve(p)

(* CREATE TABLE fails if another connection has made the tables.           *)
Conflict(p) == pc[p] = "create" /\ Head(list[p]) = CreateTables[1]
               /\ "metadata" \in View(p).parts

(* Mutant: without BEGIN, each statement is a transaction.                 *)
StatementAlone(p) ==
    /\ pc[p] \in {"create", "update"}
    /\ list[p] # <<>>
    /\ MayWrite(p) /\ ~Conflict(p)
    /\ db' = After(Head(list[p]), db)
    /\ work' = [work EXCEPT ![p] = db']
    /\ lock' = [lock EXCEPT ![p] = "reserved"]
    /\ list' = [list EXCEPT ![p] = Tail(@)]
    /\ UNCHANGED <<exists, pc, opens, acked>>

Statement(p) ==
    /\ pc[p] \in {"create", "update"}
    /\ list[p] # <<>>
    /\ MayWrite(p) /\ ~Conflict(p)
    /\ work' = [work EXCEPT ![p] = After(Head(list[p]), View(p))]
    /\ lock' = [lock EXCEPT ![p] = "reserved"]
    /\ list' = [list EXCEPT ![p] = Tail(@)]
    /\ UNCHANGED <<exists, db, pc, opens, acked>>

(* A statement, or the COMMIT at the end, fails for good: create_tables    *)
(* leaves its transaction as sqlite does, update_db rolls it back.         *)
GivesUp(p) ==
    /\ Goes(p, "failed")
    /\ IF pc[p] = "update"
         THEN Releases(p)
         ELSE \E l \in {"none", "reserved"} :
                 /\ lock' = [lock EXCEPT ![p] = l]
                 /\ UNCHANGED <<work, list>>
    /\ UNCHANGED <<exists, db, opens, acked>>

AlreadyCreated(p) ==
    /\ pc[p] = "create" /\ list[p] # <<>>
    /\ MayWrite(p) /\ Conflict(p)
    /\ GivesUp(p)

QueriesFail(p) ==
    /\ "disk" \in Faults
    /\ pc[p] \in {"create", "update"}
    /\ MayWrite(p)
    /\ GivesUp(p)

(* A commit waits while others read.                                       *)
CommitWaits(p) ==
    /\ \/ pc[p] \in {"create", "update"} /\ list[p] = <<>>
       \/ pc[p] = "written"
    /\ lock[p] = "reserved" /\ ~CanCommit(p)
    /\ lock' = [lock EXCEPT ![p] = "pending"]
    /\ UNCHANGED <<exists, db, pc, work, list, opens, acked>>

(* The COMMIT that ends the list. update_db starts its loop again.         *)
CommitQueries(p) ==
    /\ pc[p] \in {"create", "update"} /\ list[p] = <<>>
    /\ CanCommit(p)
    /\ db' = work[p]
    /\ Releases(p)
    /\ Goes(p, IF pc[p] = "create" THEN "begin" ELSE "again")
    /\ UNCHANGED <<exists, opens, acked>>

-----------------------------------------------------------------------------
(* The first pass of update_db: BEGIN, then the query of the version. The  *)
(* query keeps its shared lock until the transaction ends.                 *)
(* It fails when sqlite is busy, when there are no tables, and for a later *)
(* version; the first two leave a transaction open that holds no lock.     *)
CannotUpdate(p) ==
    /\ pc[p] = "begin"
    /\ ~CanRead(p) \/ db.ver \in {NoVersion, Later}
    /\ Goes(p, "failed")
    /\ UNCHANGED <<exists, db, lock, work, list, opens, acked>>

(* Mutant: a later version is not refused.                                 *)
UpToDateOrLater(p) ==
    /\ pc[p] = "begin" /\ CanRead(p)
    /\ db.ver >= Newest
    /\ Goes(p, "open")
    /\ UNCHANGED <<exists, db, lock, work, list, opens, acked>>

UpToDate(p) ==
    /\ pc[p] = "begin" /\ CanRead(p)
    /\ db.ver = Newest
    /\ Goes(p, "open")
    /\ UNCHANGED <<exists, db, lock, work, list, opens, acked>>

(* Mutant: the version is read before the transaction begins.              *)
OutdatedUnlocked(p) ==
    /\ pc[p] = "begin" /\ CanRead(p)
    /\ db.ver \in 0 .. Newest - 1
    /\ Goes(p, "update")
    /\ list' = [list EXCEPT ![p] = UpdateFrom(db.ver)]
    /\ UNCHANGED <<exists, db, lock, work, opens, acked>>

Outdated(p) ==
    /\ pc[p] = "begin" /\ CanRead(p)
    /\ db.ver \in 0 .. Newest - 1
    /\ Goes(p, "update")
    /\ lock' = [lock EXCEPT ![p] = "shared"]
    /\ list' = [list EXCEPT ![p] = UpdateFrom(db.ver)]
    /\ UNCHANGED <<exists, db, work, opens, acked>>

(* The second pass steps the version query where the first stepped BEGIN,  *)
(* gets a row where it expects none, and leaves the loop with success; or  *)
(* with an error, when sqlite is busy.                                     *)
SecondPass(p) ==
    /\ pc[p] = "again"
    /\ Goes(p, IF CanRead(p) THEN "open" ELSE "failed")
    /\ UNCHANGED <<exists, db, lock, work, list, opens, acked>>

-----------------------------------------------------------------------------
(* registry::read, or a query outside of a transaction: BEGIN takes no     *)
(* lock, the first query does, and it is tried again while sqlite is busy. *)
BeginRead(p) ==
    /\ pc[p] = "open" /\ CanRead(p)
    /\ lock' = [lock EXCEPT ![p] = "shared"]
    /\ Goes(p, "reading")
    /\ UNCHANGED <<exists, db, work, list, opens, acked>>

(* Mutant: the query is not finalized and keeps its lock.                  *)
EndReadLocked(p) ==
    /\ pc[p] = "reading"
    /\ Goes(p, "open")
    /\ UNCHANGED <<exists, db, lock, work, list, opens, acked>>

EndRead(p) ==
    /\ pc[p] = "reading"
    /\ Releases(p)
    /\ Goes(p, "open")
    /\ UNCHANGED <<exists, db, opens, acked>>

(* registry::write: BEGIN IMMEDIATE, tried until the lock is reserved.     *)
BeginWrite(p) ==
    /\ pc[p] = "open" /\ CanReserve(p)
    /\ lock' = [lock EXCEPT ![p] = "reserved"]
    /\ work' = [work EXCEPT ![p] = db]
    /\ Goes(p, "writing")
    /\ UNCHANGED <<exists, db, list, opens, acked>>

Insert(p) ==
    /\ pc[p] = "writing" /\ work[p].rows < MaxRows
    /\ work' = [work EXCEPT ![p].rows = @ + 1]
    /\ Goes(p, "written")
    /\ UNCHANGED <<exists, db, lock, list, opens, acked>>

CommitWrite(p) ==
    /\ pc[p] = "written" /\ CanCommit(p)
    /\ db' = work[p]
    /\ acked' = acked + 1
    /\ Releases(p)
    /\ Goes(p, "open")
    /\ UNCHANGED <<exists, opens>>

(* The body of registry::write failed.                                     *)
RollbackWrite(p) ==
    /\ pc[p] \in {"writing", "written"} /\ lock[p] = "reserved"
    /\ Releases(p)
    /\ Goes(p, "open")
    /\ UNCHANGED <<exists, db, opens, acked>>

(* The commit fails for another reason than being busy: reg_commit keeps   *)
(* the status of an open transaction, so that no other can begin in this   *)
(* process; sqlite keeps the transaction, or has rolled it back.           *)
CommitFails(p) ==
    /\ "disk" \in Faults
    /\ pc[p] = "written"
    /\ Releases(p) \/ UNCHANGED <<lock, work, list>>
    /\ Goes(p, "stuck")
    /\ UNCHANGED <<exists, db, opens, acked>>

-----------------------------------------------------------------------------
(* The process ends, also when registry::open failed.                      *)
Close(p) ==
    /\ pc[p] \in {"open", "stuck", "failed"}
    /\ Releases(p)
    /\ Goes(p, "closed")
    /\ UNCHANGED <<exists, db, opens, acked>>

(* It is killed; sqlite undoes what was not committed.                     *)
Crash(p) ==
    /\ "crash" \in Faults
    /\ pc[p] # "closed"
    /\ Releases(p)
    /\ Goes(p, "closed")
    /\ UNCHANGED <<exists, db, opens, acked>>

Open(p) ==
    \/ Stat(p)
    \/ Attach(p)
    \/ Statement(p)
    \/ AlreadyCreated(p)
    \/ QueriesFail(p)
    \/ CommitWaits(p)
    \/ CommitQueries(p)
    \/ CannotUpdate(p)
    \/ UpToDate(p)
    \/ Outdated(p)
    \/ SecondPass(p)

Use(p) ==
    \/ BeginRead(p)
    \/ EndRead(p)
    \/ BeginWrite(p)
    \/ Insert(p)
    \/ CommitWrite(p)
    \/ RollbackWrite(p)
    \/ CommitFails(p)
    \/ Close(p)
    \/ Crash(p)

Next == \E p \in Proc : Open(p) \/ Use(p)

Spec == Init /\ [][Next]_vars

(* A connection runs and tries again; what it waits for is granted when it *)
(* is free at infinitely many of its tries. Reads and writes end. Nothing  *)
(* makes a process close a registry it has opened.                         *)
Fairness ==
    \A p \in Proc :
        /\ SF_vars(Attach(p))
        /\ SF_vars(Statement(p) \/ AlreadyCreated(p))
        /\ WF_vars(CommitWaits(p) \/ CommitQueries(p) \/ CommitWrite(p))
        /\ WF_vars(CannotUpdate(p) \/ UpToDate(p) \/ Outdated(p))
        /\ WF_vars(SecondPass(p))
        /\ WF_vars(EndRead(p))
        /\ WF_vars(Insert(p) \/ RollbackWrite(p))
        /\ WF_vars(Close(p) /\ pc[p] = "failed")

FairSpec == Spec /\ Fairness

-----------------------------------------------------------------------------
(* The committed schema is the one its version names, whoever was killed   *)
(* or failed half-way, and whether it was created or upgraded              *)
(* (create_tables, update_db).                                             *)
SchemaComplete ==
    IF db.ver = NoVersion
      THEN db = Empty
      ELSE db.parts \ {"portfiles_update_needed"} = Schema(db.ver)

(* No entry whose commit was reported is lost and none appears twice, even *)
(* by an upgrade that makes the tables anew.                               *)
EntriesKept == db.rows = acked

(* Who has opened the registry finds tables of a version it knows.         *)
OpenFindsTables ==
    \A p \in Proc : pc[p] \in Using => db.ver \in 1 .. Newest

(* Two connections wait for each other: one wants to commit, the other     *)
(* reads the old version and wants to upgrade.                             *)
Deadly == \E p, q \in Proc :
              /\ lock[p] = "pending"
              /\ lock[q] = "shared" /\ pc[q] = "update"

(* An open ends, with success or failure, unless a commit that failed      *)
(* keeps its lock or two connections wait for each other (do_queries tries *)
(* for ever).                                                              *)
OpenEnds ==
    \A p \in Proc :
        pc[p] \in Opening ~> pc[p] \notin Opening \/ Deadly
                             \/ \E q \in Proc : pc[q] = "stuck" /\ lock[q] # "none"

(* A registry that was opened has the newest schema ("executes SQL to      *)
(* update the schema to newer versions if needed", sql.c lines 226-227).   *)
OpenIsCurrent == \A p \in Proc : pc[p] \in Using => db.ver = Newest
=============================================================================
