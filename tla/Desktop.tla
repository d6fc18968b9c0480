------------------------------ MODULE Desktop ------------------------------
(***************************************************************************)
(* The desktop program around the ledger: how a start finds, makes and     *)
(* upgrades the database file, the automatic copies it takes when it       *)
(* starts and ends, and the two operations that throw data away on         *)
(* purpose, "reset" and "restore", with their safety copies.               *)
(*                                                                         *)
(* Two copies of the program may run on one data directory: a busy port    *)
(* only makes the second one take the next port.  A program may die at any *)
(* step, and the operations of one program run in several threads.         *)
(***************************************************************************)
EXTENDS Installation, FiniteSets

CONSTANTS
  Programs,     \* running copies of the program
  Threads,      \* threads that serve requests
  Absent,       \* there is no such file
  Damaged,      \* a file that SQLite rejects: cut short, or being written
  Nothing,      \* the program and the source of an idle thread
  Keep,         \* AUTO_BACKUP_KEEP
  MaxSeconds, MaxCommits, MaxStarts, MaxEvents   \* bounds

ASSUME DesktopAssumption ==
  /\ Keep \in Nat \ {0} /\ MaxCommits \in Nat \ {0}
  /\ MaxSeconds \in Nat /\ MaxStarts \in Nat /\ MaxEvents \in Nat
  /\ Absent # Damaged /\ Absent \notin Contents /\ Damaged \notin Contents

VARIABLES
  version,   \* the version of the installed program
  db,        \* the database file
  legacy,    \* the database an older release kept beside the program
  backups,   \* the backup directory: <<second, label>> -> file
  now,       \* the clock, in the whole seconds that name a backup
  program,   \* what each copy of the program is doing
  request,   \* what each thread is doing
  commits, starts,   \* counters, for identities and bounds
  events,    \* how many requests and faults there have been
  promised,  \* contents copied on request, or before they were thrown away
  saved,     \* an automatic copy was taken after the last change
  accidents  \* the kinds of known accidents that have happened

vars == <<version, db, legacy, backups, now, program, request, commits, starts,
          events, promised, saved, accidents>>

Safety == {"before-reset", "before-restore"}
Asked == {"manual"}   \* and "download", which differs in nothing but the label
Labels == {"startup"} \union Safety \union Asked
Steps == {"off", "open", "carry", "look", "migrate", "setup", "backup", "serve",
          "ended"}
Accidents == {"carryBroken", "halfMade", "unmanned", "torn", "overlapped",
              "hurried", "overwritten", "exchanged"}

Files == Contents \union {Absent, Damaged}
IsWhole(file) == file \notin {Absent, Damaged}
IsUnmanned(file) == IsWhole(file) /\ ~file.admin

Off == [step |-> "off", first |-> FALSE, ready |-> FALSE]
Idle == [step |-> "idle", at |-> Nothing, source |-> Nothing, held |-> Absent,
         mixed |-> FALSE]

TypeOK ==
  /\ version \in Versions
  /\ db \in Files /\ legacy \in Files \ {Damaged}
  /\ DOMAIN backups \subseteq (0 .. MaxSeconds) \X Labels
  /\ \A n \in DOMAIN backups : backups[n] \in Files \ {Absent}
  /\ now \in 0 .. MaxSeconds
  /\ program \in [Programs -> [step : Steps, first : BOOLEAN, ready : BOOLEAN]]
  /\ request \in [Threads ->
       [step : {"idle", "clear", "guard", "open", "copy"}, at : Programs \union {Nothing},
        source : ((0 .. MaxSeconds) \X Labels) \union {Nothing}, held : Files,
        mixed : BOOLEAN]]
  /\ commits \in 0 .. MaxCommits /\ starts \in 0 .. MaxStarts
  /\ events \in 0 .. MaxEvents
  /\ promised \subseteq Contents
  /\ saved \in BOOLEAN
  /\ accidents \subseteq Accidents

\* The older release was set up in its own directory, and worked with.
LegacyContents == [SetUp(Migrated(Empty, 1), 1, TRUE) EXCEPT !.books = 1, !.origin = "legacy"]

Init ==
  /\ version = 1
  /\ db = Absent
  /\ legacy \in {Absent, LegacyContents}
  /\ backups = [n \in {} |-> Absent]
  /\ now = 0
  /\ program = [i \in Programs |-> Off]
  /\ request = [t \in Threads |-> Idle]
  /\ commits = (IF legacy = Absent THEN 0 ELSE 1)
  /\ starts = 0 /\ events = 0
  /\ promised = {} /\ saved = FALSE /\ accidents = {}

-----------------------------------------------------------------------------
(* Steps that many operations share.                                       *)

Event == events < MaxEvents /\ events' = events + 1

\* The environment fails the program here: a full disk, a lock held too long.
Fault == Event

Advance(i, next) == program' = [program EXCEPT ![i].step = next]
Serves(i) == program[i].step \in {"serve", "ended"}
Copying(t) == request[t].step = "copy"

\* The database file is being written, by a copy over it.
WrittenBy(P, T) == (\E i \in P : program[i].step = "carry") \/ (\E t \in T : Copying(t))

With(directory, name, file) ==
  [n \in DOMAIN directory \union {name} |-> IF n = name THEN file ELSE directory[n]]

\* Variant for mutation: the list is sorted the other way round.
PrunedNewest(directory) ==
  LET automatic == {n \in DOMAIN directory : n[2] = "startup"}
      old == {n \in automatic : Cardinality({m \in automatic : m[1] < n[1]}) >= Keep}
  IN [n \in DOMAIN directory \ old |-> directory[n]]

\* prune_auto_backups: only automatic copies, and the newest Keep of them stay.
Automatic(directory) == {n \in DOMAIN directory : n[2] = "startup"}
Pruned(directory) ==
  LET old == {n \in Automatic(directory) :
                Cardinality({m \in Automatic(directory) : m[1] > n[1]}) >= Keep}
  IN [n \in DOMAIN directory \ old |-> directory[n]]

\* create_backup.  The name has a resolution of one second: a second copy of one
\* label in one second replaces the first, also under a thread restoring it.  The
\* automatic callers prune after a copy that went through.
Copy(label) ==
  /\ db # Absent
  /\ LET directory == With(backups, <<now, label>>, db)
     IN backups' = IF label = "startup" THEN Pruned(directory) ELSE directory
  /\ accidents' = IF <<now, label>> \in DOMAIN backups /\ backups[<<now, label>>] # db
       THEN accidents \union
              (IF label # "startup" THEN {"overwritten"} ELSE {}) \union
              (IF \E t \in Threads : request[t].source = <<now, label>> THEN {"exchanged"} ELSE {})
       ELSE accidents

\* Opening the target makes a file of no length, which is all that is left of a
\* copy that was cut short.
CutShort(label) == IF <<now, label>> \in DOMAIN backups
                     THEN backups ELSE With(backups, <<now, label>>, Empty)

CopyFails(label) ==
  /\ \/ db \in {Absent, Damaged} /\ UNCHANGED events
     \/ Fault
  /\ backups' = IF db = Absent THEN backups ELSE CutShort(label)
  /\ UNCHANGED accidents

-----------------------------------------------------------------------------
(* A start: data_dir, prepare_database.                                    *)

\* Variant for mutation: the old directory is asked about the new database.
StartInverted(i) ==
  /\ program[i].step = "off" /\ starts < MaxStarts
  /\ starts' = starts + 1
  /\ program' = [program EXCEPT ![i] =
       [Off EXCEPT !.step = IF db # Absent /\ legacy # Absent THEN "open" ELSE "look"]]
  /\ UNCHANGED <<version, db, legacy, backups, now, request, commits, events,
                 promised, saved, accidents>>

\* data_dir: _migrate_legacy_data looks for a database first, and copies over
\* it after.
Start(i) ==
  /\ program[i].step = "off" /\ starts < MaxStarts
  /\ starts' = starts + 1
  /\ program' = [program EXCEPT ![i] =
       [Off EXCEPT !.step = IF db = Absent /\ legacy # Absent THEN "open" ELSE "look"]]
  /\ UNCHANGED <<version, db, legacy, backups, now, request, commits, events,
                 promised, saved, accidents>>

\* Opening the target empties it, also when another start has made it by now.
OpenLegacy(i) ==
  /\ program[i].step = "open"
  /\ \/ /\ db' = Damaged /\ saved' = FALSE
        /\ program' = [j \in Programs |->
             [program[j] EXCEPT !.step = IF j = i THEN "carry" ELSE @, !.ready = FALSE]]
        /\ accidents' = IF db = Absent THEN accidents ELSE accidents \union {"overlapped"}
        /\ UNCHANGED events
     \/ /\ Fault
        /\ Advance(i, "look")
        /\ accidents' = accidents \union {"carryBroken"}
        /\ UNCHANGED <<db, saved>>
  /\ UNCHANGED <<version, legacy, backups, now, request, commits, starts, promised>>

\* An error of the copy is only reported; what was written so far stays.
Carry(i) ==
  /\ program[i].step = "carry"
  /\ \/ /\ db' = IF WrittenBy(Programs \ {i}, Threads) THEN Damaged ELSE legacy
        /\ UNCHANGED <<events, accidents>>
     \/ /\ Fault
        /\ db' \in {Empty, Damaged}
        /\ db' = Empty => ~WrittenBy(Programs \ {i}, Threads)
        /\ accidents' = accidents \union {"carryBroken"}
  /\ Advance(i, "look")
  /\ UNCHANGED <<version, legacy, backups, now, request, commits, starts, promised, saved>>

\* Variant for mutation: first_run is read after "migrate" has made the file.
LookAfter(i) ==
  /\ program[i].step = "look"
  /\ program' = [program EXCEPT ![i].step = "migrate", ![i].first = FALSE]
  /\ UNCHANGED <<version, db, legacy, backups, now, request, commits, starts, events,
                 promised, saved, accidents>>

\* first_run is decided before "migrate" makes the file, and acted on after.
Look(i) ==
  /\ program[i].step = "look"
  /\ program' = [program EXCEPT ![i].step = "migrate", ![i].first = (db = Absent)]
  /\ UNCHANGED <<version, db, legacy, backups, now, request, commits, starts, events,
                 promised, saved, accidents>>

\* An error of "migrate" ends the program.
Migrate(i) ==
  /\ program[i].step = "migrate"
  /\ \/ /\ db # Damaged
        /\ db' = Migrated(IF db = Absent THEN Empty ELSE db, version)
        /\ Advance(i, "setup")
        /\ UNCHANGED <<events, accidents>>
     \/ /\ \/ db = Damaged /\ UNCHANGED events
           \/ Fault
        /\ db' = IF db = Absent THEN Empty ELSE db
        /\ program' = [program EXCEPT ![i] = Off]
        /\ accidents' = IF program[i].first THEN accidents \union {"halfMade"} ELSE accidents
  /\ saved' = (saved /\ db' = db)
  /\ UNCHANGED <<version, legacy, backups, now, request, commits, starts, promised>>

\* create_first_admin lets an error end the program, upgrade_existing_install
\* reports it and goes on.
PrepareDatabase(i) ==
  /\ program[i].step = "setup"
  /\ \/ /\ IsWhole(db) /\ CanSetUp(db, version)
        /\ db' = SetUp(db, version, program[i].first)
        /\ program' = [program EXCEPT ![i] =
             [step |-> IF @.first THEN "serve" ELSE "backup", first |-> FALSE, ready |-> TRUE]]
        /\ UNCHANGED <<events, accidents>>
     \/ /\ \/ ~(IsWhole(db) /\ CanSetUp(db, version)) /\ UNCHANGED events
           \/ Fault
        /\ IF program[i].first
             THEN /\ program' = [program EXCEPT ![i] = Off]
                  /\ accidents' = accidents \union {"halfMade"}
             ELSE Advance(i, "backup") /\ UNCHANGED accidents
        /\ UNCHANGED db
  /\ saved' = (saved /\ db' = db)
  /\ UNCHANGED <<version, legacy, backups, now, request, commits, starts, promised>>

\* backup_on_startup: an error is logged and forgotten.
AutomaticCopy ==
  \/ /\ Copy("startup")
     /\ saved' = IsWhole(db)
     /\ UNCHANGED events
  \/ CopyFails("startup") /\ UNCHANGED saved

BackupOnStartup(i) ==
  /\ program[i].step = "backup"
  /\ AutomaticCopy
  /\ Advance(i, "serve")
  /\ UNCHANGED <<version, db, legacy, now, request, commits, starts, promised>>

-----------------------------------------------------------------------------
(* The end of a program: closed, or killed at any step.                    *)

\* backup_on_exit, by the first of its two callers.
Close(i) ==
  /\ program[i].step = "serve"
  /\ AutomaticCopy
  /\ program' = [program EXCEPT ![i] = [Off EXCEPT !.step = "ended"]]
  /\ UNCHANGED <<version, db, legacy, now, request, commits, starts, promised>>

CopyingAt(i) == {t \in Threads : Copying(t) /\ request[t].at = i}

\* What a program that dies leaves of the file it was writing.
LeftOfDatabase(i) ==
  IF WrittenBy(Programs \ {i}, Threads \ CopyingAt(i)) THEN {db}
  ELSE IF WrittenBy({i}, CopyingAt(i)) THEN {Empty, Damaged}
  ELSE IF program[i].step = "migrate" /\ db = Absent THEN {Absent, Empty}
  ELSE {db}

\* A backup it was writing is left as CopyFails leaves it.
Die(i) ==
  /\ db' \in LeftOfDatabase(i)
  /\ program' = [j \in Programs |-> IF j = i THEN Off
                                     ELSE [program[j] EXCEPT !.ready = @ /\ db' = db]]
  /\ request' = [t \in Threads |-> IF request[t].at = i THEN Idle ELSE request[t]]
  /\ accidents' = accidents \union
       (IF program[i].step = "carry" THEN {"carryBroken"} ELSE {}) \union
       (IF program[i].first /\ program[i].step \in {"migrate", "setup"} THEN {"halfMade"} ELSE {})
       \union (IF CopyingAt(i) # {} THEN {IF db' = Empty THEN "unmanned" ELSE "torn"} ELSE {})
  /\ UNCHANGED <<version, legacy, backups, now, commits, starts, promised, saved>>

Crash(i) == program[i].step # "off" /\ Fault /\ Die(i)

\* The threads of a program that ends are not waited for.
End(i) == program[i].step = "ended" /\ UNCHANGED events /\ Die(i)

-----------------------------------------------------------------------------
(* The day at the office.                                                  *)

\* Every page asks the database who is signed in.
SignedIn(i) == Serves(i) /\ IsWhole(db) /\ db.schema = version /\ db.admin

Change(c) ==
  /\ commits < MaxCommits /\ commits' = commits + 1
  /\ db' = c
  /\ saved' = FALSE
  /\ UNCHANGED <<version, legacy, backups, now, program, request, starts, events,
                 promised, accidents>>

\* Any commit that changes documents; any user with the permission makes one.
Work(i) ==
  /\ Serves(i) /\ IsWhole(db) /\ db.schema = version /\ db.admin
  /\ Change([db EXCEPT !.books = commits + 1])

\* role_edit, of one permission that is taken away.
EditRole(i) ==
  /\ SignedIn(i)
  /\ \E r \in DOMAIN db.grants : \E p \in db.grants[r] :
       Change(Regrant(db, r, db.grants[r] \ {p}))

\* currency_edit lets the code of the base currency be changed.
EditCurrency(i) == SignedIn(i) /\ ~db.renamed /\ Change([db EXCEPT !.renamed = TRUE])

Requested(t, i) ==
  /\ request[t] = Idle /\ SignedIn(i)
  /\ Event

\* backup_create and backup_download.
AskCopy(t, i) ==
  /\ Requested(t, i)
  /\ \E label \in Asked :
       \/ Copy(label) /\ promised' = promised \union {db}
       \/ CopyFails(label) /\ UNCHANGED promised
  /\ UNCHANGED <<version, db, legacy, now, program, request, commits, starts, saved>>

\* data_reset, up to its safety copy: without one nothing is cleared.
Reset(t, i) ==
  /\ Requested(t, i)
  /\ \/ /\ Copy("before-reset")
        /\ request' = [request EXCEPT ![t] = [Idle EXCEPT !.step = "clear", !.at = i, !.held = db]]
     \/ CopyFails("before-reset") /\ UNCHANGED request
  /\ UNCHANGED <<version, db, legacy, now, program, commits, starts, promised, saved>>

\* The contents about to be thrown away are the ones of the safety copy,
\* unless somebody changed them in between.
Discard(t) ==
  /\ promised' = promised \union ({db} \ {Damaged})
  /\ accidents' = accidents \union (IF db = request[t].held THEN {} ELSE {"hurried"})

\* The transaction of data_reset.
Clear(t) ==
  /\ request[t].step = "clear"
  /\ \/ /\ IsWhole(db) /\ db.schema >= 1
        /\ Discard(t)
        /\ db' = [db EXCEPT !.books = 0]
        /\ saved' = FALSE
     \/ /\ ~(IsWhole(db) /\ db.schema >= 1)
        /\ UNCHANGED <<db, promised, accidents, saved>>
  /\ request' = [request EXCEPT ![t] = Idle]
  /\ UNCHANGED <<version, legacy, backups, now, program, commits, starts, events>>

\* Variant for mutation: without the integrity check.
ChooseBackupUnchecked(t, i) ==
  /\ request[t] = Idle /\ SignedIn(i) /\ Event
  /\ \E n \in DOMAIN backups :
       request' = [request EXCEPT ![t] = [Idle EXCEPT !.step = "guard", !.at = i, !.source = n]]
  /\ UNCHANGED <<version, db, legacy, backups, now, program, commits, starts,
                 promised, saved, accidents>>

\* restore_backup: an existing file that passes PRAGMA integrity_check.
ChooseBackup(t, i) ==
  /\ Requested(t, i)
  /\ \E n \in DOMAIN backups :
       /\ IsWhole(backups[n])
       /\ request' = [request EXCEPT ![t] = [Idle EXCEPT !.step = "guard", !.at = i, !.source = n]]
  /\ UNCHANGED <<version, db, legacy, backups, now, program, commits, starts,
                 promised, saved, accidents>>

\* Variant for mutation: the copy is one of the automatic ones, which are pruned.
GuardCopyPruned(t) ==
  /\ request[t].step = "guard"
  /\ \/ /\ Copy("startup")
        /\ request' = [request EXCEPT ![t].step = "open", ![t].held = db]
        /\ UNCHANGED events
     \/ CopyFails("startup") /\ request' = [request EXCEPT ![t] = Idle]
  /\ UNCHANGED <<version, db, legacy, now, program, commits, starts, promised, saved>>

GuardCopy(t) ==
  /\ request[t].step = "guard"
  /\ \/ /\ Copy("before-restore")
        /\ request' = [request EXCEPT ![t].step = "open", ![t].held = db]
        /\ UNCHANGED events
     \/ CopyFails("before-restore") /\ request' = [request EXCEPT ![t] = Idle]
  /\ UNCHANGED <<version, db, legacy, now, program, commits, starts, promised, saved>>

\* shutil.copy2 opens the source, which may be gone, and empties the target.
\* close_all closes the connections of this thread only.
OpenTarget(t) ==
  /\ request[t].step = "open"
  /\ \/ /\ request[t].source \in DOMAIN backups
        /\ Discard(t)
        /\ db' = Damaged /\ saved' = FALSE
        /\ request' = [u \in Threads |->
             [request[u] EXCEPT !.step = IF u = t THEN "copy" ELSE @,
                                !.held = IF u = t THEN backups[request[t].source] ELSE @,
                                !.mixed = @ \/ (\E w \in Threads : Copying(w) /\ u \in {t, w})]]
     \/ /\ request[t].source \notin DOMAIN backups
        /\ request' = [request EXCEPT ![t] = Idle]
        /\ UNCHANGED <<db, promised, saved, accidents>>
  /\ UNCHANGED <<version, legacy, backups, now, program, commits, starts, events>>

\* A file that is open for reading can be written over, but not removed.
Exchanged(t) == request[t].source \in DOMAIN backups /\ backups[request[t].source] # request[t].held

\* The end of the copy, or its failure half way.
CloseTarget(t) ==
  /\ Copying(t)
  /\ \/ /\ IF WrittenBy(Programs, Threads \ {t})
             THEN db' = Damaged
             ELSE db' \in {request[t].held} \union
                            (IF request[t].mixed \/ Exchanged(t) THEN {Damaged} ELSE {})
        /\ accidents' = accidents \union (IF IsUnmanned(db') THEN {"unmanned"} ELSE {})
                                  \union (IF request[t].mixed THEN {"overlapped"} ELSE {})
        /\ UNCHANGED events
     \/ /\ Fault
        /\ db' \in {Empty, Damaged}
        /\ db' = Empty => ~WrittenBy(Programs, Threads \ {t})
        /\ accidents' = accidents \union {IF db' = Empty THEN "unmanned" ELSE "torn"}
  /\ program' = [i \in Programs |-> [program[i] EXCEPT !.ready = FALSE]]
  /\ request' = [request EXCEPT ![t] = Idle]
  /\ UNCHANGED <<version, legacy, backups, now, commits, starts, promised, saved>>

-----------------------------------------------------------------------------
\* The clock matters when a copy has taken a name of this second.
Tick ==
  /\ now < MaxSeconds /\ now' = now + 1
  /\ \E n \in DOMAIN backups : n[1] = now
  /\ UNCHANGED <<version, db, legacy, backups, program, request, commits, starts, events,
                 promised, saved, accidents>>

\* The owner puts a newer program in place of the old one.
Upgrade ==
  /\ version < MaxVersion /\ \A i \in Programs : program[i] = Off
  /\ version' = version + 1
  /\ UNCHANGED <<db, legacy, backups, now, program, request, commits, starts, events,
                 promised, saved, accidents>>

Next ==
  \/ \E i \in Programs :
       \/ Start(i) \/ OpenLegacy(i) \/ Carry(i) \/ Look(i) \/ Migrate(i)
       \/ PrepareDatabase(i) \/ BackupOnStartup(i)
       \/ Close(i) \/ End(i) \/ Crash(i)
       \/ Work(i) \/ EditRole(i) \/ EditCurrency(i)
       \/ \E t \in Threads : AskCopy(t, i) \/ Reset(t, i) \/ ChooseBackup(t, i)
  \/ \E t \in Threads : Clear(t) \/ GuardCopy(t) \/ OpenTarget(t) \/ CloseTarget(t)
  \/ Tick
  \/ Upgrade

Spec == Init /\ [][Next]_vars

-----------------------------------------------------------------------------
\* Whatever a reset cleared, a restore replaced or a user asked a copy of is
\* still in a backup that retention never removes, and can be restored from
\* there ("if it was a mistake there is a way back", data_reset and
\* restore_backup).  Only two things break this: work between the safety copy
\* and the loss, and a second copy of the same kind in the same second, which
\* takes the name of the first.
WayBack ==
  accidents \cap {"hurried", "overwritten"} = {} =>
    \A c \in promised : \E n \in DOMAIN backups : n[2] # "startup" /\ backups[n] = c

\* A program never serves a database nobody can sign in to: the first start
\* makes the administrator, or is still about to.  The exceptions are exact: a
\* start that died between making the file and setting it up, after which every
\* later start takes the other branch of prepare_database; and a file without an
\* administrator that a restore brought back or left: a copy that was cut short is
\* an empty one, and a second program may copy the database of a first start.
AdministratorThere ==
  (\E i \in Programs : program[i].step = "serve") /\ IsWhole(db)
    /\ accidents \cap {"halfMade", "unmanned", "carryBroken"} = {}
  => \/ db.admin
     \/ \E i \in Programs : program[i].first /\ program[i].step = "setup"

\* Work entered with an older release is not lost by moving to the fixed data
\* directory: whatever is served then descends from the old database, unless
\* carrying it over was cut short or a restore left an empty file.
LegacyCarried ==
  (\E i \in Programs : program[i].step = "serve") /\ IsWhole(db) /\ legacy # Absent
    /\ accidents \cap {"carryBroken", "unmanned"} = {}
  => db.origin = "legacy"

\* The database file is readable except while a copy over it is running, and
\* after one that was cut short or overlapped another: restoring refuses a
\* damaged backup, and a program that is about to end may well have made one.
NeverRestoresDamage ==
  db = Damaged =>
    \/ WrittenBy(Programs, Threads)
    \/ accidents \cap {"carryBroken", "torn", "overlapped", "exchanged"} # {}

\* After an automatic copy and until the next change, retention keeps a copy of
\* exactly what is in the database, however many programs start, end, prune or
\* die in the middle of a copy of their own.
AutomaticCopyStands ==
  saved => IsWhole(db) /\ \E n \in Automatic(backups) : backups[n] = db

\* A permission the office took from a role comes back on its own only if there
\* was a start at which no role at all held it, which a start takes for a
\* permission new in that version.
TakenStays ==
  IsWhole(db) =>
    \A r \in DOMAIN db.grants : \A p \in db.grants[r] :
      <<r, p>> \in db.taken => p \in db.vacant

\* A program whose own setup went through serves a database in which every
\* permission of its version is held by some role, unless the office took it
\* away: what a new version brings also reaches old installations.
UpgradeArrives ==
  \A i \in Programs :
    program[i].ready /\ program[i].step \in {"backup", "serve"} /\ IsWhole(db) =>
      \A p \in Catalog(version) : p \in Held(db) \/ \E r \in Roles : <<r, p>> \in db.taken
=============================================================================
