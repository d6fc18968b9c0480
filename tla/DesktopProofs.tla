---------------------------- MODULE DesktopProofs ----------------------------
(***************************************************************************)
(* What Desktop promises, for every number of programs, threads, versions, *)
(* roles and permissions: a way back, an administrator, the work of an     *)
(* older release, a readable file, a current copy, permissions that stay   *)
(* taken and permissions that arrive.                                      *)
(***************************************************************************)
EXTENDS Desktop, FiniteSetTheorems, TLAPS

-----------------------------------------------------------------------------
(* The inductive invariant *)

\* A permission that was taken away and is held again was vacant at some start, and
\* only existing roles had permissions taken away.
Sane(c) ==
  /\ \A r \in DOMAIN c.grants : \A p \in c.grants[r] : <<r, p>> \in c.taken => p \in c.vacant
  /\ \A r \in Roles : \A p \in Permissions : <<r, p>> \in c.taken => r \in DOMAIN c.grants

\* Every permission of version v is held by a role or was taken from one.
Complete(c, v) == \A p \in Catalog(v) : p \in Held(c) \/ \E r \in Roles : <<r, p>> \in c.taken

IsManned(file) == IsWhole(file) /\ file.admin

InBackup(file) == \E n \in DOMAIN backups : n[2] # "startup" /\ backups[n] = file

Free(kinds) == accidents \cap kinds = {}

\* What may come back into the database one day.
Stored == {backups[n] : n \in DOMAIN backups} \union {request[t].held : t \in Threads}

\* Names come from the clock; a name of this second is never pruned.
Clock ==
  /\ \A n \in DOMAIN backups : n[1] <= now
  /\ \A t \in Threads :
       LET source == request[t].source
       IN  request[t].step \in {"guard", "open", "copy"} =>
             /\ source \in (0 .. MaxSeconds) \X Labels /\ source[1] <= now
             /\ source[1] = now => source \in DOMAIN backups

\* What is written over the database is there, and once there it stays.
Sources ==
  /\ legacy \in {Absent, LegacyContents}
  /\ \A i \in Programs : program[i].step \in {"open", "carry"} => legacy # Absent
  /\ \A t \in Threads : request[t].step # "idle" => db # Absent
  /\ \A t \in Threads : Copying(t) => request[t].held # Absent

\* Nobody can read the database while it is being written.
Written == WrittenBy(Programs, Threads) => db = Damaged

Sound == \A f \in Stored \union {db} : IsWhole(f) => Sane(f)

\* A database without an administrator is being set up, and only a first start makes one.
Manned ==
  /\ Free({"halfMade", "unmanned", "carryBroken"}) /\ IsUnmanned(db) =>
       \E i \in Programs : program[i].first /\ program[i].step = "setup"
  /\ \A i \in Programs : program[i].step = "migrate" /\ ~program[i].first => db # Absent

\* Whatever there is to serve comes from the old database, and whatever there is
\* to restore.
Descent ==
  legacy # Absent /\ Free({"carryBroken", "unmanned"}) =>
    /\ IsWhole(db) => db.origin = "legacy"
    /\ \A i \in Programs : program[i].step \notin {"off", "open"} => db # Absent

Lineage ==
  legacy # Absent /\ Free({"carryBroken", "unmanned"}) =>
    \A f \in Stored : IsManned(f) => f.origin = "legacy"

\* What a request is about to throw away is in its safety copy.
SafetyCopies ==
  Free({"overwritten"}) =>
    \A t \in Threads : request[t].step \in {"clear", "open"} => InBackup(request[t].held)

\* What a restore has chosen or opened is what was checked.
Chosen ==
  Free({"exchanged"}) =>
    \A t \in Threads :
      /\ request[t].step \in {"guard", "open"} /\ request[t].source \in DOMAIN backups
           => IsWhole(backups[request[t].source])
      /\ Copying(t) => IsWhole(request[t].held) /\ ~Exchanged(t)

\* A program whose set-up went through has a database with what its version brings.
Ready ==
  \A i \in Programs : program[i].ready =>
    /\ db # Absent
    /\ \A j \in Programs : program[j].step # "carry"
    /\ IsWhole(db) => Complete(db, version)

IInv ==
  /\ TypeOK
  /\ Clock
  /\ Sources
  /\ Written
  /\ Sound
  /\ Manned
  /\ Descent
  /\ Lineage
  /\ SafetyCopies
  /\ WayBack
  /\ Chosen
  /\ NeverRestoresDamage
  /\ AutomaticCopyStands
  /\ Ready

-----------------------------------------------------------------------------
(* The contents of a database file *)

USE DesktopAssumption, InstallationAssumption

\* d is the same installation as c, later: it keeps its administrator, its
\* origin, and what is right about its permissions.
Heir(c, d) ==
  /\ d \in Contents
  /\ c.admin => d.admin
  /\ d.origin = c.origin
  /\ Sane(c) => Sane(d)
  /\ \A v \in Versions : Complete(c, v) => Complete(d, v)

LEMMA ContentsWhole ==
  /\ \A c \in Contents : IsWhole(c)
  /\ \A f \in Files : IsWhole(f) => f \in Contents
BY DEF IsWhole, Files

\* The record of one installation, by its fields.
File(schema, books, admin, grants, renamed, taken, vacant, origin) ==
  [schema |-> schema, books |-> books, admin |-> admin, grants |-> grants,
   renamed |-> renamed, taken |-> taken, vacant |-> vacant, origin |-> origin]

LEMMA ContentsShape ==
  ASSUME NEW c \in Contents
  PROVE  /\ c.schema \in 0 .. MaxVersion /\ c.books \in Nat
         /\ c.admin \in BOOLEAN /\ c.renamed \in BOOLEAN
         /\ c.taken \subseteq Roles \X Permissions /\ c.vacant \subseteq Permissions
         /\ c.origin \in {"here", "legacy"}
         /\ DOMAIN c.grants \subseteq Roles
         /\ c.grants \in [DOMAIN c.grants -> SUBSET Permissions]
         /\ c = File(c.schema, c.books, c.admin, c.grants, c.renamed, c.taken, c.vacant, c.origin)
<1> DEFINE d == File(c.schema, c.books, c.admin, c.grants, c.renamed, c.taken, c.vacant, c.origin)
<1>1. c = d
  BY DEF Contents, File
<1>2. QED
  BY <1>1 DEF Contents

LEMMA ContentsFrom ==
  ASSUME NEW schema \in 0 .. MaxVersion, NEW books \in Nat, NEW admin \in BOOLEAN,
         NEW R \in SUBSET Roles, NEW grants \in [R -> SUBSET Permissions],
         NEW renamed \in BOOLEAN, NEW taken \in SUBSET (Roles \X Permissions),
         NEW vacant \in SUBSET Permissions, NEW origin \in {"here", "legacy"}
  PROVE  File(schema, books, admin, grants, renamed, taken, vacant, origin)
           \in Contents
<1>1. grants \in UNION {[S -> SUBSET Permissions] : S \in SUBSET Roles}
  OBVIOUS
<1>2. QED
  BY <1>1 DEF Contents, File

LEMMA ContentsWith ==
  ASSUME NEW c \in Contents, NEW schema \in 0 .. MaxVersion, NEW books \in Nat,
         NEW renamed \in BOOLEAN
  PROVE  File(schema, books, c.admin, c.grants, renamed, c.taken, c.vacant, c.origin)
           \in Contents
<1>1. /\ c.admin \in BOOLEAN /\ DOMAIN c.grants \in SUBSET Roles
      /\ c.grants \in [DOMAIN c.grants -> SUBSET Permissions]
      /\ c.taken \in SUBSET (Roles \X Permissions) /\ c.vacant \in SUBSET Permissions
      /\ c.origin \in {"here", "legacy"}
  BY ContentsShape
<1>2. QED
  BY <1>1, ContentsFrom, Zenon

\* A file of no length.
LEMMA EmptyContents ==
  Empty \in Contents /\ Sane(Empty) /\ ~Empty.admin
<1> DEFINE none == [r \in {} |-> {}]
<1>1. none \in [{} -> SUBSET Permissions] /\ {} \in SUBSET Roles
  OBVIOUS
<1>2. Empty \in Contents
  <2>1. Empty = File(0, 0, FALSE, none, FALSE, {}, {}, "here")
    BY DEF Empty, File
  <2>2. 0 \in 0 .. MaxVersion /\ 0 \in Nat
    OBVIOUS
  <2> HIDE DEF none
  <2>3. QED
    BY <1>1, <2>1, <2>2, ContentsFrom
<1>3. QED
  BY <1>2 DEF Empty, Sane

\* Contents that differ in neither administrator, origin nor permissions.
LEMMA SameGrants ==
  ASSUME NEW c \in Contents, NEW d \in Contents, d.admin = c.admin, d.origin = c.origin,
         d.grants = c.grants, d.taken = c.taken, d.vacant = c.vacant
  PROVE  Heir(c, d)
<1>1. Sane(c) => Sane(d)
  BY DEF Sane
<1>2. Held(d) = Held(c)
  BY DEF Held
<1>3. \A v \in Versions : Complete(c, v) => Complete(d, v)
  BY <1>2 DEF Complete
<1>4. QED
  BY <1>1, <1>3 DEF Heir

\* "migrate" moves the schema and nothing else.
LEMMA MigratedHeir ==
  ASSUME NEW c \in Contents, NEW v \in Versions
  PROVE  Heir(c, Migrated(c, v)) /\ Migrated(c, v).admin = c.admin
<1> DEFINE d == [c EXCEPT !.schema = v]
<1>1. v \in 0 .. MaxVersion
  BY DEF Versions
<1>2. d = File(v, c.books, c.admin, c.grants, c.renamed, c.taken, c.vacant, c.origin)
  <2>1. c = File(c.schema, c.books, c.admin, c.grants, c.renamed, c.taken, c.vacant, c.origin)
    BY ContentsShape
  <2>2. QED
    BY <2>1 DEF File
<1>3. d \in Contents
  <2>1. c.books \in Nat /\ c.renamed \in BOOLEAN
    BY ContentsShape
  <2> HIDE DEF d
  <2>2. QED
    BY <1>1, <1>2, <2>1, ContentsWith
<1>4. Heir(c, d) /\ Heir(c, c)
  BY <1>2, <1>3, SameGrants DEF File
<1>5. QED
  BY <1>2, <1>4 DEF Migrated, File

LEMMA BooksHeir ==
  ASSUME NEW c \in Contents, NEW n \in Nat
  PROVE  Heir(c, [c EXCEPT !.books = n])
<1> DEFINE d == [c EXCEPT !.books = n]
<1>1. d = File(c.schema, n, c.admin, c.grants, c.renamed, c.taken, c.vacant, c.origin)
  <2>1. c = File(c.schema, c.books, c.admin, c.grants, c.renamed, c.taken, c.vacant, c.origin)
    BY ContentsShape
  <2>2. QED
    BY <2>1 DEF File
<1>2. d \in Contents
  BY <1>1, ContentsShape, ContentsWith
<1>3. QED
  BY <1>1, <1>2, SameGrants DEF File

LEMMA RenamedHeir ==
  ASSUME NEW c \in Contents, NEW b \in BOOLEAN
  PROVE  Heir(c, [c EXCEPT !.renamed = b])
<1> DEFINE d == [c EXCEPT !.renamed = b]
<1>1. d = File(c.schema, c.books, c.admin, c.grants, b, c.taken, c.vacant, c.origin)
  <2>1. c = File(c.schema, c.books, c.admin, c.grants, c.renamed, c.taken, c.vacant, c.origin)
    BY ContentsShape
  <2>2. QED
    BY <2>1 DEF File
<1>2. d \in Contents
  <2>1. c.books \in Nat /\ c.schema \in 0 .. MaxVersion
    BY ContentsShape
  <2> HIDE DEF d
  <2>2. QED
    BY <1>1, <2>1, ContentsWith
<1>3. QED
  BY <1>1, <1>2, SameGrants DEF File

\* setup_sarrafi gives back only what was vacant, and leaves no permission of
\* its version without a role, but for those that were taken away.
LEMMA SetUpHeir ==
  ASSUME NEW c \in Contents, NEW v \in Versions, NEW a \in BOOLEAN
  PROVE  /\ Heir(c, SetUp(c, v, a)) /\ Complete(SetUp(c, v, a), v)
         /\ SetUp(c, v, a).admin = (c.admin \/ a)
<1> DEFINE grants == [r \in Roles |-> IF r \in DOMAIN c.grants
                                        THEN c.grants[r] \union BrandNew(c, v, r)
                                        ELSE Defaults[v][r]]
           vacant == IF DOMAIN c.grants = {} THEN c.vacant
                       ELSE c.vacant \union (Catalog(v) \ Held(c))
           d == File(c.schema, c.books, (c.admin \/ a), grants, c.renamed, c.taken, vacant, c.origin)
<1>1. SetUp(c, v, a) = d
  <2>1. c = File(c.schema, c.books, c.admin, c.grants, c.renamed, c.taken, c.vacant, c.origin)
    BY ContentsShape
  <2>2. SetUp(c, v, a) = [c EXCEPT !.grants = grants, !.vacant = vacant, !.admin = c.admin \/ a]
    BY DEF SetUp
  <2> HIDE DEF grants, vacant
  <2>3. QED
    BY <2>1, <2>2 DEF File
<1>2. \A r \in Roles : Defaults[v][r] \subseteq Permissions /\ Defaults[v][r] \subseteq Catalog(v)
  BY DEF Versions, Catalog
<1>3. Catalog(v) \subseteq Permissions
  BY DEF Versions, Catalog
<1>4. d \in Contents
  <2>1. grants \in [Roles -> SUBSET Permissions]
    BY <1>2, ContentsShape DEF BrandNew
  <2>2. vacant \subseteq Permissions
    BY <1>3, ContentsShape
  <2>3. (c.admin \/ a) \in BOOLEAN
    OBVIOUS
  <2> HIDE DEF grants, vacant
  <2>4. QED
    BY <2>1, <2>2, <2>3, ContentsShape, ContentsFrom
<1>5. ASSUME Sane(c) PROVE Sane(d)
  <2>1. ASSUME NEW r \in Roles, NEW p \in grants[r], <<r, p>> \in c.taken
        PROVE  p \in vacant
    <3>1. p \in Permissions /\ r \in DOMAIN c.grants
      BY <1>5, <2>1, ContentsShape DEF Sane
    <3>2. CASE p \in c.grants[r]
      BY <1>5, <2>1, <3>1, <3>2 DEF Sane
    <3>3. CASE p \in BrandNew(c, v, r)
      BY <1>2, <3>1, <3>3 DEF BrandNew
    <3>4. QED
      BY <2>1, <3>1, <3>2, <3>3
  <2>2. DOMAIN grants = Roles
    OBVIOUS
  <2> HIDE DEF grants, vacant
  <2>3. QED
    BY <2>1, <2>2 DEF Sane, File
<1>6. DOMAIN c.grants \subseteq Roles /\ \A r \in DOMAIN c.grants : c.grants[r] \subseteq grants[r]
  BY ContentsShape
<1>7. Held(d) = UNION {grants[r] : r \in Roles}
  BY DEF Held, File
<1>8. Held(c) \subseteq Held(d)
  <2> HIDE DEF grants, d
  <2>1. QED
    BY <1>6, <1>7 DEF Held
<1>9. Complete(d, v)
  <2> SUFFICES ASSUME NEW p \in Catalog(v) PROVE p \in Held(d)
    BY DEF Complete
  <2>1. PICK r \in Roles : p \in Defaults[v][r]
    BY DEF Catalog
  <2>2. p \in Held(c) \/ p \in grants[r]
    BY <2>1 DEF BrandNew
  <2>3. QED
    BY <1>7, <1>8, <2>2
<1>10. \A w \in Versions : Complete(c, w) => Complete(d, w)
  <2>1. d.taken = c.taken
    BY DEF File
  <2> HIDE DEF d
  <2>2. QED
    BY <1>8, <2>1 DEF Complete
<1>11. d.origin = c.origin /\ d.admin = (c.admin \/ a)
  BY DEF File
<1> HIDE DEF d
<1>12. QED
  BY <1>1, <1>4, <1>5, <1>9, <1>10, <1>11 DEF Heir

\* Taking a permission from a role is remembered.
LEMMA RegrantHeir ==
  ASSUME NEW c \in Contents, NEW r \in DOMAIN c.grants, NEW p \in c.grants[r]
  PROVE  Heir(c, Regrant(c, r, c.grants[r] \ {p}))
<1> DEFINE P == c.grants[r] \ {p}
           grants == [c.grants EXCEPT ![r] = P]
           taken == c.taken \union {<<r, p>>}
           d == File(c.schema, c.books, c.admin, grants, c.renamed, taken, c.vacant, c.origin)
<1>1. (c.taken \union ({r} \X (c.grants[r] \ P))) \ ({r} \X (P \ c.grants[r])) = taken
  <2>1. c.grants[r] \ P = {p} /\ P \ c.grants[r] = {}
    OBVIOUS
  <2>2. {r} \X {p} = {<<r, p>>} /\ {r} \X {} = {}
    OBVIOUS
  <2>3. QED
    BY <2>1, <2>2
<1>2. Regrant(c, r, P) = d
  <2> HIDE DEF P
  <2>1. QED
    <3>1. c = File(c.schema, c.books, c.admin, c.grants, c.renamed, c.taken, c.vacant, c.origin)
      BY ContentsShape
    <3>2. Regrant(c, r, P) = [c EXCEPT !.grants = grants, !.taken = taken]
      BY <1>1, Zenon DEF Regrant
    <3> HIDE DEF grants, taken
    <3>3. QED
      BY <3>1, <3>2 DEF File
<1>3. p \in Permissions /\ r \in Roles
  BY ContentsShape
<1>4. d \in Contents
  <2>1. grants \in [DOMAIN c.grants -> SUBSET Permissions]
    BY ContentsShape
  <2>2. taken \subseteq Roles \X Permissions
    BY <1>3, ContentsShape
  <2> HIDE DEF grants, taken
  <2>3. QED
    BY <2>1, <2>2, ContentsShape, ContentsFrom
<1>5. /\ DOMAIN grants = DOMAIN c.grants
      /\ grants[r] = c.grants[r] \ {p}
      /\ \A q \in DOMAIN c.grants : q # r => grants[q] = c.grants[q]
  BY ContentsShape
<1> HIDE DEF grants
<1>6. Sane(c) => Sane(d)
  BY <1>3, <1>5 DEF Sane, File
<1>7. Held(c) \subseteq Held(d) \union {p}
  BY <1>5 DEF Held, File
<1>8. \A v \in Versions : Complete(c, v) => Complete(d, v)
  <2>1. d.taken = c.taken \union {<<r, p>>}
    BY DEF File
  <2> HIDE DEF d
  <2>2. QED
    BY <1>3, <1>7, <2>1 DEF Complete
<1>9. d.origin = c.origin /\ d.admin = c.admin
  BY DEF File
<1> HIDE DEF d
<1>10. QED
  BY <1>2, <1>4, <1>6, <1>8, <1>9 DEF Heir

\* What an older release leaves behind.
LEMMA LegacyIsContents ==
  /\ LegacyContents \in Contents /\ Sane(LegacyContents)
  /\ LegacyContents.admin /\ LegacyContents.origin = "legacy"
<1> DEFINE m == Migrated(Empty, 1)
           c == SetUp(m, 1, TRUE)
           d == File(c.schema, 1, c.admin, c.grants, c.renamed, c.taken, c.vacant, "legacy")
<1>1. 1 \in Versions
  BY DEF Versions
<1>2. m \in Contents /\ Sane(m)
  BY <1>1, EmptyContents, MigratedHeir DEF Heir
<1> HIDE DEF m
<1>3. c \in Contents /\ Sane(c) /\ c.admin
  BY <1>1, <1>2, SetUpHeir DEF Heir
<1>4. LegacyContents = d
  <2> HIDE DEF c
  <2>1. c = File(c.schema, c.books, c.admin, c.grants, c.renamed, c.taken, c.vacant, c.origin)
    BY <1>3, ContentsShape
  <2>2. LegacyContents = [c EXCEPT !.books = 1, !.origin = "legacy"]
    BY DEF LegacyContents, c, m
  <2>3. QED
    BY <2>1, <2>2 DEF File
<1> HIDE DEF c
<1>5. d \in Contents
  BY <1>3, ContentsShape, ContentsFrom
<1>6. Sane(d)
  BY <1>3 DEF Sane, File
<1>7. QED
  BY <1>3, <1>4, <1>5, <1>6 DEF File

-----------------------------------------------------------------------------
(* The backup directory *)

\* What a copy that went through or was cut short does to the directory: it
\* changes one name, whose second is now, and retention removes automatic
\* copies of earlier seconds.
Recorded(label) ==
  /\ \A n \in DOMAIN backups' :
       \/ n \in DOMAIN backups /\ backups'[n] = backups[n]
       \/ n = <<now, label>> /\ backups'[n] \in {db, Empty} /\ backups'[n] # Absent
  /\ \A n \in DOMAIN backups : n[2] # "startup" \/ n[1] = now => n \in DOMAIN backups'
  /\ accidents \subseteq accidents'
  /\ "overwritten" \notin accidents' =>
       \A n \in DOMAIN backups : n[2] # "startup" => backups'[n] = backups[n]
  /\ "exchanged" \notin accidents' =>
       \A t \in Threads : request[t].source \in DOMAIN backups \cap DOMAIN backups' =>
         backups'[request[t].source] = backups[request[t].source]
  /\ label # "startup" =>
       \A n \in Automatic(backups) : n \in DOMAIN backups' /\ backups'[n] = backups[n]

\* A name of this second survives retention, because no name is newer.
LEMMA NewestStays ==
  ASSUME NEW directory, NEW second \in Nat,
         \A n \in DOMAIN directory : n[1] \in Nat /\ n[1] <= second
  PROVE  /\ DOMAIN Pruned(directory) \subseteq DOMAIN directory
         /\ \A n \in DOMAIN Pruned(directory) : Pruned(directory)[n] = directory[n]
         /\ \A n \in DOMAIN directory : n[2] # "startup" \/ n[1] = second =>
              n \in DOMAIN Pruned(directory)
<1> DEFINE newer(n) == {m \in Automatic(directory) : m[1] > n[1]}
           old == {n \in Automatic(directory) : Cardinality(newer(n)) >= Keep}
<1>1. Pruned(directory) = [n \in DOMAIN directory \ old |-> directory[n]]
  BY DEF Pruned
<1>2. ASSUME NEW n \in DOMAIN directory, n[2] # "startup" \/ n[1] = second
      PROVE  n \notin old
  <2>1. CASE n[2] # "startup"
    BY <2>1 DEF Automatic
  <2>2. CASE n[1] = second
    <3>1. newer(n) = {}
      BY <2>2 DEF Automatic
    <3>2. Cardinality(newer(n)) = 0
      BY <3>1, FS_EmptySet, Zenon
    <3>3. ~(0 >= Keep)
      OBVIOUS
    <3> HIDE DEF newer
    <3>4. QED
      BY <3>2, <3>3
  <2>3. QED
    BY <1>2, <2>1, <2>2
<1> HIDE DEF old
<1>3. QED
  BY <1>1, <1>2

LEMMA NowIsNatural ==
  ASSUME TypeOK, Clock
  PROVE  /\ now \in Nat /\ now \in 0 .. MaxSeconds
         /\ \A n \in DOMAIN backups : n[1] \in Nat /\ n[1] <= now
<1>1. now \in Nat /\ now \in 0 .. MaxSeconds
  BY DEF TypeOK
<1>2. \A n \in (0 .. MaxSeconds) \X Labels : n[1] \in Nat
  OBVIOUS
<1>3. QED
  BY <1>1, <1>2 DEF TypeOK, Clock

LEMMA CopyRecords ==
  ASSUME TypeOK, Clock, NEW label \in Labels, Copy(label)
  PROVE  /\ Recorded(label) /\ db # Absent
         /\ accidents' \subseteq accidents \union {"overwritten", "exchanged"}
         /\ <<now, label>> \in DOMAIN backups' /\ backups'[<<now, label>>] = db
<1> DEFINE new == <<now, label>>
           directory == With(backups, new, db)
<1>1. new[1] = now /\ new[2] = label
  OBVIOUS
<1>2. /\ DOMAIN directory = DOMAIN backups \union {new}
      /\ directory[new] = db
      /\ \A n \in DOMAIN backups : n # new => directory[n] = backups[n]
  BY DEF With
<1>3. \A n \in DOMAIN directory : n[1] \in Nat /\ n[1] <= now
  BY <1>1, <1>2, NowIsNatural
<1>4. /\ DOMAIN backups' \subseteq DOMAIN directory
      /\ \A n \in DOMAIN backups' : backups'[n] = directory[n]
      /\ \A n \in DOMAIN directory : n[2] # "startup" \/ n[1] = now => n \in DOMAIN backups'
      /\ label # "startup" => backups' = directory
  <2>1. backups' = IF label = "startup" THEN Pruned(directory) ELSE directory
    BY DEF Copy
  <2> HIDE DEF directory
  <2>2. CASE label = "startup"
    BY <2>1, <2>2, <1>3, NowIsNatural, NewestStays
  <2>3. CASE label # "startup"
    BY <2>1, <2>3
  <2>4. QED
    BY <2>2, <2>3
<1>5. /\ db # Absent
      /\ accidents' = IF new \in DOMAIN backups /\ backups[new] # db
           THEN accidents \union
                  (IF label # "startup" THEN {"overwritten"} ELSE {}) \union
                  (IF \E t \in Threads : request[t].source = new THEN {"exchanged"} ELSE {})
           ELSE accidents
  BY DEF Copy
<1> HIDE DEF directory
<1>6. new \in DOMAIN backups' /\ backups'[new] = db
  BY <1>1, <1>2, <1>4
<1>7. \A n \in DOMAIN backups' : \/ n \in DOMAIN backups /\ backups'[n] = backups[n]
                                 \/ n = new /\ backups'[n] = db
  BY <1>2, <1>4
<1>8. \A n \in DOMAIN backups : n[2] # "startup" \/ n[1] = now => n \in DOMAIN backups'
  BY <1>2, <1>4
<1>9. accidents \subseteq accidents' /\ accidents' \subseteq accidents \union {"overwritten", "exchanged"}
  BY <1>5
<1>10. ASSUME "overwritten" \notin accidents', NEW n \in DOMAIN backups, n[2] # "startup"
       PROVE  backups'[n] = backups[n]
  <2>1. n \in DOMAIN backups'
    BY <1>8, <1>10
  <2>2. CASE n # new
    BY <1>7, <2>1, <2>2
  <2>3. CASE n = new
    BY <1>1, <1>5, <1>6, <1>10, <2>3
  <2>4. QED
    BY <2>2, <2>3
<1>11. ASSUME "exchanged" \notin accidents', NEW t \in Threads,
              request[t].source \in DOMAIN backups \cap DOMAIN backups'
       PROVE  backups'[request[t].source] = backups[request[t].source]
  <2>1. PICK s : s = request[t].source
    OBVIOUS
  <2>2. CASE s # new
    BY <1>7, <1>11, <2>1, <2>2
  <2>3. CASE s = new
    BY <1>5, <1>6, <1>11, <2>1, <2>3
  <2>4. QED
    BY <2>1, <2>2, <2>3
<1>12. label # "startup" =>
         \A n \in Automatic(backups) : n \in DOMAIN backups' /\ backups'[n] = backups[n]
  BY <1>1, <1>2, <1>4 DEF Automatic
<1>13. QED
  BY <1>5, <1>6, <1>7, <1>8, <1>9, <1>10, <1>11, <1>12 DEF Recorded

LEMMA FailureRecords ==
  ASSUME NEW label \in Labels, CopyFails(label)
  PROVE  /\ Recorded(label)
         /\ accidents' = accidents
         /\ \A n \in DOMAIN backups : n \in DOMAIN backups' /\ backups'[n] = backups[n]
<1> DEFINE new == <<now, label>>
<1>1. Empty # Absent
  BY EmptyContents
<1>2. /\ \A n \in DOMAIN backups : n \in DOMAIN backups' /\ backups'[n] = backups[n]
      /\ \A n \in DOMAIN backups' : n \in DOMAIN backups \/ (n = new /\ backups'[n] = Empty)
  <2>1. CASE backups' = backups
    BY <2>1
  <2>2. CASE new \notin DOMAIN backups /\ backups' = With(backups, new, Empty)
    BY <2>2 DEF With
  <2>3. QED
    BY <2>1, <2>2 DEF CopyFails, CutShort
<1>3. accidents' = accidents
  BY DEF CopyFails
<1>4. QED
  BY <1>1, <1>2, <1>3 DEF Recorded, Automatic

\* No copy changes what a restore has chosen or opened, unless that is on record.
LEMMA SourcesStand ==
  ASSUME TypeOK, Clock, NEW label \in Labels, Recorded(label), "exchanged" \notin accidents',
         NEW t \in Threads, request[t].step \in {"guard", "open", "copy"},
         request[t].source \in DOMAIN backups'
  PROVE  /\ request[t].source \in DOMAIN backups
         /\ backups'[request[t].source] = backups[request[t].source]
<1>1. PICK s : s = request[t].source
  OBVIOUS
<1>2. s \in (0 .. MaxSeconds) \X Labels /\ (s[1] = now => s \in DOMAIN backups)
  BY <1>1 DEF Clock
<1>3. s \in DOMAIN backups
  BY <1>1, <1>2 DEF Recorded
<1>4. QED
  BY <1>1, <1>3 DEF Recorded

-----------------------------------------------------------------------------
(* Types *)

Names == (0 .. MaxSeconds) \X Labels
ProgramStates == [step : Steps, first : BOOLEAN, ready : BOOLEAN]
RequestStates ==
  [step : {"idle", "clear", "guard", "open", "copy"}, at : Programs \union {Nothing},
   source : Names \union {Nothing}, held : Files, mixed : BOOLEAN]

LEMMA Rest ==
  /\ Off \in ProgramStates /\ Idle \in RequestStates
  /\ Absent \in Files /\ Damaged \in Files /\ Empty \in Files \ {Absent}
  /\ LegacyContents \in Files \ {Absent, Damaged}
<1>1. "off" \in Steps /\ "idle" \in {"idle", "clear", "guard", "open", "copy"}
  BY DEF Steps
<1>2. Off \in ProgramStates
  BY <1>1 DEF Off, ProgramStates
<1>3. /\ Absent \in Files /\ Damaged \in Files /\ Empty \in Files \ {Absent}
      /\ LegacyContents \in Files \ {Absent, Damaged}
  BY EmptyContents, LegacyIsContents DEF Files
<1>4. Idle \in RequestStates
  BY <1>1, <1>3 DEF Idle, RequestStates
<1>5. QED
  BY <1>2, <1>3, <1>4

\* The type of the backup directory after a copy.
LEMMA RecordedType ==
  ASSUME TypeOK, NEW label \in Labels, Recorded(label)
  PROVE  /\ DOMAIN backups' \subseteq (0 .. MaxSeconds) \X Labels
         /\ \A n \in DOMAIN backups' : backups'[n] \in Files \ {Absent}
<1>1. <<now, label>> \in (0 .. MaxSeconds) \X Labels
  BY DEF TypeOK
<1>2. \A n \in DOMAIN backups' : backups'[n] \in Files \ {Absent} /\ n \in (0 .. MaxSeconds) \X Labels
  BY <1>1, Rest DEF Recorded, TypeOK
<1>3. QED
  BY <1>2

LEMMA CopyTypes ==
  ASSUME TypeOK, Clock, NEW label \in Labels, Copy(label) \/ CopyFails(label)
  PROVE  /\ Recorded(label)
         /\ DOMAIN backups' \subseteq (0 .. MaxSeconds) \X Labels
         /\ \A n \in DOMAIN backups' : backups'[n] \in Files \ {Absent}
         /\ accidents' \subseteq Accidents
<1>1. Recorded(label) /\ accidents' \subseteq accidents \union {"overwritten", "exchanged"}
  BY CopyRecords, FailureRecords
<1>2. accidents' \subseteq Accidents
  <2>1. accidents \subseteq Accidents
    BY DEF TypeOK
  <2>2. QED
    BY <1>1, <2>1 DEF Accidents
<1>3. QED
  BY <1>1, <1>2, RecordedType

LEMMA EventType ==
  ASSUME TypeOK, Event \/ events' = events
  PROVE  events' \in 0 .. MaxEvents
BY DEF TypeOK, Event

\* A program that takes its next step is still a program.
LEMMA AdvanceType ==
  ASSUME TypeOK, NEW i \in Programs, NEW next \in Steps, Advance(i, next)
  PROVE  program' \in [Programs -> ProgramStates]
BY DEF TypeOK, Advance, ProgramStates

\* The types of the variables in three groups, for the steps that leave some alone.
FilesType ==
  /\ version \in Versions
  /\ db \in Files /\ legacy \in Files \ {Damaged}
  /\ DOMAIN backups \subseteq Names
  /\ \A n \in DOMAIN backups : backups[n] \in Files \ {Absent}
ActorsType ==
  /\ program \in [Programs -> ProgramStates]
  /\ request \in [Threads -> RequestStates]
CountersType ==
  /\ now \in 0 .. MaxSeconds
  /\ commits \in 0 .. MaxCommits /\ starts \in 0 .. MaxStarts
  /\ events \in 0 .. MaxEvents
  /\ promised \subseteq Contents
  /\ saved \in BOOLEAN
  /\ accidents \subseteq Accidents

LEMMA TypeParts ==
  /\ TypeOK <=> FilesType /\ ActorsType /\ CountersType
  /\ TypeOK' <=> FilesType' /\ ActorsType' /\ CountersType'
BY DEF TypeOK, FilesType, ActorsType, CountersType, Names, ProgramStates, RequestStates

LEMMA ProgramSteps ==
  /\ \A x \in {"off", "open", "carry", "look", "migrate", "setup", "backup", "serve", "ended"} :
       x \in Steps
  /\ \A i \in Programs : TypeOK => program[i] \in ProgramStates
  /\ \A t \in Threads : TypeOK => request[t] \in RequestStates
BY DEF Steps, TypeOK, ProgramStates, RequestStates, Names

\* A program or a request of known fields.
LEMMA ProgramState ==
  ASSUME NEW s \in Steps, NEW f \in BOOLEAN, NEW r \in BOOLEAN
  PROVE  [step |-> s, first |-> f, ready |-> r] \in ProgramStates
BY DEF ProgramStates

LEMMA RequestState ==
  ASSUME NEW s \in {"idle", "clear", "guard", "open", "copy"}, NEW a \in Programs \union {Nothing},
         NEW n \in Names \union {Nothing}, NEW f \in Files, NEW m \in BOOLEAN
  PROVE  [step |-> s, at |-> a, source |-> n, held |-> f, mixed |-> m] \in RequestStates
BY DEF RequestStates

\* The steps of a start keep the types.
LEMMA StartTypes ==
  ASSUME IInv, NEW i \in Programs,
         \/ Start(i) \/ OpenLegacy(i) \/ Carry(i) \/ Look(i) \/ Migrate(i) \/ PrepareDatabase(i)
  PROVE  TypeOK'
<1>0. /\ TypeOK /\ FilesType /\ ActorsType /\ CountersType
      /\ program[i] \in ProgramStates
  BY TypeParts, ProgramSteps DEF IInv
<1>1. CASE Start(i)
  <2>1. PICK s : s = IF db = Absent /\ legacy # Absent THEN "open" ELSE "look"
    OBVIOUS
  <2>2. s \in Steps
    BY <2>1 DEF Steps
  <2>3. [Off EXCEPT !.step = s] \in ProgramStates
    BY <2>2, Rest DEF ProgramStates
  <2>4. program' = [program EXCEPT ![i] = [Off EXCEPT !.step = s]]
    BY <1>1, <2>1 DEF Start
  <2>5. ActorsType'
    BY <1>0, <1>1, <2>3, <2>4 DEF ActorsType, Start
  <2>6. FilesType'
    BY <1>0, <1>1 DEF FilesType, Start
  <2>7. CountersType'
    BY <1>0, <1>1 DEF CountersType, Start
  <2>8. QED
    BY <2>5, <2>6, <2>7, TypeParts
<1>2. CASE OpenLegacy(i)
  <2>1. ActorsType'
    <3>1. CASE Advance(i, "look")
      BY <1>0, <1>2, <3>1, ProgramSteps, AdvanceType DEF ActorsType, OpenLegacy
    <3>2. CASE program' = [j \in Programs |->
                 [program[j] EXCEPT !.step = IF j = i THEN "carry" ELSE @, !.ready = FALSE]]
      <4>1. ASSUME NEW j \in Programs
            PROVE  [program[j] EXCEPT !.step = IF j = i THEN "carry" ELSE @, !.ready = FALSE]
                     \in ProgramStates
        <5>1. "carry" \in Steps
          BY ProgramSteps
        <5>2. QED
          BY <1>0, <5>1 DEF ActorsType, ProgramStates
      <4>2. QED
        BY <1>0, <1>2, <3>2, <4>1 DEF ActorsType, OpenLegacy
    <3>3. QED
      BY <1>2, <3>1, <3>2 DEF OpenLegacy
  <2>2. FilesType'
    BY <1>0, <1>2, Rest DEF FilesType, OpenLegacy
  <2>3. accidents' \subseteq Accidents /\ saved' \in BOOLEAN
    BY <1>0, <1>2 DEF CountersType, OpenLegacy, Accidents
  <2>4. CountersType'
    <3>1. events' \in 0 .. MaxEvents
      BY <1>0, <1>2, EventType DEF OpenLegacy, Fault
    <3>2. QED
      BY <1>0, <1>2, <2>3, <3>1 DEF CountersType, OpenLegacy
  <2>5. QED
    BY <2>1, <2>2, <2>4, TypeParts
<1>3. CASE Carry(i)
  <2>1. ActorsType'
    BY <1>0, <1>3, ProgramSteps, AdvanceType DEF ActorsType, Carry
  <2>2. db' \in Files /\ accidents' \subseteq Accidents
    <3>1. legacy \in Files
      BY <1>0 DEF FilesType
    <3>2. QED
      BY <1>0, <1>3, <3>1, Rest DEF Carry, CountersType, Accidents
  <2>3. FilesType'
    BY <1>0, <1>3, <2>2 DEF FilesType, Carry
  <2>4. CountersType'
    <3>1. events' \in 0 .. MaxEvents
      BY <1>0, <1>3, EventType DEF Carry, Fault
    <3>2. QED
      BY <1>0, <1>3, <2>2, <3>1 DEF CountersType, Carry
  <2>5. QED
    BY <2>1, <2>3, <2>4, TypeParts
<1>4. CASE Look(i)
  <2>1. ActorsType'
    <3>1. PICK p : p = [program[i] EXCEPT !.step = "migrate", !.first = (db = Absent)]
      OBVIOUS
    <3>2. p \in ProgramStates
      <4>1. "migrate" \in Steps /\ (db = Absent) \in BOOLEAN
        BY ProgramSteps
      <4>2. QED
        BY <1>0, <3>1, <4>1 DEF ProgramStates
    <3>3. program' = [program EXCEPT ![i] = p]
      BY <1>0, <1>4, <3>1 DEF Look, ActorsType
    <3>4. QED
      BY <1>0, <1>4, <3>2, <3>3 DEF ActorsType, Look
  <2>2. FilesType' /\ CountersType'
    BY <1>0, <1>4 DEF FilesType, CountersType, Look
  <2>3. QED
    BY <2>1, <2>2, TypeParts
<1>5. CASE Migrate(i)
  <2>1. ActorsType'
    <3>1. CASE Advance(i, "setup")
      BY <1>0, <1>5, <3>1, ProgramSteps, AdvanceType DEF ActorsType, Migrate
    <3>2. CASE program' = [program EXCEPT ![i] = Off]
      BY <1>0, <1>5, <3>2, Rest DEF ActorsType, Migrate
    <3>3. QED
      BY <1>5, <3>1, <3>2 DEF Migrate
  <2>2. db' \in Files
    <3>1. CASE db # Damaged /\ db' = Migrated(IF db = Absent THEN Empty ELSE db, version)
      <4>1. PICK c : c = IF db = Absent THEN Empty ELSE db
        OBVIOUS
      <4>2. c \in Contents /\ version \in Versions
        BY <1>0, <3>1, <4>1, EmptyContents DEF FilesType, Files
      <4>3. QED
        BY <3>1, <4>1, <4>2, MigratedHeir DEF Heir, Files
    <3>2. CASE db' = IF db = Absent THEN Empty ELSE db
      BY <1>0, <3>2, Rest DEF FilesType
    <3>3. QED
      BY <1>5, <3>1, <3>2 DEF Migrate
  <2>3. FilesType'
    BY <1>0, <1>5, <2>2 DEF FilesType, Migrate
  <2>4. accidents' \subseteq Accidents
    BY <1>0, <1>5 DEF CountersType, Migrate, Accidents
  <2>5. CountersType'
    <3>1. events' \in 0 .. MaxEvents
      BY <1>0, <1>5, EventType DEF Migrate, Fault
    <3>2. saved' \in BOOLEAN
      BY <1>5 DEF Migrate
    <3>3. QED
      BY <1>0, <1>5, <2>4, <3>1, <3>2 DEF CountersType, Migrate
  <2>6. QED
    BY <2>1, <2>3, <2>5, TypeParts
<1>6. CASE PrepareDatabase(i)
  <2>1. ActorsType'
    <3>1. CASE program' = [program EXCEPT ![i] =
                 [step |-> IF @.first THEN "serve" ELSE "backup", first |-> FALSE, ready |-> TRUE]]
      <4>1. PICK s : s = IF program[i].first THEN "serve" ELSE "backup"
        OBVIOUS
      <4>2. s \in Steps
        BY <4>1, ProgramSteps
      <4>3. [step |-> s, first |-> FALSE, ready |-> TRUE] \in ProgramStates
        BY <4>2, ProgramState
      <4>4. QED
        BY <1>0, <1>6, <3>1, <4>1, <4>3 DEF ActorsType, PrepareDatabase
    <3>2. CASE program' = [program EXCEPT ![i] = Off]
      BY <1>0, <1>6, <3>2, Rest DEF ActorsType, PrepareDatabase
    <3>3. CASE Advance(i, "backup")
      BY <1>0, <1>6, <3>3, ProgramSteps, AdvanceType DEF ActorsType, PrepareDatabase
    <3>4. QED
      BY <1>6, <3>1, <3>2, <3>3 DEF PrepareDatabase
  <2>2. db' \in Files
    <3>1. CASE IsWhole(db) /\ db' = SetUp(db, version, program[i].first)
      <4>1. PICK a : a = program[i].first
        OBVIOUS
      <4>2. a \in BOOLEAN /\ db \in Contents /\ version \in Versions
        BY <1>0, <3>1, <4>1, ContentsWhole DEF FilesType, ProgramStates
      <4>3. QED
        BY <3>1, <4>1, <4>2, SetUpHeir DEF Heir, Files
    <3>2. QED
      BY <1>0, <1>6, <3>1 DEF PrepareDatabase, FilesType
  <2>3. FilesType'
    BY <1>0, <1>6, <2>2 DEF FilesType, PrepareDatabase
  <2>4. accidents' \subseteq Accidents
    BY <1>0, <1>6 DEF CountersType, PrepareDatabase, Accidents
  <2>5. CountersType'
    <3>1. events' \in 0 .. MaxEvents
      BY <1>0, <1>6, EventType DEF PrepareDatabase, Fault
    <3>2. saved' \in BOOLEAN
      BY <1>6 DEF PrepareDatabase
    <3>3. QED
      BY <1>0, <1>6, <2>4, <3>1, <3>2 DEF CountersType, PrepareDatabase
  <2>6. QED
    BY <2>1, <2>3, <2>5, TypeParts
<1>7. QED
  BY <1>1, <1>2, <1>3, <1>4, <1>5, <1>6

\* The types of a step that takes a copy and leaves the database alone.
LEMMA CopyingTypes ==
  ASSUME IInv, NEW label \in Labels, Copy(label) \/ CopyFails(label),
         UNCHANGED <<version, db, legacy, now, commits, starts>>, ActorsType',
         Event \/ events' = events, promised' \subseteq Contents, saved' \in BOOLEAN
  PROVE  TypeOK'
<1>1. TypeOK /\ Clock /\ FilesType /\ CountersType
  BY TypeParts DEF IInv
<1>2. FilesType'
  BY <1>1, CopyTypes DEF FilesType, Names
<1>3. CountersType'
  <2>1. events' \in 0 .. MaxEvents
    BY <1>1, EventType
  <2>2. accidents' \subseteq Accidents
    BY <1>1, CopyTypes
  <2>3. QED
    BY <1>1, <2>1, <2>2 DEF CountersType
<1>4. QED
  BY <1>2, <1>3, TypeParts

\* The copies of the start and the end of a program keep the types.
LEMMA AutomaticTypes ==
  ASSUME IInv, NEW i \in Programs, BackupOnStartup(i) \/ Close(i)
  PROVE  TypeOK'
<1>1. TypeOK /\ ActorsType /\ CountersType
  BY TypeParts DEF IInv
<1>2. AutomaticCopy /\ UNCHANGED <<version, db, legacy, now, request, commits, starts, promised>>
  BY DEF BackupOnStartup, Close
<1>3. ActorsType'
  <2>1. CASE Advance(i, "serve")
    BY <1>1, <1>2, <2>1, ProgramSteps, AdvanceType DEF ActorsType
  <2>2. CASE program' = [program EXCEPT ![i] = [Off EXCEPT !.step = "ended"]]
    <3>1. [Off EXCEPT !.step = "ended"] \in ProgramStates
      BY Rest, ProgramSteps DEF ProgramStates
    <3>2. QED
      BY <1>1, <1>2, <2>2, <3>1 DEF ActorsType
  <2>3. QED
    BY <2>1, <2>2 DEF BackupOnStartup, Close
<1>4. "startup" \in Labels /\ promised' \subseteq Contents /\ saved' \in BOOLEAN
  BY <1>1, <1>2 DEF AutomaticCopy, CountersType, Labels, IsWhole
<1>5. (Copy("startup") \/ CopyFails("startup")) /\ (Event \/ events' = events)
  BY <1>2 DEF AutomaticCopy, CopyFails, Fault
<1>6. QED
  BY <1>2, <1>3, <1>4, <1>5, CopyingTypes

LEMMA DieTypes ==
  ASSUME IInv, NEW i \in Programs, Die(i), Event \/ events' = events
  PROVE  TypeOK'
<1>1. TypeOK /\ FilesType /\ ActorsType /\ CountersType
  BY TypeParts DEF IInv
<1>2. program' \in [Programs -> ProgramStates]
  <2>1. PICK kept : kept = (db' = db)
    OBVIOUS
  <2>2. ASSUME NEW j \in Programs
        PROVE  (IF j = i THEN Off ELSE [program[j] EXCEPT !.ready = @ /\ db' = db]) \in ProgramStates
    BY <1>1, Rest DEF ActorsType, ProgramStates
  <2>3. QED
    BY <2>2 DEF Die
<1>3. request' \in [Threads -> RequestStates]
  BY <1>1, Rest DEF ActorsType, Die
<1>4. db' \in Files
  BY <1>1, Rest DEF FilesType, Die, LeftOfDatabase
<1>5. accidents' \subseteq Accidents
  BY <1>1 DEF CountersType, Die, Accidents
<1>6. events' \in 0 .. MaxEvents
  BY <1>1, EventType
<1>7. FilesType' /\ ActorsType' /\ CountersType'
  BY <1>1, <1>2, <1>3, <1>4, <1>5, <1>6 DEF FilesType, ActorsType, CountersType, Die
<1>8. QED
  BY <1>7, TypeParts

LEMMA ChangeTypes ==
  ASSUME IInv, NEW c \in Contents, Change(c)
  PROVE  TypeOK'
<1>1. FilesType /\ ActorsType /\ CountersType
  BY TypeParts DEF IInv
<1>2. commits' \in 0 .. MaxCommits /\ db' \in Files
  BY <1>1 DEF Change, CountersType, Files
<1>3. FilesType' /\ ActorsType' /\ CountersType'
  BY <1>1, <1>2 DEF FilesType, ActorsType, CountersType, Change
<1>4. QED
  BY <1>3, TypeParts

\* What the day changes in the database.
LEMMA DayHeir ==
  ASSUME IInv, NEW i \in Programs, Work(i) \/ EditRole(i) \/ EditCurrency(i)
  PROVE  /\ Serves(i) /\ IsWhole(db) /\ db \in Contents /\ db.admin
         /\ \E c \in Contents : Heir(db, c) /\ Change(c)
<1>1. IsWhole(db) /\ db \in Contents /\ db.admin /\ Serves(i)
  BY ContentsWhole DEF IInv, TypeOK, Work, EditRole, EditCurrency, SignedIn
<1>2. CASE Work(i)
  <2>1. commits + 1 \in Nat
    BY DEF IInv, TypeOK
  <2>2. PICK n : n = commits + 1
    OBVIOUS
  <2>3. Change([db EXCEPT !.books = n])
    BY <1>2, <2>2 DEF Work
  <2>4. Heir(db, [db EXCEPT !.books = n])
    BY <1>1, <2>1, <2>2, BooksHeir
  <2>5. QED
    BY <1>1, <2>3, <2>4 DEF Heir
<1>3. CASE EditRole(i)
  <2>0. PICK r \in DOMAIN db.grants :
          \E p \in db.grants[r] : Change(Regrant(db, r, db.grants[r] \ {p}))
    BY <1>3 DEF EditRole
  <2>1. PICK p \in db.grants[r] : Change(Regrant(db, r, db.grants[r] \ {p}))
    BY <2>0
  <2>2. Heir(db, Regrant(db, r, db.grants[r] \ {p}))
    BY <1>1, RegrantHeir
  <2>3. QED
    BY <1>1, <2>1, <2>2 DEF Heir
<1>4. CASE EditCurrency(i)
  <2>1. Change([db EXCEPT !.renamed = TRUE])
    BY <1>4 DEF EditCurrency
  <2>2. Heir(db, [db EXCEPT !.renamed = TRUE])
    BY <1>1, RenamedHeir
  <2>3. QED
    BY <1>1, <2>1, <2>2 DEF Heir
<1>5. QED
  BY <1>2, <1>3, <1>4

LEMMA Asking ==
  ASSUME IInv, NEW t \in Threads, NEW i \in Programs, Requested(t, i)
  PROVE  /\ request[t] = Idle /\ Serves(i) /\ IsWhole(db) /\ db \in Contents /\ db # Absent
         /\ db # Damaged /\ db.admin /\ Event
BY ContentsWhole DEF IInv, TypeOK, Requested, SignedIn, IsWhole

\* The requests for copies keep the types.
LEMMA RequestTypes ==
  ASSUME IInv, NEW t \in Threads, NEW i \in Programs,
         AskCopy(t, i) \/ Reset(t, i) \/ ChooseBackup(t, i)
  PROVE  TypeOK'
<1>1. TypeOK /\ FilesType /\ ActorsType /\ CountersType
  BY TypeParts DEF IInv
<1>2. IsWhole(db) /\ db \in Contents /\ Event
  BY Asking DEF AskCopy, Reset, ChooseBackup
<1>3. CASE AskCopy(t, i)
  <2>1. PICK label \in Asked : \/ Copy(label) /\ promised' = promised \union {db}
                               \/ CopyFails(label) /\ UNCHANGED promised
    BY <1>3 DEF AskCopy
  <2>2. promised' \subseteq Contents
    BY <1>1, <1>2, <2>1 DEF CountersType
  <2>3. label \in Labels
    BY DEF Labels
  <2>4. UNCHANGED <<version, db, legacy, now, commits, starts>> /\ ActorsType' /\ saved' \in BOOLEAN
    BY <1>1, <1>3 DEF AskCopy, ActorsType, CountersType
  <2>5. QED
    BY <1>2, <2>1, <2>2, <2>3, <2>4, CopyingTypes
<1>4. CASE Reset(t, i)
  <2>1. ActorsType'
    <3>1. PICK file : file = db
      OBVIOUS
    <3>2. [Idle EXCEPT !.step = "clear", !.at = i, !.held = file] \in RequestStates
      BY <1>2, <3>1, Rest DEF RequestStates, Files
    <3>3. \/ request' = [request EXCEPT ![t] = [Idle EXCEPT !.step = "clear", !.at = i, !.held = file]]
          \/ UNCHANGED request
      BY <1>4, <3>1 DEF Reset
    <3>4. QED
      BY <1>1, <1>4, <3>2, <3>3 DEF ActorsType, Reset
  <2>2. "before-reset" \in Labels
    BY DEF Labels, Safety
  <2>3. /\ UNCHANGED <<version, db, legacy, now, commits, starts>>
        /\ promised' \subseteq Contents /\ saved' \in BOOLEAN
    BY <1>1, <1>4 DEF Reset, CountersType
  <2>4. Copy("before-reset") \/ CopyFails("before-reset")
    BY <1>4 DEF Reset
  <2>5. QED
    BY <1>2, <2>1, <2>2, <2>3, <2>4, CopyingTypes
<1>5. CASE ChooseBackup(t, i)
  <2>1. PICK n \in DOMAIN backups : request' =
          [request EXCEPT ![t] = [Idle EXCEPT !.step = "guard", !.at = i, !.source = n]]
    BY <1>5 DEF ChooseBackup
  <2>2. [Idle EXCEPT !.step = "guard", !.at = i, !.source = n] \in RequestStates
    BY <1>1, Rest DEF RequestStates, FilesType
  <2>3. ActorsType'
    BY <1>1, <1>5, <2>1, <2>2 DEF ActorsType, ChooseBackup
  <2>4. events' \in 0 .. MaxEvents
    BY <1>1, <1>2, EventType
  <2>5. FilesType' /\ CountersType'
    BY <1>1, <1>5, <2>4 DEF FilesType, CountersType, ChooseBackup
  <2>6. QED
    BY <2>3, <2>5, TypeParts
<1>6. QED
  BY <1>3, <1>4, <1>5

\* What a reset or a restore throws away was readable, or is being written.
LEMMA DiscardTypes ==
  ASSUME IInv, NEW t \in Threads, Discard(t), db # Absent
  PROVE  promised' \subseteq Contents /\ accidents' \subseteq Accidents
BY DEF IInv, TypeOK, Discard, Files, Accidents

\* The steps of a reset and of a restore keep the types.
LEMMA ThreadTypes ==
  ASSUME IInv, NEW t \in Threads, Clear(t) \/ GuardCopy(t) \/ OpenTarget(t) \/ CloseTarget(t)
  PROVE  TypeOK'
<1>1. /\ TypeOK /\ FilesType /\ ActorsType /\ CountersType
      /\ request[t] \in RequestStates
  BY TypeParts, ProgramSteps DEF IInv
<1>2. request[t].step # "idle" => db # Absent
  BY DEF IInv, Sources
<1>3. CASE Clear(t)
  <2>1. ActorsType'
    BY <1>1, <1>3, Rest DEF ActorsType, Clear
  <2>2. FilesType' /\ CountersType'
    <3>1. CASE IsWhole(db) /\ Discard(t) /\ db' = [db EXCEPT !.books = 0] /\ saved' = FALSE
      <4>1. db' \in Files
        <5>1. db \in Contents
          BY <1>1, <3>1, ContentsWhole DEF FilesType
        <5>2. QED
          BY <3>1, <5>1, BooksHeir DEF Heir, Files
      <4>2. promised' \subseteq Contents /\ accidents' \subseteq Accidents
        BY <1>2, <1>3, <3>1, DiscardTypes DEF Clear
      <4>3. QED
        BY <1>1, <1>3, <3>1, <4>1, <4>2 DEF FilesType, CountersType, Clear
    <3>2. CASE UNCHANGED <<db, promised, accidents, saved>>
      BY <1>1, <1>3, <3>2 DEF FilesType, CountersType, Clear
    <3>3. QED
      BY <1>3, <3>1, <3>2 DEF Clear
  <2>3. QED
    BY <2>1, <2>2, TypeParts
<1>4. CASE GuardCopy(t)
  <2>1. ActorsType'
    <3>1. PICK r : r = [request[t] EXCEPT !.step = "open", !.held = db]
      OBVIOUS
    <3>2. r \in RequestStates
      BY <1>1, <3>1 DEF RequestStates, FilesType
    <3>3. request' = [request EXCEPT ![t] = r] \/ request' = [request EXCEPT ![t] = Idle]
      BY <1>1, <1>4, <3>1 DEF GuardCopy, ActorsType
    <3>4. QED
      BY <1>1, <1>4, <3>2, <3>3, Rest DEF ActorsType, GuardCopy
  <2>2. "before-restore" \in Labels
    BY DEF Labels, Safety
  <2>3. /\ UNCHANGED <<version, db, legacy, now, commits, starts>>
        /\ promised' \subseteq Contents /\ saved' \in BOOLEAN
    BY <1>1, <1>4 DEF GuardCopy, CountersType
  <2>4. /\ Copy("before-restore") \/ CopyFails("before-restore")
        /\ Event \/ events' = events
    BY <1>4 DEF GuardCopy, CopyFails, Fault
  <2>5. QED
    BY <2>1, <2>2, <2>3, <2>4, CopyingTypes
<1>5. CASE OpenTarget(t)
  <2>1. CASE /\ request[t].source \in DOMAIN backups
             /\ Discard(t)
             /\ db' = Damaged /\ saved' = FALSE
             /\ request' = [u \in Threads |->
                  [request[u] EXCEPT !.step = IF u = t THEN "copy" ELSE @,
                     !.held = IF u = t THEN backups[request[t].source] ELSE @,
                     !.mixed = @ \/ (\E w \in Threads : Copying(w) /\ u \in {t, w})]]
    <3>1. PICK file : file = backups[request[t].source]
      OBVIOUS
    <3>2. file \in Files
      BY <1>1, <2>1, <3>1 DEF FilesType
    <3>3. ASSUME NEW u \in Threads
          PROVE  [request[u] EXCEPT !.step = IF u = t THEN "copy" ELSE @,
                    !.held = IF u = t THEN file ELSE @,
                    !.mixed = @ \/ (\E w \in Threads : Copying(w) /\ u \in {t, w})]
                      \in RequestStates
      <4>1. PICK m \in BOOLEAN : m = (request[u].mixed \/ (\E w \in Threads : Copying(w) /\ u \in {t, w}))
        BY <1>1 DEF ActorsType, RequestStates
      <4>2. [request[u] EXCEPT !.step = IF u = t THEN "copy" ELSE @,
               !.held = IF u = t THEN file ELSE @, !.mixed = m] \in RequestStates
        BY <1>1, <3>2 DEF ActorsType, RequestStates
      <4>3. QED
        BY <4>1, <4>2
    <3>4. ActorsType'
      BY <1>1, <1>5, <2>1, <3>1, <3>3 DEF ActorsType, OpenTarget
    <3>5. promised' \subseteq Contents /\ accidents' \subseteq Accidents
      BY <1>2, <1>5, <2>1, DiscardTypes DEF OpenTarget
    <3>6. FilesType' /\ CountersType'
      BY <1>1, <1>5, <2>1, <3>5, Rest DEF FilesType, CountersType, OpenTarget
    <3>7. QED
      BY <3>4, <3>6, TypeParts
  <2>2. CASE /\ request' = [request EXCEPT ![t] = Idle]
             /\ UNCHANGED <<db, promised, saved, accidents>>
    <3>1. ActorsType' /\ FilesType' /\ CountersType'
      BY <1>1, <1>5, <2>2, Rest DEF ActorsType, FilesType, CountersType, OpenTarget
    <3>2. QED
      BY <3>1, TypeParts
  <2>3. QED
    BY <1>5, <2>1, <2>2 DEF OpenTarget
<1>6. CASE CloseTarget(t)
  <2>1. program' \in [Programs -> ProgramStates]
    <3>1. ASSUME NEW i \in Programs PROVE [program[i] EXCEPT !.ready = FALSE] \in ProgramStates
      BY <1>1 DEF ActorsType, ProgramStates
    <3>2. QED
      BY <1>6, <3>1 DEF CloseTarget
  <2>2. request' \in [Threads -> RequestStates]
    BY <1>1, <1>6, Rest DEF ActorsType, CloseTarget
  <2>3. db' \in Files
    <3>1. request[t].held \in Files
      BY <1>1 DEF RequestStates
    <3>2. QED
      BY <1>6, <3>1, Rest DEF CloseTarget
  <2>4. accidents' \subseteq Accidents
    BY <1>1, <1>6 DEF CountersType, CloseTarget, Accidents
  <2>5. events' \in 0 .. MaxEvents
    BY <1>1, <1>6, EventType DEF CloseTarget, Fault
  <2>6. ActorsType' /\ FilesType' /\ CountersType'
    BY <1>1, <1>6, <2>1, <2>2, <2>3, <2>4, <2>5
       DEF ActorsType, FilesType, CountersType, CloseTarget
  <2>7. QED
    BY <2>6, TypeParts
<1>7. QED
  BY <1>3, <1>4, <1>5, <1>6

LEMMA TypeStep ==
  ASSUME IInv, [Next]_vars
  PROVE  TypeOK'
<1>1. ASSUME NEW i \in Programs, End(i) \/ Crash(i) PROVE TypeOK'
  BY <1>1, DieTypes DEF End, Crash, Fault
<1>2. ASSUME NEW i \in Programs, Work(i) \/ EditRole(i) \/ EditCurrency(i) PROVE TypeOK'
  BY <1>2, DayHeir, ChangeTypes
<1>3. CASE Tick \/ Upgrade \/ UNCHANGED vars
  <2>1. TypeOK
    BY DEF IInv
  <2>2. CASE Tick
    BY <2>1, <2>2 DEF TypeOK, Tick
  <2>3. CASE Upgrade
    BY <2>1, <2>3 DEF TypeOK, Upgrade, Versions
  <2>4. CASE UNCHANGED vars
    BY <2>1, <2>4 DEF TypeOK, vars
  <2>5. QED
    BY <1>3, <2>2, <2>3, <2>4
<1>4. QED
  BY <1>1, <1>2, <1>3, StartTypes, AutomaticTypes, RequestTypes, ThreadTypes DEF Next

-----------------------------------------------------------------------------
(* Backups and requests *)

\* A backup that retention never removes holds this, after the step.
Secured(file) == \E n \in DOMAIN backups' : n[2] # "startup" /\ backups'[n] = file

\* What one step may do to a request: nothing, end it, or take its next step.
Handled(t) ==
  LET r == request[t]
      s == request'[t]
  IN  \/ s.step = r.step /\ s.source = r.source /\ s.held = r.held
      \/ s = Idle
      \/ s.step = "clear" /\ s.held = db /\ Secured(db)
      \/ /\ r.step = "guard" /\ s.step = "open"
         /\ s.source = r.source /\ s.held = db /\ Secured(db)
      \/ /\ backups' = backups
         /\ s.step = "guard" /\ s.source \in DOMAIN backups /\ s.held = Absent
         /\ IsWhole(backups[s.source])
      \/ /\ backups' = backups
         /\ r.step = "open" /\ s.step = "copy" /\ s.source = r.source
         /\ s.source \in DOMAIN backups /\ s.held = backups[s.source]

LEMMA FreeGrows ==
  ASSUME accidents \subseteq accidents', NEW kinds, Free(kinds)'
  PROVE  Free(kinds) /\ \A k \in kinds : k \notin accidents'
BY DEF Free

\* A directory that did not change is a directory after a copy.
LEMMA SameDirectory ==
  ASSUME backups' = backups, accidents \subseteq accidents'
  PROVE  Recorded("startup")
BY DEF Recorded

LEMMA StoredAfter ==
  ASSUME NEW label \in Labels, Recorded(label), \A t \in Threads : Handled(t)
  PROVE  Stored' \subseteq Stored \union {db, Empty, Absent}
<1>1. ASSUME NEW n \in DOMAIN backups'
      PROVE  backups'[n] \in Stored \union {db, Empty, Absent}
  BY DEF Recorded, Stored
<1>2. ASSUME NEW t \in Threads
      PROVE  request'[t].held \in Stored \union {db, Empty, Absent}
  <2>1. Handled(t)
    OBVIOUS
  <2>2. request[t].held \in Stored /\ \A n \in DOMAIN backups : backups[n] \in Stored
    BY DEF Stored
  <2> HIDE DEF Stored
  <2>3. QED
    BY <2>1, <2>2 DEF Handled, Idle
<1>3. QED
  BY <1>1, <1>2 DEF Stored

\* Everything the invariant says of backups, requests and what was thrown away,
\* for a step that records at most one copy.
LEMMA Frame ==
  ASSUME IInv, NEW label \in Labels, Recorded(label), now' = now, legacy' = legacy,
         \A t \in Threads : Handled(t),
         IsWhole(db') => Sane(db'),
         \A c \in promised' : \/ c \in promised \/ Secured(c)
                              \/ "hurried" \in accidents' \/ "overwritten" \in accidents'
  PROVE  Clock' /\ Sound' /\ Lineage' /\ SafetyCopies' /\ WayBack' /\ Chosen'
<1>1. TypeOK /\ Clock /\ accidents \subseteq accidents'
  BY DEF IInv, Recorded
<1>2. Stored' \subseteq Stored \union {db, Empty, Absent}
  BY StoredAfter
<1>3. Clock'
  <2>1. \A n \in DOMAIN backups' : n[1] <= now'
    <3>1. <<now, label>>[1] <= now
      BY <1>1 DEF TypeOK
    <3>2. QED
      BY <1>1, <3>1 DEF Recorded, Clock
  <2>2. ASSUME NEW t \in Threads, request'[t].step \in {"guard", "open", "copy"}
        PROVE  /\ request'[t].source \in (0 .. MaxSeconds) \X Labels
               /\ request'[t].source[1] <= now
               /\ request'[t].source[1] = now => request'[t].source \in DOMAIN backups'
    <3>1. PICK s : s = request'[t].source
      OBVIOUS
    <3>2. CASE /\ request[t].step \in {"guard", "open", "copy"}
               /\ s = request[t].source
      <4>1. /\ s \in (0 .. MaxSeconds) \X Labels /\ s[1] <= now
            /\ s[1] = now => s \in DOMAIN backups
        BY <1>1, <3>2 DEF Clock
      <4>2. s[1] = now => s \in DOMAIN backups'
        BY <4>1 DEF Recorded
      <4>3. QED
        BY <3>1, <4>1, <4>2
    <3>3. CASE backups' = backups /\ s \in DOMAIN backups
      BY <1>1, <3>1, <3>3 DEF Clock, TypeOK
    <3>4. QED
      BY <2>2, <3>1, <3>2, <3>3 DEF Handled, Idle
  <2>3. QED
    BY <2>1, <2>2 DEF Clock
<1>4. Sound'
  <2>1. IsWhole(db) => Sane(db)
    BY DEF IInv, Sound
  <2>2. ASSUME NEW f \in Stored', IsWhole(f) PROVE Sane(f)
    BY <1>2, <2>1, <2>2, EmptyContents DEF IInv, Sound, IsWhole
  <2>3. QED
    BY <2>2 DEF Sound
<1>5. Lineage'
  <2> SUFFICES ASSUME legacy # Absent, Free({"carryBroken", "unmanned"})',
                      NEW f \in Stored', IsManned(f)
               PROVE  f.origin = "legacy"
    BY DEF Lineage
  <2>1. Free({"carryBroken", "unmanned"})
    BY <1>1, FreeGrows
  <2>2. IsWhole(db) => db.origin = "legacy"
    BY <2>1 DEF IInv, Descent
  <2>3. f # Empty /\ f # Absent
    BY EmptyContents DEF IsManned, IsWhole
  <2>4. QED
    BY <1>2, <2>1, <2>2, <2>3 DEF IInv, Lineage, IsManned
<1>6. SafetyCopies'
  <2> SUFFICES ASSUME Free({"overwritten"})', NEW t \in Threads,
                      request'[t].step \in {"clear", "open"}
               PROVE  Secured(request'[t].held)
    BY DEF SafetyCopies, InBackup, Secured
  <2>1. Free({"overwritten"}) /\ "overwritten" \notin accidents'
    BY <1>1, FreeGrows
  <2>2. CASE request'[t].step = request[t].step /\ request'[t].held = request[t].held
    <3>1. PICK f : f = request[t].held
      OBVIOUS
    <3>2. InBackup(f)
      BY <2>1, <2>2, <3>1 DEF IInv, SafetyCopies
    <3>3. PICK n \in DOMAIN backups : n[2] # "startup" /\ backups[n] = f
      BY <3>2 DEF InBackup
    <3>4. n \in DOMAIN backups' /\ backups'[n] = f
      BY <2>1, <3>3 DEF Recorded
    <3>5. QED
      BY <2>2, <3>1, <3>3, <3>4 DEF Secured
  <2>3. QED
    BY <2>2 DEF Handled, Idle
<1>7. WayBack'
  <2> SUFFICES ASSUME Free({"hurried", "overwritten"})', NEW c \in promised'
               PROVE  Secured(c)
    BY DEF WayBack, Secured, Free
  <2>1. Free({"hurried", "overwritten"}) /\ "hurried" \notin accidents' /\ "overwritten" \notin accidents'
    BY <1>1, FreeGrows
  <2>2. CASE c \in promised
    <3>1. PICK n \in DOMAIN backups : n[2] # "startup" /\ backups[n] = c
      BY <2>1, <2>2 DEF IInv, WayBack, Free
    <3>2. n \in DOMAIN backups' /\ backups'[n] = c
      BY <2>1, <3>1 DEF Recorded
    <3>3. QED
      BY <3>1, <3>2 DEF Secured
  <2>3. QED
    BY <2>1, <2>2
<1>8. Chosen'
  <2> SUFFICES ASSUME Free({"exchanged"})', NEW t \in Threads
               PROVE  /\ request'[t].step \in {"guard", "open"} /\ request'[t].source \in DOMAIN backups'
                           => IsWhole(backups'[request'[t].source])
                      /\ Copying(t)' => IsWhole(request'[t].held) /\ ~Exchanged(t)'
    BY DEF Chosen
  <2>1. Free({"exchanged"}) /\ "exchanged" \notin accidents'
    BY <1>1, FreeGrows
  <2>2. /\ request[t].step \in {"guard", "open"} /\ request[t].source \in DOMAIN backups
             => IsWhole(backups[request[t].source])
        /\ request[t].step = "copy" =>
             /\ IsWhole(request[t].held)
             /\ request[t].source \in DOMAIN backups => backups[request[t].source] = request[t].held
    BY <2>1 DEF IInv, Chosen, Copying, Exchanged
  <2>3. request[t].step \in {"guard", "open", "copy"} /\ request[t].source \in DOMAIN backups' =>
          /\ request[t].source \in DOMAIN backups
          /\ backups'[request[t].source] = backups[request[t].source]
    BY <1>1, <2>1, SourcesStand
  <2>4. Handled(t)
    OBVIOUS
  <2>5. ASSUME request'[t].step \in {"guard", "open"}, request'[t].source \in DOMAIN backups'
        PROVE  IsWhole(backups'[request'[t].source])
    BY <2>2, <2>3, <2>4, <2>5 DEF Handled, Idle
  <2>6. ASSUME request'[t].step = "copy"
        PROVE  /\ IsWhole(request'[t].held)
               /\ request'[t].source \in DOMAIN backups' =>
                    backups'[request'[t].source] = request'[t].held
    BY <2>2, <2>3, <2>4, <2>6 DEF Handled, Idle
  <2>7. QED
    BY <2>5, <2>6 DEF Copying, Exchanged
<1>9. QED
  BY <1>3, <1>4, <1>5, <1>6, <1>7, <1>8

-----------------------------------------------------------------------------
(* Programs and the database *)

\* A step of a program that does not write the database: it goes on, or stays
\* where it is.  A first start that is cut short between making the database and
\* setting it up goes on record.
Moved(i) ==
  LET p == program[i]
      q == program'[i]
  IN  /\ q.ready => p.ready
      /\ \/ q.step = p.step /\ q.first = p.first
         \/ /\ p.step # "carry" /\ q.step \notin {"carry", "setup"}
            /\ q.step = "open" => legacy # Absent
            /\ q.step = "migrate" => q.first \/ db # Absent
            /\ p.first /\ p.step = "setup" => "halfMade" \in accidents'
            /\ legacy # Absent /\ q.step \notin {"off", "open"} /\ p.step \in {"off", "open"}
                 => db # Absent \/ "carryBroken" \in accidents'

\* A request neither starts nor ends a copy over the database.
Kept(t) ==
  LET r == request[t]
      s == request'[t]
  IN  /\ s.step = "copy" <=> r.step = "copy"
      /\ s.step = "copy" => s.held = r.held
      /\ s.step # "idle" => r.step # "idle" \/ db # Absent

\* The database stays as it is.
LEMMA SameDatabase ==
  ASSUME IInv, UNCHANGED <<db, legacy>>, accidents \subseteq accidents',
         (\E i \in Programs : program[i].ready) => version' = version,
         \A i \in Programs : Moved(i),
         \A t \in Threads : Kept(t)
  PROVE  Sources' /\ Written' /\ Manned' /\ Descent' /\ NeverRestoresDamage' /\ Ready'
<1>1. \A i \in Programs : (program'[i].step = "carry") <=> (program[i].step = "carry")
  BY DEF Moved
<1>2. \A t \in Threads : (request'[t].step = "copy") <=> (request[t].step = "copy")
  BY DEF Kept
<1>3. WrittenBy(Programs, Threads)' <=> WrittenBy(Programs, Threads)
  BY <1>1, <1>2 DEF WrittenBy, Copying
<1>4. Sources'
  <2>1. Sources
    BY DEF IInv
  <2>2. \A i \in Programs : program'[i].step \in {"open", "carry"} => legacy # Absent
    BY <1>1, <2>1 DEF Moved, Sources
  <2>3. \A t \in Threads : request'[t].step # "idle" => db # Absent
    BY <2>1 DEF Kept, Sources
  <2>4. \A t \in Threads : request'[t].step = "copy" => request'[t].held # Absent
    BY <2>1 DEF Kept, Sources, Copying
  <2>5. QED
    BY <2>1, <2>2, <2>3, <2>4 DEF Sources, Copying
<1>5. Written'
  BY <1>3 DEF IInv, Written
<1>6. Manned'
  <2>1. ASSUME Free({"halfMade", "unmanned", "carryBroken"})', IsUnmanned(db)
        PROVE  \E i \in Programs : program'[i].first /\ program'[i].step = "setup"
    <3>1. Free({"halfMade", "unmanned", "carryBroken"}) /\ "halfMade" \notin accidents'
      BY <2>1, FreeGrows
    <3>2. PICK i \in Programs : program[i].first /\ program[i].step = "setup"
      BY <2>1, <3>1 DEF IInv, Manned
    <3>3. program'[i].first /\ program'[i].step = "setup"
      BY <3>1, <3>2 DEF Moved
    <3>4. QED
      BY <3>3
  <2>2. ASSUME NEW i \in Programs, program'[i].step = "migrate", ~program'[i].first
        PROVE  db # Absent
    BY <2>2 DEF IInv, Manned, Moved
  <2>3. QED
    BY <2>1, <2>2 DEF Manned, IsUnmanned, IsWhole
<1>7. Descent'
  <2> SUFFICES ASSUME legacy # Absent, Free({"carryBroken", "unmanned"})'
               PROVE  /\ IsWhole(db) => db.origin = "legacy"
                      /\ \A i \in Programs : program'[i].step \notin {"off", "open"} => db # Absent
    BY DEF Descent, IsWhole
  <2>1. Free({"carryBroken", "unmanned"}) /\ "carryBroken" \notin accidents'
    BY FreeGrows
  <2>2. /\ IsWhole(db) => db.origin = "legacy"
        /\ \A i \in Programs : program[i].step \notin {"off", "open"} => db # Absent
    BY <2>1 DEF IInv, Descent
  <2>3. ASSUME NEW i \in Programs, program'[i].step \notin {"off", "open"} PROVE db # Absent
    BY <2>1, <2>2, <2>3 DEF Moved
  <2>4. QED
    BY <2>2, <2>3
<1>8. NeverRestoresDamage'
  BY <1>3 DEF IInv, NeverRestoresDamage
<1>9. Ready'
  <2> SUFFICES ASSUME NEW i \in Programs, program'[i].ready
               PROVE  /\ db # Absent
                      /\ \A j \in Programs : program'[j].step # "carry"
                      /\ IsWhole(db) => Complete(db, version')
    BY DEF Ready, IsWhole
  <2>1. program[i].ready /\ version' = version
    BY DEF Moved
  <2>2. QED
    BY <1>1, <2>1 DEF IInv, Ready
<1>10. QED
  BY <1>4, <1>5, <1>6, <1>7, <1>8, <1>9

\* A program that takes a step after the database file was made.
Prepared(i) ==
  LET p == program[i]
      q == program'[i]
  IN  \/ q.step = p.step /\ q.first = p.first /\ (q.ready => p.ready)
      \/ /\ p.step # "carry" /\ q.step \notin {"carry", "open", "migrate"}
         /\ q.ready => p.ready \/ Complete(db', version)
         /\ p.first /\ p.step = "setup" => db'.admin

\* A database that is readable is replaced by a later state of it.
LEMMA LaterDatabase ==
  ASSUME IInv, IsWhole(db), Heir(db, db'), accidents \subseteq accidents',
         UNCHANGED <<legacy, version>>,
         \A i \in Programs : Prepared(i),
         \A t \in Threads : Kept(t)
  PROVE  /\ Sources' /\ Written' /\ Manned' /\ Descent' /\ NeverRestoresDamage' /\ Ready'
         /\ Sane(db')
<1>1. /\ db' \in Contents /\ IsWhole(db') /\ db' # Absent /\ db' # Damaged
      /\ db # Absent /\ db # Damaged
  BY ContentsWhole DEF Heir, IsWhole
<1>2. /\ \A i \in Programs : program[i].step # "carry" /\ program'[i].step # "carry"
      /\ \A t \in Threads : request[t].step # "copy" /\ request'[t].step # "copy"
  BY <1>1 DEF IInv, Written, WrittenBy, Copying, Prepared, Kept
<1>3. Sane(db')
  BY DEF Heir, IInv, Sound
<1>4. Sources'
  <2>1. Sources
    BY DEF IInv
  <2>2. \A i \in Programs : program'[i].step \in {"open", "carry"} => legacy # Absent
    BY <1>2, <2>1 DEF Prepared, Sources
  <2>3. QED
    BY <1>1, <1>2, <2>1, <2>2 DEF Sources, Copying
<1>5. Written'
  BY <1>2 DEF Written, WrittenBy, Copying
<1>6. Manned'
  <2>1. ASSUME Free({"halfMade", "unmanned", "carryBroken"})', IsUnmanned(db')
        PROVE  \E i \in Programs : program'[i].first /\ program'[i].step = "setup"
    <3>1. Free({"halfMade", "unmanned", "carryBroken"})
      BY <2>1, FreeGrows
    <3>2. IsUnmanned(db) /\ ~db'.admin
      BY <2>1 DEF IsUnmanned, Heir
    <3>3. PICK i \in Programs : program[i].first /\ program[i].step = "setup"
      BY <3>1, <3>2 DEF IInv, Manned
    <3>4. program'[i].first /\ program'[i].step = "setup"
      BY <3>2, <3>3 DEF Prepared
    <3>5. QED
      BY <3>4
  <2>2. QED
    BY <1>1, <2>1 DEF Manned, IsUnmanned, IsWhole
<1>7. Descent'
  <2> SUFFICES ASSUME legacy # Absent, Free({"carryBroken", "unmanned"})'
               PROVE  db'.origin = "legacy"
    BY <1>1 DEF Descent
  <2>1. Free({"carryBroken", "unmanned"})
    BY FreeGrows
  <2>2. QED
    BY <2>1 DEF IInv, Descent, Heir
<1>8. NeverRestoresDamage'
  BY <1>1 DEF NeverRestoresDamage
<1>9. Ready'
  <2> SUFFICES ASSUME NEW i \in Programs, program'[i].ready
               PROVE  Complete(db', version)
    BY <1>1, <1>2 DEF Ready
  <2>1. CASE program[i].ready
    <3>1. Complete(db, version) /\ version \in Versions
      BY <2>1 DEF IInv, Ready, TypeOK
    <3>2. QED
      BY <3>1 DEF Heir
  <2>2. QED
    BY <2>1 DEF Prepared
<1>10. QED
  BY <1>3, <1>4, <1>5, <1>6, <1>7, <1>8, <1>9

\* The database is replaced by something else: what the step has to bring along.
LEMMA ReplacedDatabase ==
  ASSUME IInv, UNCHANGED <<legacy, version>>,
         db' # Absent,
         WrittenBy(Programs, Threads)' => db' = Damaged,
         db' = Damaged => \/ WrittenBy(Programs, Threads)'
                          \/ accidents' \cap {"carryBroken", "torn", "overlapped", "exchanged"} # {},
         IsUnmanned(db') =>
           \/ ~Free({"halfMade", "unmanned", "carryBroken"})'
           \/ \E i \in Programs : program'[i].first /\ program'[i].step = "setup",
         IsWhole(db') /\ legacy # Absent /\ Free({"carryBroken", "unmanned"})'
           => db'.origin = "legacy",
         \A i \in Programs : program'[i].step \in {"open", "carry"} => legacy # Absent,
         \A t \in Threads : request'[t].step = "copy" => request'[t].held # Absent,
         \A i \in Programs : program'[i].ready =>
           /\ db' = Damaged /\ program[i].ready
           /\ \A j \in Programs : program'[j].step = "carry" => program[j].step = "carry"
  PROVE  Sources' /\ Written' /\ Manned' /\ Descent' /\ NeverRestoresDamage' /\ Ready'
<1>1. Sources'
  BY DEF IInv, Sources, Copying
<1>2. Written' /\ NeverRestoresDamage'
  BY DEF Written, NeverRestoresDamage
<1>3. Manned'
  BY DEF Manned, IsUnmanned, IsWhole
<1>4. Descent'
  BY DEF Descent, IsWhole
<1>5. Ready'
  BY DEF IInv, Ready, IsWhole
<1>6. QED
  BY <1>1, <1>2, <1>3, <1>4, <1>5

\* Retention and other copies leave the automatic copy of the database alone.
LEMMA CopyStays ==
  ASSUME IInv, saved' => saved /\ db' = db,
         \A n \in Automatic(backups) : n \in DOMAIN backups' /\ backups'[n] = backups[n]
  PROVE  AutomaticCopyStands'
<1> SUFFICES ASSUME saved'
             PROVE  IsWhole(db) /\ \E n \in Automatic(backups') : backups'[n] = db
  BY DEF AutomaticCopyStands, IsWhole, Automatic
<1>1. IsWhole(db)
  BY DEF IInv, AutomaticCopyStands
<1>2. PICK n \in Automatic(backups) : backups[n] = db
  BY DEF IInv, AutomaticCopyStands
<1>3. n \in Automatic(backups') /\ backups'[n] = db
  BY <1>2 DEF Automatic
<1>4. QED
  BY <1>1, <1>3

\* A step that leaves the database alone and records at most one copy.
LEMMA SameStep ==
  ASSUME IInv, TypeOK', NEW label \in Labels, Recorded(label), UNCHANGED <<db, legacy, now>>,
         (\E i \in Programs : program[i].ready) => version' = version,
         \A i \in Programs : Moved(i),
         \A t \in Threads : Kept(t) /\ Handled(t),
         \A c \in promised' : c \in promised \/ Secured(c),
         AutomaticCopyStands'
  PROVE  IInv'
<1>1. accidents \subseteq accidents'
  BY DEF Recorded
<1>2. Sources' /\ Written' /\ Manned' /\ Descent' /\ NeverRestoresDamage' /\ Ready'
  BY <1>1, SameDatabase
<1>3. IsWhole(db') => Sane(db')
  BY DEF IInv, Sound
<1>4. Clock' /\ Sound' /\ Lineage' /\ SafetyCopies' /\ WayBack' /\ Chosen'
  BY <1>3, Frame
<1>5. QED
  BY <1>2, <1>4 DEF IInv

\* A step of a program that touches no file.
LEMMA QuietStep ==
  ASSUME IInv, TypeOK', UNCHANGED <<db, legacy, backups, now, request, promised, saved>>,
         accidents \subseteq accidents',
         (\E i \in Programs : program[i].ready) => version' = version,
         \A i \in Programs : Moved(i)
  PROVE  IInv'
<1>1. Recorded("startup") /\ "startup" \in Labels
  BY SameDirectory DEF Labels
<1>2. \A t \in Threads : Kept(t) /\ Handled(t)
  BY DEF Kept, Handled
<1>3. AutomaticCopyStands'
  BY DEF IInv, AutomaticCopyStands, Automatic, IsWhole
<1>4. QED
  BY <1>1, <1>2, <1>3, SameStep

\* A step that leaves the backups alone and brings along what it does to the database.
LEMMA DatabaseStep ==
  ASSUME IInv, TypeOK', UNCHANGED <<legacy, backups, now>>, accidents \subseteq accidents',
         Sources' /\ Written' /\ Manned' /\ Descent' /\ NeverRestoresDamage' /\ Ready',
         IsWhole(db') => Sane(db'),
         saved' => saved /\ db' = db,
         \A t \in Threads : Handled(t),
         \A c \in promised' : \/ c \in promised \/ Secured(c)
                              \/ "hurried" \in accidents' \/ "overwritten" \in accidents'
  PROVE  IInv'
<1>1. Recorded("startup") /\ "startup" \in Labels
  BY SameDirectory DEF Labels
<1>2. Clock' /\ Sound' /\ Lineage' /\ SafetyCopies' /\ WayBack' /\ Chosen'
  BY <1>1, Frame
<1>3. AutomaticCopyStands'
  BY CopyStays DEF Automatic
<1>4. QED
  BY <1>2, <1>3 DEF IInv

\* A step of a program is seen in its own state only.
LEMMA Advanced ==
  ASSUME TypeOK, NEW i \in Programs, NEW next, Advance(i, next)
  PROVE  /\ \A j \in Programs : j # i => program'[j] = program[j]
         /\ program'[i].step = next
         /\ program'[i].first = program[i].first
         /\ program'[i].ready = program[i].ready
BY DEF TypeOK, Advance

-----------------------------------------------------------------------------
(* The steps of a start *)

LEMMA StartStep ==
  ASSUME IInv, TypeOK', NEW i \in Programs, Start(i)
  PROVE  IInv'
<1>1. /\ program[i].step = "off"
      /\ \A j \in Programs : j # i => program'[j] = program[j]
      /\ program'[i] = [Off EXCEPT !.step = IF db = Absent /\ legacy # Absent THEN "open" ELSE "look"]
  BY DEF IInv, TypeOK, Start
<1>2. /\ ~program'[i].ready
      /\ \/ program'[i].step = "open" /\ legacy # Absent
         \/ program'[i].step = "look" /\ (db # Absent \/ legacy = Absent)
  BY <1>1 DEF Off
<1>3. \A j \in Programs : Moved(j)
  BY <1>1, <1>2 DEF Moved
<1>4. QED
  BY <1>3, QuietStep DEF Start

LEMMA OpenLegacyStep ==
  ASSUME IInv, TypeOK', NEW i \in Programs, OpenLegacy(i)
  PROVE  IInv'
<1>1. program[i].step = "open" /\ legacy # Absent
  BY DEF IInv, Sources, OpenLegacy
<1>2. UNCHANGED <<version, legacy, backups, now, request, promised>>
  BY DEF OpenLegacy
<1>3. CASE Advance(i, "look") /\ accidents' = accidents \union {"carryBroken"} /\ UNCHANGED <<db, saved>>
  <2>1. \A j \in Programs : Moved(j)
    BY <1>1, <1>3, Advanced DEF IInv, Moved
  <2>2. QED
    BY <1>2, <1>3, <2>1, QuietStep
<1>4. CASE /\ db' = Damaged /\ saved' = FALSE
           /\ program' = [j \in Programs |->
                [program[j] EXCEPT !.step = IF j = i THEN "carry" ELSE @, !.ready = FALSE]]
           /\ accidents' = IF db = Absent THEN accidents ELSE accidents \union {"overlapped"}
  <2>1. /\ program'[i].step = "carry"
        /\ \A j \in Programs : ~program'[j].ready /\ (j # i => program'[j].step = program[j].step)
    BY <1>4 DEF IInv, TypeOK
  <2>2. WrittenBy(Programs, Threads)'
    BY <2>1 DEF WrittenBy
  <2>3. /\ \A j \in Programs : program'[j].step \in {"open", "carry"} => legacy # Absent
        /\ \A t \in Threads : request'[t].step = "copy" => request'[t].held # Absent
    BY <1>1, <1>2 DEF IInv, Sources, Copying
  <2>4. db' # Absent /\ ~IsWhole(db') /\ ~IsUnmanned(db')
    BY <1>4 DEF IsWhole, IsUnmanned
  <2>5. Sources' /\ Written' /\ Manned' /\ Descent' /\ NeverRestoresDamage' /\ Ready'
    BY <1>2, <1>4, <2>1, <2>2, <2>3, <2>4, ReplacedDatabase
  <2>6. \A t \in Threads : Handled(t)
    BY <1>2 DEF Handled
  <2>7. QED
    BY <1>2, <1>4, <2>4, <2>5, <2>6, DatabaseStep
<1>5. QED
  BY <1>3, <1>4 DEF OpenLegacy

LEMMA CarryStep ==
  ASSUME IInv, TypeOK', NEW i \in Programs, Carry(i)
  PROVE  IInv'
<1>1. /\ program[i].step = "carry" /\ legacy = LegacyContents
      /\ IsWhole(legacy) /\ Sane(legacy) /\ legacy.admin /\ legacy.origin = "legacy"
  BY LegacyIsContents, ContentsWhole DEF IInv, Sources, Carry
<1>2. db = Damaged /\ ~saved
  BY <1>1 DEF IInv, Written, WrittenBy, AutomaticCopyStands, IsWhole
<1>3. UNCHANGED <<version, legacy, backups, now, request, promised, saved>> /\ accidents \subseteq accidents'
  BY DEF Carry
<1>4. /\ \A j \in Programs : j # i => program'[j] = program[j]
      /\ program'[i].step = "look" /\ program'[i].ready = program[i].ready
  BY Advanced DEF IInv, Carry
<1>5. \A j \in Programs : ~program'[j].ready
  BY <1>1, <1>4 DEF IInv, Ready
<1>6. WrittenBy(Programs, Threads)' <=> WrittenBy(Programs \ {i}, Threads)
  BY <1>3, <1>4 DEF WrittenBy, Copying
<1>7. /\ \A j \in Programs : program'[j].step \in {"open", "carry"} => legacy # Absent
      /\ \A t \in Threads : request'[t].step = "copy" => request'[t].held # Absent
  BY <1>1, <1>3 DEF IInv, Sources, Copying, IsWhole
<1>8. \/ db' = Damaged /\ (WrittenBy(Programs, Threads)' \/ "carryBroken" \in accidents')
      \/ db' = legacy /\ ~WrittenBy(Programs, Threads)'
      \/ db' = Empty /\ ~WrittenBy(Programs, Threads)' /\ "carryBroken" \in accidents'
  BY <1>6 DEF Carry
<1>9. /\ db' # Absent
      /\ WrittenBy(Programs, Threads)' => db' = Damaged
      /\ db' = Damaged => \/ WrittenBy(Programs, Threads)'
                          \/ accidents' \cap {"carryBroken", "torn", "overlapped", "exchanged"} # {}
      /\ IsUnmanned(db') => ~Free({"halfMade", "unmanned", "carryBroken"})'
      /\ IsWhole(db') /\ legacy # Absent /\ Free({"carryBroken", "unmanned"})'
           => db'.origin = "legacy"
      /\ IsWhole(db') => Sane(db')
  <2>1. CASE db' = Damaged /\ (WrittenBy(Programs, Threads)' \/ "carryBroken" \in accidents')
    BY <2>1 DEF IsWhole, IsUnmanned
  <2>2. CASE db' = legacy /\ ~WrittenBy(Programs, Threads)'
    BY <1>1, <2>2 DEF IsWhole, IsUnmanned
  <2>3. CASE db' = Empty /\ ~WrittenBy(Programs, Threads)' /\ "carryBroken" \in accidents'
    BY <2>3, EmptyContents DEF Free
  <2>4. QED
    BY <1>8, <2>1, <2>2, <2>3
<1>10. Sources' /\ Written' /\ Manned' /\ Descent' /\ NeverRestoresDamage' /\ Ready'
  BY <1>3, <1>5, <1>7, <1>9, ReplacedDatabase
<1>11. \A t \in Threads : Handled(t)
  BY <1>3 DEF Handled
<1>12. QED
  BY <1>2, <1>3, <1>9, <1>10, <1>11, DatabaseStep

LEMMA LookStep ==
  ASSUME IInv, TypeOK', NEW i \in Programs, Look(i)
  PROVE  IInv'
<1>1. /\ program[i].step = "look"
      /\ \A j \in Programs : j # i => program'[j] = program[j]
      /\ program'[i].step = "migrate" /\ program'[i].first = (db = Absent)
      /\ program'[i].ready = program[i].ready
  BY DEF IInv, TypeOK, Look
<1>2. \A j \in Programs : Moved(j)
  BY <1>1 DEF Moved
<1>3. QED
  BY <1>2, QuietStep DEF Look

LEMMA MigrateStep ==
  ASSUME IInv, TypeOK', NEW i \in Programs, Migrate(i)
  PROVE  IInv'
<1>1. /\ program[i].step = "migrate" /\ version \in Versions /\ saved \in BOOLEAN
      /\ UNCHANGED <<version, legacy, backups, now, request, promised>>
      /\ accidents \subseteq accidents'
      /\ db = Absent => program[i].first
  BY DEF IInv, TypeOK, Manned, Migrate
<1>2. saved' => saved /\ db' = db
  BY DEF Migrate
<1>3. \A t \in Threads : Handled(t) /\ Kept(t)
  BY <1>1 DEF Handled, Kept
<1>4. /\ \A j \in Programs : j # i => program'[j] = program[j]
      /\ \/ /\ db # Damaged /\ db' = Migrated(IF db = Absent THEN Empty ELSE db, version)
            /\ program'[i].step = "setup" /\ program'[i].first = program[i].first
            /\ program'[i].ready = program[i].ready
         \/ /\ db' = IF db = Absent THEN Empty ELSE db
            /\ program'[i] = Off
            /\ program[i].first => "halfMade" \in accidents'
  BY Advanced DEF IInv, TypeOK, Migrate
<1>5. CASE db # Absent /\ program'[i].step = "setup"
  <2>1. IsWhole(db) /\ db \in Contents /\ db' = Migrated(db, version)
    BY <1>4, <1>5, ContentsWhole DEF IInv, TypeOK, IsWhole, Off
  <2>2. Heir(db, db')
    BY <1>1, <2>1, MigratedHeir
  <2>3. \A j \in Programs : Prepared(j)
    BY <1>1, <1>4, <1>5 DEF Prepared, Off
  <2>4. /\ Sources' /\ Written' /\ Manned' /\ Descent' /\ NeverRestoresDamage' /\ Ready'
        /\ Sane(db')
    BY <1>1, <1>3, <2>1, <2>2, <2>3, LaterDatabase
  <2>5. QED
    BY <1>1, <1>2, <1>3, <2>4, DatabaseStep
<1>6. CASE db # Absent /\ program'[i] = Off
  <2>1. db' = db
    BY <1>4, <1>6 DEF Off
  <2>2. saved' = saved
    BY <1>1, <2>1 DEF Migrate
  <2>3. \A j \in Programs : Moved(j)
    BY <1>1, <1>4, <1>6 DEF Moved, Off
  <2>4. QED
    BY <1>1, <2>1, <2>2, <2>3, QuietStep
<1>7. CASE db = Absent
  <2>1. /\ db' \in Contents /\ Sane(db') /\ IsWhole(db') /\ db' # Absent /\ db' # Damaged
        /\ \/ program'[i].step = "setup" /\ program'[i].first
           \/ program'[i] = Off /\ "halfMade" \in accidents'
    <3>1. Heir(Empty, Migrated(Empty, version))
      BY <1>1, EmptyContents, MigratedHeir
    <3>2. db' \in Contents /\ Sane(db')
      BY <1>4, <1>7, <3>1, EmptyContents DEF Heir
    <3>3. QED
      BY <1>1, <1>4, <1>7, <3>2, ContentsWhole DEF IsWhole
  <2>2. ~WrittenBy(Programs, Threads)
    BY <1>7 DEF IInv, Written
  <2>3. ~WrittenBy(Programs, Threads)'
    BY <1>1, <1>4, <2>1, <2>2 DEF WrittenBy, Copying, Off
  <2>4. IsUnmanned(db') => \/ ~Free({"halfMade", "unmanned", "carryBroken"})'
                           \/ \E j \in Programs : program'[j].first /\ program'[j].step = "setup"
    BY <2>1 DEF Free
  <2>5. ~(legacy # Absent /\ Free({"carryBroken", "unmanned"})')
    BY <1>1, <1>7, FreeGrows DEF IInv, Descent
  <2>6. /\ \A j \in Programs : program'[j].step \in {"open", "carry"} => legacy # Absent
        /\ \A t \in Threads : request'[t].step = "copy" => request'[t].held # Absent
    BY <1>1, <1>4, <2>1 DEF IInv, Sources, Copying, Off
  <2>7. \A j \in Programs : ~program'[j].ready
    BY <1>4, <1>7 DEF IInv, Ready, Off
  <2>8. Sources' /\ Written' /\ Manned' /\ Descent' /\ NeverRestoresDamage' /\ Ready'
    BY <1>1, <2>1, <2>3, <2>4, <2>5, <2>6, <2>7, ReplacedDatabase
  <2>9. QED
    BY <1>1, <1>2, <1>3, <2>1, <2>8, DatabaseStep
<1>8. QED
  BY <1>4, <1>5, <1>6, <1>7

LEMMA PrepareStep ==
  ASSUME IInv, TypeOK', NEW i \in Programs, PrepareDatabase(i)
  PROVE  IInv'
<1>1. /\ program[i].step = "setup" /\ version \in Versions /\ saved \in BOOLEAN
      /\ program[i].first \in BOOLEAN
      /\ UNCHANGED <<version, legacy, backups, now, request, promised>>
      /\ accidents \subseteq accidents'
  BY DEF IInv, TypeOK, PrepareDatabase
<1>2. CASE /\ IsWhole(db) /\ db' = SetUp(db, version, program[i].first)
           /\ program' = [program EXCEPT ![i] =
                [step |-> IF @.first THEN "serve" ELSE "backup", first |-> FALSE, ready |-> TRUE]]
  <2>1. /\ \A j \in Programs : j # i => program'[j] = program[j]
        /\ program'[i].step \in {"serve", "backup"}
    BY <1>2 DEF IInv, TypeOK
  <2>2. db \in Contents
    BY <1>2, ContentsWhole DEF IInv, TypeOK
  <2>3. /\ Heir(db, db') /\ Complete(db', version)
        /\ program[i].first => db'.admin
    <3>1. PICK a : a = program[i].first
      OBVIOUS
    <3>2. db' = SetUp(db, version, a) /\ a \in BOOLEAN
      BY <1>1, <1>2, <3>1
    <3>3. /\ Heir(db, SetUp(db, version, a)) /\ Complete(SetUp(db, version, a), version)
          /\ SetUp(db, version, a).admin = (db.admin \/ a)
      BY <1>1, <2>2, <3>2, SetUpHeir
    <3>4. QED
      BY <3>1, <3>2, <3>3
  <2>4. \A j \in Programs : Prepared(j)
    BY <1>1, <2>1, <2>3 DEF Prepared
  <2>5. \A t \in Threads : Handled(t) /\ Kept(t)
    BY <1>1 DEF Handled, Kept
  <2>6. /\ Sources' /\ Written' /\ Manned' /\ Descent' /\ NeverRestoresDamage' /\ Ready'
        /\ Sane(db')
    BY <1>1, <1>2, <2>3, <2>4, <2>5, LaterDatabase
  <2>7. saved' => saved /\ db' = db
    BY DEF PrepareDatabase
  <2>8. QED
    BY <1>1, <2>5, <2>6, <2>7, DatabaseStep
<1>3. CASE /\ UNCHANGED db
           /\ IF program[i].first
                THEN /\ program' = [program EXCEPT ![i] = Off]
                     /\ accidents' = accidents \union {"halfMade"}
                ELSE Advance(i, "backup") /\ UNCHANGED accidents
  <2>1. /\ \A j \in Programs : j # i => program'[j] = program[j]
        /\ program'[i].ready => program[i].ready
        /\ program'[i].step \in {"off", "backup"}
        /\ program[i].first => "halfMade" \in accidents'
    BY <1>3, Advanced DEF IInv, TypeOK, Off
  <2>2. \A j \in Programs : Moved(j)
    BY <1>1, <2>1 DEF Moved
  <2>3. saved' = saved
    BY <1>1, <1>3 DEF PrepareDatabase
  <2>4. QED
    BY <1>1, <1>3, <2>2, <2>3, QuietStep
<1>4. QED
  BY <1>2, <1>3 DEF PrepareDatabase

\* The copies of the start and of the end of a program.
LEMMA AutomaticStep ==
  ASSUME IInv, TypeOK', NEW i \in Programs, BackupOnStartup(i) \/ Close(i)
  PROVE  IInv'
<1>1. /\ TypeOK /\ Clock /\ "startup" \in Labels
      /\ UNCHANGED <<version, db, legacy, now, request, promised>>
      /\ AutomaticCopy
  BY DEF IInv, BackupOnStartup, Close, Labels
<1>2. Recorded("startup")
  BY <1>1, CopyRecords, FailureRecords DEF AutomaticCopy
<1>3. /\ \A j \in Programs : j # i => program'[j] = program[j]
      /\ program[i].step \in {"backup", "serve"} /\ program'[i].step \in {"serve", "ended"}
      /\ program'[i].ready => program[i].ready
  BY Advanced DEF IInv, TypeOK, BackupOnStartup, Close, Off
<1>4. \A j \in Programs : Moved(j)
  BY <1>3 DEF Moved
<1>5. \A t \in Threads : Kept(t) /\ Handled(t)
  BY <1>1 DEF Kept, Handled
<1>6. AutomaticCopyStands'
  <2>1. CASE Copy("startup") /\ saved' = IsWhole(db)
    <3>1. PICK new : new = <<now, "startup">>
      OBVIOUS
    <3>2. new \in DOMAIN backups' /\ backups'[new] = db /\ new[2] = "startup"
      BY <1>1, <2>1, <3>1, CopyRecords
    <3>3. new \in Automatic(backups')
      BY <3>2 DEF Automatic
    <3>4. saved' => IsWhole(db) /\ \E n \in Automatic(backups') : backups'[n] = db
      BY <2>1, <3>2, <3>3
    <3>5. QED
      BY <1>1, <3>4 DEF AutomaticCopyStands, IsWhole, Automatic
  <2>2. CASE CopyFails("startup") /\ UNCHANGED saved
    BY <1>1, <2>2, FailureRecords, CopyStays DEF Automatic
  <2>3. QED
    BY <1>1, <2>1, <2>2 DEF AutomaticCopy
<1>7. QED
  BY <1>1, <1>2, <1>4, <1>5, <1>6, SameStep

-----------------------------------------------------------------------------
(* The end of a program *)

LEMMA DieStep ==
  ASSUME IInv, TypeOK', NEW i \in Programs, Die(i)
  PROVE  IInv'
<1> DEFINE others == WrittenBy(Programs \ {i}, Threads \ CopyingAt(i))
           own == WrittenBy({i}, CopyingAt(i))
<1>1. /\ UNCHANGED <<version, legacy, backups, now, promised, saved>>
      /\ accidents \subseteq accidents'
      /\ program[i].step = "carry" => "carryBroken" \in accidents'
      /\ program[i].first /\ program[i].step \in {"migrate", "setup"} => "halfMade" \in accidents'
      /\ CopyingAt(i) # {} => (IF db' = Empty THEN "unmanned" ELSE "torn") \in accidents'
      /\ db' \in LeftOfDatabase(i)
  BY DEF Die
<1>2. /\ program'[i] = Off
      /\ \A j \in Programs : j # i =>
           /\ program'[j].step = program[j].step /\ program'[j].first = program[j].first
           /\ program'[j].ready => program[j].ready /\ db' = db
  BY DEF IInv, TypeOK, Die
<1>3. \A t \in Threads : /\ request[t].at = i => request'[t] = Idle
                         /\ request[t].at # i => request'[t] = request[t]
  BY DEF Die
<1>4. WrittenBy(Programs, Threads)' <=> others
  <2>1. \A t \in Threads : (request'[t].step = "copy") <=> (t \notin CopyingAt(i) /\ request[t].step = "copy")
    BY <1>3 DEF CopyingAt, Copying, Idle
  <2>2. \A j \in Programs : (program'[j].step = "carry") <=> (j # i /\ program[j].step = "carry")
    BY <1>2 DEF Off
  <2>3. QED
    BY <2>1, <2>2 DEF WrittenBy, Copying
<1>5. WrittenBy(Programs, Threads) <=> others \/ own
  BY DEF WrittenBy, CopyingAt
<1>6. own => program[i].step = "carry" \/ CopyingAt(i) # {}
  BY DEF WrittenBy
<1>7. ~own => program[i].step # "carry" /\ CopyingAt(i) = {}
  BY DEF WrittenBy, CopyingAt
<1>8. \A t \in Threads : Handled(t)
  BY <1>3 DEF Handled
<1>9. /\ \A j \in Programs : program'[j].step \in {"open", "carry"} => legacy # Absent
      /\ \A t \in Threads : request'[t].step = "copy" => request'[t].held # Absent
      /\ \A j \in Programs : program'[j].step = "carry" => program[j].step = "carry"
      /\ \A j \in Programs : program'[j].ready => program[j].ready /\ db' = db
  BY <1>2, <1>3 DEF IInv, Sources, Copying, Off, Idle
<1>10. LeftOfDatabase(i) = IF others THEN {db} ELSE IF own THEN {Empty, Damaged}
         ELSE IF program[i].step = "migrate" /\ db = Absent THEN {Absent, Empty} ELSE {db}
  BY DEF LeftOfDatabase
<1>11. others \/ own => db = Damaged /\ ~saved
  BY <1>5 DEF IInv, Written, AutomaticCopyStands, IsWhole
<1> HIDE DEF others, own
<1>12. CASE db' = Damaged /\ (others \/ "carryBroken" \in accidents' \/ "torn" \in accidents') /\ (others \/ own)
  <2>1. db' # Absent /\ ~IsWhole(db') /\ ~IsUnmanned(db')
    BY <1>12 DEF IsWhole, IsUnmanned
  <2>2. Sources' /\ Written' /\ Manned' /\ Descent' /\ NeverRestoresDamage' /\ Ready'
    BY <1>1, <1>4, <1>9, <1>12, <2>1, ReplacedDatabase
  <2>3. QED
    BY <1>1, <1>8, <1>11, <1>12, <2>1, <2>2, DatabaseStep
<1>13. CASE /\ db' = Empty /\ db # Empty /\ ~others /\ ~saved
            /\ \/ "carryBroken" \in accidents' \/ "unmanned" \in accidents'
               \/ /\ "halfMade" \in accidents'
                  /\ ~(legacy # Absent /\ Free({"carryBroken", "unmanned"})')
  <2>1. db' # Absent /\ db' # Damaged /\ Sane(db')
    BY <1>13, EmptyContents
  <2>2. IsUnmanned(db') => ~Free({"halfMade", "unmanned", "carryBroken"})'
    BY <1>13 DEF Free
  <2>3. IsWhole(db') /\ legacy # Absent /\ Free({"carryBroken", "unmanned"})' => db'.origin = "legacy"
    BY <1>13 DEF Free
  <2>4. Sources' /\ Written' /\ Manned' /\ Descent' /\ NeverRestoresDamage' /\ Ready'
    BY <1>1, <1>4, <1>9, <1>13, <2>1, <2>2, <2>3, ReplacedDatabase
  <2>5. QED
    BY <1>1, <1>8, <1>13, <2>1, <2>4, DatabaseStep
<1>14. CASE db' = db /\ ~others /\ ~own
  <2>1. \A j \in Programs : Moved(j)
    BY <1>1, <1>2, <1>7, <1>14 DEF Moved, Off
  <2>2. \A t \in Threads : Kept(t)
    BY <1>3, <1>7, <1>14 DEF Kept, CopyingAt, Copying, Idle
  <2>3. Sources' /\ Written' /\ Manned' /\ Descent' /\ NeverRestoresDamage' /\ Ready'
    BY <1>1, <1>14, <2>1, <2>2, SameDatabase
  <2>4. IsWhole(db') => Sane(db')
    BY <1>14 DEF IInv, Sound
  <2>5. QED
    BY <1>1, <1>8, <1>14, <2>3, <2>4, DatabaseStep
<1>15. QED
  <2>1. CASE others
    BY <1>1, <1>10, <1>11, <1>12, <2>1
  <2>2. CASE ~others /\ own
    <3>1. CASE db' = Damaged
      BY <1>1, <1>6, <1>12, <2>2, <3>1, EmptyContents
    <3>2. CASE db' = Empty
      BY <1>1, <1>6, <1>11, <1>13, <2>2, <3>2, EmptyContents
    <3>3. QED
      BY <1>1, <1>10, <2>2, <3>1, <3>2
  <2>3. CASE ~others /\ ~own
    <3>1. CASE db' = db
      BY <1>14, <2>3, <3>1
    <3>2. CASE program[i].step = "migrate" /\ db = Absent /\ db' = Empty
      <4>1. program[i].first /\ ~saved
        BY <3>2 DEF IInv, Manned, AutomaticCopyStands, IsWhole
      <4>2. ~(legacy # Absent /\ Free({"carryBroken", "unmanned"})')
        BY <1>1, <3>2, FreeGrows DEF IInv, Descent
      <4>3. QED
        BY <1>1, <1>13, <2>3, <3>2, <4>1, <4>2, EmptyContents
    <3>3. QED
      BY <1>1, <1>10, <2>3, <3>1, <3>2
  <2>4. QED
    BY <2>1, <2>2, <2>3

-----------------------------------------------------------------------------
(* The day at the office *)

LEMMA ChangeStep ==
  ASSUME IInv, TypeOK', NEW c \in Contents, IsWhole(db), Heir(db, c), Change(c)
  PROVE  IInv'
<1>1. /\ db' = c /\ saved' = FALSE
      /\ UNCHANGED <<version, legacy, backups, now, program, request, promised, accidents>>
  BY DEF Change
<1>2. (\A i \in Programs : Prepared(i)) /\ (\A t \in Threads : Kept(t) /\ Handled(t))
  BY <1>1 DEF Prepared, Kept, Handled
<1>3. /\ Sources' /\ Written' /\ Manned' /\ Descent' /\ NeverRestoresDamage' /\ Ready'
      /\ Sane(db')
  BY <1>1, <1>2, LaterDatabase
<1>4. QED
  BY <1>1, <1>2, <1>3, DatabaseStep

LEMMA AskCopyStep ==
  ASSUME IInv, TypeOK', NEW t \in Threads, NEW i \in Programs, AskCopy(t, i)
  PROVE  IInv'
<1>1. PICK label \in Asked : \/ Copy(label) /\ promised' = promised \union {db}
                             \/ CopyFails(label) /\ UNCHANGED promised
  BY DEF AskCopy
<1>2. /\ label \in Labels /\ label # "startup" /\ TypeOK /\ Clock
      /\ UNCHANGED <<version, db, legacy, now, program, request, saved>>
  BY DEF IInv, AskCopy, Labels, Asked
<1>3. Recorded(label)
  BY <1>1, <1>2, CopyRecords, FailureRecords
<1>4. ASSUME NEW c \in promised' PROVE c \in promised \/ Secured(c)
  <2>1. CASE Copy(label) /\ c = db
    <3>1. PICK new : new = <<now, label>>
      OBVIOUS
    <3>2. new \in DOMAIN backups' /\ backups'[new] = db /\ new[2] # "startup"
      BY <1>2, <2>1, <3>1, CopyRecords
    <3>3. QED
      BY <2>1, <3>2 DEF Secured
  <2>2. QED
    BY <1>1, <1>4, <2>1
<1>5. (\A j \in Programs : Moved(j)) /\ (\A u \in Threads : Kept(u) /\ Handled(u))
  BY <1>2 DEF Moved, Kept, Handled
<1>6. AutomaticCopyStands'
  BY <1>2, <1>3, CopyStays DEF Recorded
<1>7. QED
  BY <1>2, <1>3, <1>4, <1>5, <1>6, SameStep

\* The safety copy of a reset and of a restore.
LEMMA SafetyCopyStep ==
  ASSUME IInv, TypeOK', NEW t \in Threads, NEW label \in Safety,
         UNCHANGED <<version, db, legacy, now, program, promised, saved>>,
         \A u \in Threads : u # t => request'[u] = request[u],
         \/ /\ Copy(label)
            /\ request'[t].held = db
            /\ \/ request'[t].step = "clear"
               \/ /\ request[t].step = "guard" /\ request'[t].step = "open"
                  /\ request'[t].source = request[t].source
         \/ CopyFails(label) /\ (request'[t] = request[t] \/ request'[t] = Idle),
         request[t].step # "copy"
  PROVE  IInv'
<1>1. label \in Labels /\ label # "startup" /\ TypeOK /\ Clock
  BY DEF IInv, Labels, Safety
<1>2. Recorded(label)
  BY <1>1, CopyRecords, FailureRecords
<1>3. Copy(label) => Secured(db) /\ db # Absent
  <2>1. PICK new : new = <<now, label>>
    OBVIOUS
  <2>2. Copy(label) => new \in DOMAIN backups' /\ backups'[new] = db /\ new[2] # "startup" /\ db # Absent
    BY <1>1, <2>1, CopyRecords
  <2>3. QED
    BY <2>2 DEF Secured
<1>4. ASSUME NEW u \in Threads PROVE Kept(u) /\ Handled(u)
  <2>1. CASE u # t
    BY <2>1 DEF Kept, Handled
  <2>2. CASE /\ u = t /\ Copy(label) /\ request'[t].held = db
             /\ \/ request'[t].step = "clear"
                \/ /\ request[t].step = "guard" /\ request'[t].step = "open"
                   /\ request'[t].source = request[t].source
    BY <1>3, <2>2 DEF Kept, Handled
  <2>3. CASE u = t /\ (request'[t] = request[t] \/ request'[t] = Idle)
    BY <2>3 DEF Kept, Handled, Idle
  <2>4. QED
    BY <2>1, <2>2, <2>3
<1>5. \A j \in Programs : Moved(j)
  BY DEF Moved
<1>6. AutomaticCopyStands'
  BY <1>1, <1>2, CopyStays DEF Recorded
<1>7. QED
  BY <1>1, <1>2, <1>4, <1>5, <1>6, SameStep

LEMMA ResetStep ==
  ASSUME IInv, TypeOK', NEW t \in Threads, NEW i \in Programs, Reset(t, i)
  PROVE  IInv'
<1>1. request[t] = Idle /\ request \in [Threads -> RequestStates]
  BY TypeParts, Asking DEF IInv, ActorsType, Reset
<1>2. \A u \in Threads : u # t => request'[u] = request[u]
  BY <1>1 DEF Reset
<1>3. \/ Copy("before-reset") /\ request'[t].held = db /\ request'[t].step = "clear"
      \/ CopyFails("before-reset") /\ request'[t] = request[t]
  BY <1>1 DEF Reset, Idle
<1>4. "before-reset" \in Safety /\ request[t].step # "copy"
  BY <1>1 DEF Safety, Idle
<1>5. UNCHANGED <<version, db, legacy, now, program, promised, saved>>
  BY DEF Reset
<1>6. QED
  BY <1>2, <1>3, <1>4, <1>5, SafetyCopyStep

LEMMA GuardCopyStep ==
  ASSUME IInv, TypeOK', NEW t \in Threads, GuardCopy(t)
  PROVE  IInv'
<1>1. request[t].step = "guard" /\ request \in [Threads -> RequestStates]
  BY TypeParts DEF IInv, ActorsType, GuardCopy
<1>2. \A u \in Threads : u # t => request'[u] = request[u]
  BY <1>1 DEF GuardCopy
<1>3. \/ /\ Copy("before-restore")
         /\ request'[t].held = db /\ request'[t].step = "open"
         /\ request'[t].source = request[t].source
      \/ CopyFails("before-restore") /\ request'[t] = Idle
  BY <1>1 DEF GuardCopy, RequestStates
<1>4. "before-restore" \in Safety
  BY DEF Safety
<1>5. UNCHANGED <<version, db, legacy, now, program, promised, saved>>
  BY DEF GuardCopy
<1>6. QED
  BY <1>1, <1>2, <1>3, <1>4, <1>5, SafetyCopyStep

LEMMA ChooseBackupStep ==
  ASSUME IInv, TypeOK', NEW t \in Threads, NEW i \in Programs, ChooseBackup(t, i)
  PROVE  IInv'
<1>1. request[t] = Idle /\ db # Absent /\ request \in [Threads -> RequestStates]
  BY TypeParts, Asking DEF IInv, ActorsType, ChooseBackup
<1>2. PICK n \in DOMAIN backups :
        /\ IsWhole(backups[n])
        /\ request' = [request EXCEPT ![t] = [Idle EXCEPT !.step = "guard", !.at = i, !.source = n]]
  BY DEF ChooseBackup
<1>3. /\ \A u \in Threads : u # t => request'[u] = request[u]
      /\ request'[t].step = "guard" /\ request'[t].source = n /\ request'[t].held = Absent
  BY <1>1, <1>2 DEF Idle
<1>4. UNCHANGED <<version, db, legacy, backups, now, program, promised, saved, accidents>>
  BY DEF ChooseBackup
<1>5. ASSUME NEW u \in Threads PROVE Kept(u) /\ Handled(u)
  <2>1. CASE u # t
    BY <1>3, <2>1 DEF Kept, Handled
  <2>2. CASE u = t
    BY <1>1, <1>2, <1>3, <1>4, <2>2 DEF Kept, Handled, Idle
  <2>3. QED
    BY <2>1, <2>2
<1>6. \A j \in Programs : Moved(j)
  BY <1>4 DEF Moved
<1>7. Recorded("startup") /\ "startup" \in Labels
  BY <1>4, SameDirectory DEF Labels
<1>8. AutomaticCopyStands'
  BY <1>4, CopyStays DEF Automatic
<1>9. QED
  BY <1>4, <1>5, <1>6, <1>7, <1>8, SameStep

\* What is thrown away is the safety copy's, or somebody changed it in between.
LEMMA DiscardKeeps ==
  ASSUME IInv, NEW t \in Threads, request[t].step \in {"clear", "open"}, Discard(t),
         backups' = backups
  PROVE  /\ accidents \subseteq accidents'
         /\ \A c \in promised' : \/ c \in promised \/ Secured(c)
                                 \/ "hurried" \in accidents' \/ "overwritten" \in accidents'
<1>1. accidents \subseteq accidents'
  BY DEF Discard
<1>2. ASSUME NEW c \in promised', c \notin promised,
             "hurried" \notin accidents', "overwritten" \notin accidents'
      PROVE  Secured(c)
  <2>1. c = db /\ db = request[t].held
    BY <1>2 DEF Discard
  <2>2. Free({"overwritten"})
    BY <1>1, <1>2 DEF Free
  <2>3. InBackup(request[t].held)
    BY <2>2 DEF IInv, SafetyCopies
  <2>4. QED
    BY <2>1, <2>3 DEF InBackup, Secured
<1>3. QED
  BY <1>1, <1>2

LEMMA ClearStep ==
  ASSUME IInv, TypeOK', NEW t \in Threads, Clear(t)
  PROVE  IInv'
<1>1. /\ request[t].step = "clear" /\ request \in [Threads -> RequestStates]
      /\ UNCHANGED <<version, legacy, backups, now, program>>
      /\ \A u \in Threads : u # t => request'[u] = request[u]
      /\ request'[t] = Idle
  BY TypeParts DEF IInv, ActorsType, Clear
<1>2. \A u \in Threads : Kept(u) /\ Handled(u)
  BY <1>1 DEF Kept, Handled, Idle
<1>3. CASE IsWhole(db) /\ Discard(t) /\ db' = [db EXCEPT !.books = 0] /\ saved' = FALSE
  <2>1. db \in Contents
    BY <1>3, ContentsWhole DEF IInv, TypeOK
  <2>2. Heir(db, db')
    BY <1>3, <2>1, BooksHeir
  <2>3. \A j \in Programs : Prepared(j)
    BY <1>1 DEF Prepared
  <2>4. /\ accidents \subseteq accidents'
        /\ \A c \in promised' : \/ c \in promised \/ Secured(c)
                                \/ "hurried" \in accidents' \/ "overwritten" \in accidents'
    BY <1>1, <1>3, DiscardKeeps
  <2>5. /\ Sources' /\ Written' /\ Manned' /\ Descent' /\ NeverRestoresDamage' /\ Ready'
        /\ Sane(db')
    BY <1>1, <1>2, <1>3, <2>2, <2>3, <2>4, LaterDatabase
  <2>6. QED
    BY <1>1, <1>2, <1>3, <2>4, <2>5, DatabaseStep
<1>4. CASE UNCHANGED <<db, promised, accidents, saved>>
  <2>1. \A j \in Programs : Moved(j)
    BY <1>1 DEF Moved
  <2>2. Recorded("startup") /\ "startup" \in Labels
    BY <1>1, <1>4, SameDirectory DEF Labels
  <2>3. AutomaticCopyStands'
    BY <1>1, <1>4, CopyStays DEF Automatic
  <2>4. QED
    BY <1>1, <1>2, <1>4, <2>1, <2>2, <2>3, SameStep
<1>5. QED
  BY <1>3, <1>4 DEF Clear

LEMMA OpenTargetStep ==
  ASSUME IInv, TypeOK', NEW t \in Threads, OpenTarget(t)
  PROVE  IInv'
<1>1. /\ request[t].step = "open" /\ request \in [Threads -> RequestStates]
      /\ UNCHANGED <<version, legacy, backups, now, program>>
      /\ \A n \in DOMAIN backups : backups[n] # Absent
  BY TypeParts DEF IInv, TypeOK, ActorsType, OpenTarget
<1>2. CASE /\ request[t].source \in DOMAIN backups
           /\ Discard(t)
           /\ db' = Damaged /\ saved' = FALSE
           /\ request' = [u \in Threads |->
                [request[u] EXCEPT !.step = IF u = t THEN "copy" ELSE @,
                   !.held = IF u = t THEN backups[request[t].source] ELSE @,
                   !.mixed = @ \/ (\E w \in Threads : Copying(w) /\ u \in {t, w})]]
  <2>1. /\ \A u \in Threads : u # t =>
             /\ request'[u].step = request[u].step /\ request'[u].source = request[u].source
             /\ request'[u].held = request[u].held
        /\ request'[t].step = "copy" /\ request'[t].source = request[t].source
        /\ request'[t].held = backups[request[t].source]
    BY <1>1, <1>2 DEF RequestStates
  <2>2. \A u \in Threads : Handled(u)
    BY <1>1, <1>2, <2>1 DEF Handled
  <2>3. WrittenBy(Programs, Threads)'
    BY <2>1 DEF WrittenBy, Copying
  <2>4. /\ \A j \in Programs : program'[j].step \in {"open", "carry"} => legacy # Absent
        /\ \A u \in Threads : request'[u].step = "copy" => request'[u].held # Absent
    <3>1. \A j \in Programs : program'[j].step \in {"open", "carry"} => legacy # Absent
      BY <1>1 DEF IInv, Sources
    <3>2. ASSUME NEW u \in Threads, request'[u].step = "copy" PROVE request'[u].held # Absent
      <4>1. CASE u = t
        <5>1. request[t].source \in DOMAIN backups
          BY <1>2
        <5>2. backups[request[t].source] # Absent
          BY <1>1, <5>1
        <5>3. QED
          BY <2>1, <4>1, <5>2
      <4>2. CASE u # t
        BY <2>1, <3>2, <4>2 DEF IInv, Sources, Copying
      <4>3. QED
        BY <4>1, <4>2
    <3>3. QED
      BY <3>1, <3>2
  <2>5. /\ accidents \subseteq accidents'
        /\ \A c \in promised' : \/ c \in promised \/ Secured(c)
                                \/ "hurried" \in accidents' \/ "overwritten" \in accidents'
    BY <1>1, <1>2, DiscardKeeps
  <2>6. db' # Absent /\ ~IsWhole(db') /\ ~IsUnmanned(db')
    BY <1>2 DEF IsWhole, IsUnmanned
  <2>7. Sources' /\ Written' /\ Manned' /\ Descent' /\ NeverRestoresDamage' /\ Ready'
    BY <1>1, <1>2, <2>3, <2>4, <2>6, ReplacedDatabase
  <2>8. QED
    BY <1>1, <1>2, <2>2, <2>5, <2>6, <2>7, DatabaseStep
<1>3. CASE /\ request' = [request EXCEPT ![t] = Idle]
           /\ UNCHANGED <<db, promised, saved, accidents>>
  <2>1. /\ \A u \in Threads : u # t => request'[u] = request[u]
        /\ request'[t] = Idle
    BY <1>1, <1>3
  <2>2. \A u \in Threads : Kept(u) /\ Handled(u)
    BY <1>1, <2>1 DEF Kept, Handled, Idle
  <2>3. \A j \in Programs : Moved(j)
    BY <1>1 DEF Moved
  <2>4. Recorded("startup") /\ "startup" \in Labels
    BY <1>1, <1>3, SameDirectory DEF Labels
  <2>5. AutomaticCopyStands'
    BY <1>1, <1>3, CopyStays DEF Automatic
  <2>6. QED
    BY <1>1, <1>3, <2>2, <2>3, <2>4, <2>5, SameStep
<1>4. QED
  BY <1>2, <1>3 DEF OpenTarget

LEMMA CloseTargetStep ==
  ASSUME IInv, TypeOK', NEW t \in Threads, CloseTarget(t)
  PROVE  IInv'
<1> DEFINE others == WrittenBy(Programs, Threads \ {t})
<1>1. /\ request[t].step = "copy" /\ request \in [Threads -> RequestStates]
      /\ UNCHANGED <<version, legacy, backups, now, promised, saved>>
      /\ accidents \subseteq accidents'
      /\ \A u \in Threads : u # t => request'[u] = request[u]
      /\ request'[t] = Idle
      /\ \A j \in Programs : program'[j].step = program[j].step /\ ~program'[j].ready
  BY TypeParts DEF IInv, TypeOK, ActorsType, CloseTarget, Copying
<1>2. db = Damaged /\ ~saved
  BY <1>1 DEF IInv, Written, WrittenBy, Copying, AutomaticCopyStands, IsWhole
<1>3. WrittenBy(Programs, Threads)' <=> others
  <2>1. \A u \in Threads : (request'[u].step = "copy") <=> (u # t /\ request[u].step = "copy")
    BY <1>1 DEF Idle
  <2>2. QED
    BY <1>1, <2>1 DEF WrittenBy, Copying
<1>4. /\ \A j \in Programs : program'[j].step \in {"open", "carry"} => legacy # Absent
      /\ \A u \in Threads : request'[u].step = "copy" => request'[u].held # Absent
  BY <1>1 DEF IInv, Sources, Copying, Idle
<1>5. \A u \in Threads : Handled(u)
  BY <1>1 DEF Handled
<1> HIDE DEF others
<1>6. PICK f : f = request[t].held
  OBVIOUS
<1>7. /\ f # Absent /\ (IsWhole(f) => Sane(f)) /\ f \in Stored
      /\ f = Damaged => ~Free({"exchanged"})
      /\ Exchanged(t) => ~Free({"exchanged"})
  <2>1. f \in Stored /\ f # Absent
    BY <1>1, <1>6 DEF Stored, IInv, Sources, Copying
  <2>2. IsWhole(f) => Sane(f)
    BY <2>1 DEF IInv, Sound
  <2>3. (f = Damaged => ~Free({"exchanged"})) /\ (Exchanged(t) => ~Free({"exchanged"}))
    BY <1>1, <1>6 DEF IInv, Chosen, Copying, IsWhole
  <2>4. QED
    BY <2>1, <2>2, <2>3
<1>8. \/ db' = Damaged /\ others
      \/ db' = Damaged /\ ("torn" \in accidents' \/ "overlapped" \in accidents' \/ Exchanged(t) \/ f = Damaged)
      \/ db' = Empty /\ ~others /\ "unmanned" \in accidents'
      \/ db' = f /\ ~others /\ (IsUnmanned(f) => "unmanned" \in accidents')
  <2>1. CASE /\ IF others THEN db' = Damaged
                ELSE db' \in {f} \union (IF request[t].mixed \/ Exchanged(t) THEN {Damaged} ELSE {})
             /\ accidents' = accidents \union (IF IsUnmanned(db') THEN {"unmanned"} ELSE {})
                                       \union (IF request[t].mixed THEN {"overlapped"} ELSE {})
    BY <2>1
  <2>2. CASE /\ db' \in {Empty, Damaged}
             /\ db' = Empty => ~others
             /\ accidents' = accidents \union {IF db' = Empty THEN "unmanned" ELSE "torn"}
    BY <2>2
  <2>3. QED
    BY <1>6, <2>1, <2>2 DEF CloseTarget, others
<1>9. /\ db' # Absent
      /\ others => db' = Damaged
      /\ db' = Damaged => \/ others
                          \/ accidents' \cap {"carryBroken", "torn", "overlapped", "exchanged"} # {}
      /\ IsUnmanned(db') => ~Free({"halfMade", "unmanned", "carryBroken"})'
      /\ IsWhole(db') /\ legacy # Absent /\ Free({"carryBroken", "unmanned"})'
           => db'.origin = "legacy"
      /\ IsWhole(db') => Sane(db')
  <2>1. ~Free({"exchanged"}) => "exchanged" \in accidents'
    BY <1>1 DEF Free
  <2>2. CASE db' = Damaged
    BY <1>7, <1>8, <2>1, <2>2, EmptyContents DEF IsWhole, IsUnmanned
  <2>3. CASE db' = Empty /\ ~others /\ "unmanned" \in accidents'
    BY <2>3, EmptyContents DEF Free
  <2>4. CASE db' = f /\ db' # Damaged /\ ~others /\ (IsUnmanned(f) => "unmanned" \in accidents')
    <3>1. ASSUME IsWhole(db'), legacy # Absent, Free({"carryBroken", "unmanned"})'
          PROVE  db'.origin = "legacy"
      <4>1. Free({"carryBroken", "unmanned"}) /\ "unmanned" \notin accidents'
        BY <1>1, <3>1, FreeGrows
      <4>2. IsManned(f)
        BY <2>4, <3>1, <4>1 DEF IsManned, IsUnmanned
      <4>3. QED
        BY <1>7, <2>4, <3>1, <4>1, <4>2 DEF IInv, Lineage
    <3>2. IsUnmanned(db') => ~Free({"halfMade", "unmanned", "carryBroken"})'
      BY <2>4 DEF Free
    <3>3. QED
      BY <1>7, <2>4, <3>1, <3>2
  <2>5. QED
    BY <1>8, <2>2, <2>3, <2>4
<1>10. Sources' /\ Written' /\ Manned' /\ Descent' /\ NeverRestoresDamage' /\ Ready'
  BY <1>1, <1>3, <1>4, <1>9, ReplacedDatabase
<1>11. QED
  BY <1>1, <1>2, <1>5, <1>9, <1>10, DatabaseStep

-----------------------------------------------------------------------------
(* The invariant *)

LEMMA TickStep ==
  ASSUME IInv, TypeOK', Tick
  PROVE  IInv'
<1>1. /\ now' = now + 1 /\ now \in Nat
      /\ UNCHANGED <<version, db, legacy, backups, program, request, promised, saved, accidents>>
  BY DEF IInv, TypeOK, Tick
<1>2. Clock'
  <2>1. \A n \in (0 .. MaxSeconds) \X Labels : n[1] \in Nat
    OBVIOUS
  <2>2. \A n \in DOMAIN backups : n[1] \in Nat /\ n[1] <= now'
    BY <1>1, NowIsNatural DEF IInv
  <2>3. ASSUME NEW t \in Threads, request[t].step \in {"guard", "open", "copy"}
        PROVE  /\ request[t].source \in (0 .. MaxSeconds) \X Labels
               /\ request[t].source[1] <= now' /\ request[t].source[1] # now'
    <3>1. request[t].source \in (0 .. MaxSeconds) \X Labels /\ request[t].source[1] <= now
      BY <2>3 DEF IInv, Clock
    <3>2. QED
      BY <1>1, <2>1, <3>1
  <2>4. QED
    BY <1>1, <2>2, <2>3 DEF Clock
<1>3. Sources' /\ Written' /\ Manned' /\ Descent' /\ NeverRestoresDamage' /\ Ready'
  BY <1>1 DEF IInv, Sources, Written, Manned, Descent, NeverRestoresDamage, Ready, WrittenBy,
              Copying, Free, IsUnmanned, IsWhole
<1>4. Stored' = Stored
  BY <1>1 DEF Stored
<1>5. Sound' /\ Lineage'
  BY <1>1, <1>4 DEF IInv, Sound, Lineage, IsWhole, IsManned, Free
<1>6. SafetyCopies' /\ WayBack' /\ Chosen' /\ AutomaticCopyStands'
  BY <1>1 DEF IInv, SafetyCopies, WayBack, Chosen, AutomaticCopyStands, Automatic, InBackup,
              Copying, Exchanged, Free, IsWhole
<1>7. QED
  BY <1>2, <1>3, <1>5, <1>6 DEF IInv

LEMMA InitInvariant ==
  ASSUME Init
  PROVE  IInv
<1>1. /\ DOMAIN backups = {} /\ db = Absent /\ saved = FALSE /\ promised = {} /\ accidents = {}
      /\ now = 0 /\ version = 1 /\ starts = 0 /\ events = 0
      /\ legacy \in {Absent, LegacyContents} /\ commits \in {0, 1}
      /\ \A i \in Programs : program[i] = Off
      /\ \A t \in Threads : request[t] = Idle
      /\ program = [i \in Programs |-> Off] /\ request = [t \in Threads |-> Idle]
  BY DEF Init
<1>2. /\ \A i \in Programs : program[i].step = "off" /\ ~program[i].ready
      /\ \A t \in Threads : request[t].step = "idle" /\ request[t].held = Absent
  BY <1>1 DEF Off, Idle
<1>3. TypeOK
  <2>1. FilesType
    BY <1>1, Rest DEF FilesType, Versions
  <2>2. ActorsType
    BY <1>1, Rest DEF ActorsType
  <2>3. CountersType
    <3>1. commits \in 0 .. MaxCommits
      BY <1>1
    <3>2. now \in 0 .. MaxSeconds /\ starts \in 0 .. MaxStarts /\ events \in 0 .. MaxEvents
      BY <1>1
    <3>3. QED
      BY <1>1, <3>1, <3>2 DEF CountersType
  <2>4. QED
    BY <2>1, <2>2, <2>3, TypeParts
<1>4. ~IsWhole(db) /\ ~IsUnmanned(db) /\ db # Damaged
  BY <1>1 DEF IsWhole, IsUnmanned
<1>5. Clock /\ Sources /\ Written /\ Manned /\ Descent
  BY <1>1, <1>2, <1>4 DEF Clock, Sources, Written, Manned, Descent, WrittenBy, Copying
<1>6. \A f \in Stored : ~IsWhole(f)
  BY <1>1, <1>2 DEF Stored, IsWhole
<1>7. Sound /\ Lineage
  BY <1>4, <1>6 DEF Sound, Lineage, IsManned
<1>8. SafetyCopies /\ WayBack /\ Chosen /\ NeverRestoresDamage /\ AutomaticCopyStands /\ Ready
  BY <1>1, <1>2, <1>4 DEF SafetyCopies, WayBack, Chosen, NeverRestoresDamage,
                          AutomaticCopyStands, Ready, Copying
<1>9. QED
  BY <1>3, <1>5, <1>7, <1>8 DEF IInv

LEMMA NextInvariant ==
  ASSUME IInv, [Next]_vars
  PROVE  IInv'
<1>1. TypeOK'
  BY TypeStep
<1>2. ASSUME NEW i \in Programs,
             \/ Start(i) \/ OpenLegacy(i) \/ Carry(i) \/ Look(i) \/ Migrate(i)
             \/ PrepareDatabase(i) \/ BackupOnStartup(i) \/ Close(i)
      PROVE  IInv'
  BY <1>1, <1>2, StartStep, OpenLegacyStep, CarryStep, LookStep, MigrateStep, PrepareStep,
     AutomaticStep
<1>3. ASSUME NEW i \in Programs, End(i) \/ Crash(i) PROVE IInv'
  BY <1>1, <1>3, DieStep DEF End, Crash
<1>4. ASSUME NEW i \in Programs, Work(i) \/ EditRole(i) \/ EditCurrency(i) PROVE IInv'
  BY <1>1, <1>4, DayHeir, ChangeStep
<1>5. ASSUME NEW i \in Programs, NEW t \in Threads,
             AskCopy(t, i) \/ Reset(t, i) \/ ChooseBackup(t, i)
      PROVE  IInv'
  BY <1>1, <1>5, AskCopyStep, ResetStep, ChooseBackupStep
<1>6. ASSUME NEW t \in Threads, Clear(t) \/ GuardCopy(t) \/ OpenTarget(t) \/ CloseTarget(t)
      PROVE  IInv'
  BY <1>1, <1>6, ClearStep, GuardCopyStep, OpenTargetStep, CloseTargetStep
<1>7. CASE Tick
  BY <1>1, <1>7, TickStep
<1>8. CASE Upgrade
  <2>1. \A i \in Programs : ~program[i].ready /\ Moved(i)
    BY <1>8 DEF Upgrade, Off, Moved
  <2>2. QED
    BY <1>1, <1>8, <2>1, QuietStep DEF Upgrade
<1>9. CASE UNCHANGED vars
  <2>1. \A i \in Programs : Moved(i)
    BY <1>9 DEF vars, Moved
  <2>2. QED
    BY <1>1, <1>9, <2>1, QuietStep DEF vars
<1>10. QED
  BY <1>2, <1>3, <1>4, <1>5, <1>6, <1>7, <1>8, <1>9 DEF Next

\* The invariant holds of every state the program and its owner can reach.
THEOREM Invariance == Spec => []IInv
<1>1. Init => IInv
  BY InitInvariant
<1>2. IInv /\ [Next]_vars => IInv'
  BY NextInvariant
<1>3. QED
  BY <1>1, <1>2, PTL DEF Spec

-----------------------------------------------------------------------------
(* What it is for *)

\* Files, programs, requests and counters keep their types, whatever is copied,
\* cut short or dies.
THEOREM TypeCorrect == Spec => []TypeOK
<1>1. IInv => TypeOK
  BY DEF IInv
<1>2. QED
  BY <1>1, Invariance, PTL

\* Whatever a reset cleared, a restore replaced or a user asked a copy of can be
\* restored, unless work was entered in between or a second copy took the name.
THEOREM AlwaysAWayBack == Spec => []WayBack
<1>1. IInv => WayBack
  BY DEF IInv
<1>2. QED
  BY <1>1, Invariance, PTL

\* A database without an administrator is served only after one of the accidents
\* on record, or while the first start is about to make the administrator.
THEOREM SomebodyCanSignIn == Spec => []AdministratorThere
<1>1. IInv => AdministratorThere
  BY DEF IInv, Manned, AdministratorThere, Free, IsUnmanned
<1>2. QED
  BY <1>1, Invariance, PTL

\* Work of an older release survives the move to the fixed data directory.
THEOREM LegacySurvives == Spec => []LegacyCarried
<1>1. IInv => LegacyCarried
  BY DEF IInv, Descent, LegacyCarried, Free
<1>2. QED
  BY <1>1, Invariance, PTL

\* An unreadable database is being written, or a copy over it was cut short,
\* overlapped another or read a file that was being replaced.
THEOREM DamageExplained == Spec => []NeverRestoresDamage
<1>1. IInv => NeverRestoresDamage
  BY DEF IInv
<1>2. QED
  BY <1>1, Invariance, PTL

\* Retention never removes the only automatic copy of what is in the database.
THEOREM CopyOfToday == Spec => []AutomaticCopyStands
<1>1. IInv => AutomaticCopyStands
  BY DEF IInv
<1>2. QED
  BY <1>1, Invariance, PTL

\* A permission that was taken from a role is not given back by a start, unless
\* no role held it at one.
THEOREM PermissionsStayTaken == Spec => []TakenStays
<1>1. IInv => TakenStays
  BY DEF IInv, Sound, Sane, TakenStays
<1>2. QED
  BY <1>1, Invariance, PTL

\* What a new version brings is held by some role once a program of it is set up.
THEOREM PermissionsArrive == Spec => []UpgradeArrives
<1>1. IInv => UpgradeArrives
  BY DEF IInv, Ready, Complete, UpgradeArrives
<1>2. QED
  BY <1>1, Invariance, PTL
=============================================================================
