---------------------------- MODULE Installation ----------------------------
(***************************************************************************)
(* What is inside the database file of one installation, as far as a start *)
(* of the program reads or writes it, and what the two commands of a start *)
(* do to it: "migrate" and "setup_sarrafi".                                *)
(*                                                                         *)
(* The office's documents are one number, the last commit that changed     *)
(* them; the permissions are those of the roles the program ships with.    *)
(***************************************************************************)
EXTENDS Naturals

CONSTANTS
  Roles,        \* the roles of DEFAULT_ROLES
  Permissions,  \* the codes of PERMISSION_CATALOG, of every version
  MaxVersion,   \* versions of the program are 1 .. MaxVersion
  Defaults      \* version -> role -> the permissions it is created with

ASSUME InstallationAssumption ==
  /\ MaxVersion \in Nat \ {0}
  /\ Defaults \in [1 .. MaxVersion -> [Roles -> SUBSET Permissions]]

Versions == 1 .. MaxVersion

\* The permissions that a version knows and gives to somebody.
Catalog(v) == UNION {Defaults[v][r] : r \in Roles}

\* A readable database file.  "schema" is the version whose tables it has, 0
\* for none.  "grants" has the existing roles as its domain.  "renamed" tells
\* that the office gave its base currency another code than IRR.  "taken" (the
\* permissions the office took from a role), "vacant" (those no role held at
\* some start) and "origin" are history, kept for the properties.
Contents ==
  [schema  : 0 .. MaxVersion,
   books   : Nat,
   admin   : BOOLEAN,
   grants  : UNION {[R -> SUBSET Permissions] : R \in SUBSET Roles},
   renamed : BOOLEAN,
   taken   : SUBSET (Roles \X Permissions),
   vacant  : SUBSET Permissions,
   origin  : {"here", "legacy"}]

\* A file that SQLite opens as a database without tables: 0 bytes long.
Empty == [schema |-> 0, books |-> 0, admin |-> FALSE, grants |-> [r \in {} |-> {}],
          renamed |-> FALSE, taken |-> {}, vacant |-> {}, origin |-> "here"]

Held(c) == UNION {c.grants[r] : r \in DOMAIN c.grants}

\* Variant for mutation: every start applies a migration once more.
MigratedAgain(c, v) == [c EXCEPT !.schema = @ + 1]

\* "migrate" only moves forward: an older program leaves newer tables alone.
Migrated(c, v) == IF c.schema < v THEN [c EXCEPT !.schema = v] ELSE c

\* Variant for mutation: the defaults are put back without looking who holds them.
BrandNewByRole(c, v, r) == Defaults[v][r] \ c.grants[r]

\* What an existing role is given by a start of version v: the defaults that
\* no role at all holds, since those must be new in this version.
BrandNew(c, v, r) == Defaults[v][r] \ Held(c)

\* setup_sarrafi fails as a whole when the base currency no longer has the code
\* IRR: it then tries to create a second base currency, which the constraint
\* only_one_base_currency refuses.
CanSetUp(c, v) == c.schema >= v /\ ~c.renamed

\* Variant for mutation: an existing role is left as it is.
SetUpOnce(c, v, withAdmin) ==
  [c EXCEPT
     !.grants = [r \in Roles |-> IF r \in DOMAIN c.grants THEN c.grants[r] ELSE Defaults[v][r]],
     !.admin  = @ \/ withAdmin]

SetUp(c, v, withAdmin) ==
  [c EXCEPT
     !.grants = [r \in Roles |-> IF r \in DOMAIN c.grants
                                   THEN c.grants[r] \union BrandNew(c, v, r)
                                   ELSE Defaults[v][r]],
     !.vacant = IF DOMAIN c.grants = {} THEN @ ELSE @ \union (Catalog(v) \ Held(c)),
     !.admin  = @ \/ withAdmin]

\* role_edit: the form sends the whole set of a role's permissions.
Regrant(c, r, P) ==
  [c EXCEPT !.grants[r] = P,
            !.taken = (@ \union ({r} \X (c.grants[r] \ P))) \ ({r} \X (P \ c.grants[r]))]
=============================================================================
