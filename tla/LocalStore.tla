----------------------------- MODULE LocalStore -----------------------------
(***************************************************************************)
(* The Bolt database of the local backend and what each operation does to  *)
(* it inside one Bolt transaction (pkg/local_backend/local_backend.go,     *)
(* from acquire to setData).  Everything here is an operator on a database *)
(* value; LocalBackend runs them under the file lock.                      *)
(*                                                                         *)
(* Abstractions.  A name is the counter value it is printed from.  Of the  *)
(* metadata only UpdatedAt decides anything, and only through its distance *)
(* to the clock, so an entry of the data bucket is the age of UpdatedAt:   *)
(* 0 when it is set to Now(), one more per tick, capped at the first age   *)
(* that exceeds autoReleaseAfter.  Family and name are kept apart: how     *)
(* they are joined into a key is not modelled here.                        *)
(***************************************************************************)
EXTENDS Integers

CONSTANTS
  Family,            \* the name families
  MaxNames,          \* bound: names a family can hand out
  AutoReleaseAfter,  \* options.autoReleaseAfter in ticks; 0 disables it
  None               \* the absent value (nil)

ASSUME MaxNamesAssumption == MaxNames \in Nat \ {0}
ASSUME AutoReleaseAssumption == AutoReleaseAfter \in Nat
ASSUME NoneAssumption == None \notin Nat

Name == 0 .. MaxNames - 1
Age  == 0 .. AutoReleaseAfter + 1

Older(age) == IF age > AutoReleaseAfter THEN age ELSE age + 1

\* freeBucket: whether freeNamesBucket exists yet.  The other two buckets are
\* created on first write and an absent one reads like an empty one.
Database ==
  [freeBucket : BOOLEAN,
   free       : [Family -> SUBSET Name],
   data       : [Family -> [Name -> Age \cup {None}]],
   counter    : [Family -> 0 .. MaxNames]]

EmptyDatabase ==
  [freeBucket |-> FALSE,
   free       |-> [f \in Family |-> {}],
   data       |-> [f \in Family |-> [n \in Name |-> None]],
   counter    |-> [f \in Family |-> 0]]

-----------------------------------------------------------------------------
(* The helpers on the buckets. *)

\* Without the bucket every name counts as free.
isNameFree(db, f, n) == ~db.freeBucket \/ n \in db.free[f]

hasData(db, f, n) == db.data[f][n] # None

\* setData with UpdatedAt = Now().
touch(db, f, n) == [db EXCEPT !.data[f][n] = 0]

addFreeName(db, f, n) ==
  [db EXCEPT !.freeBucket = TRUE, !.free[f] = @ \cup {n}]

\* In the code this panics when the bucket does not exist (see Consistent).
removeFreeName(db, f, n) == [db EXCEPT !.free[f] = @ \ {n}]

-----------------------------------------------------------------------------
(* The operations. *)

\* Mutant of keepAlive: the guard on free names is inverted.
keepAliveFree(db, f, n) ==
  IF ~isNameFree(db, f, n) \/ ~hasData(db, f, n) THEN db ELSE touch(db, f, n)

keepAlive(db, f, n) ==
  IF isNameFree(db, f, n) \/ ~hasData(db, f, n) THEN db ELSE touch(db, f, n)

\* Mutant of release: the check that the name is known is dropped.
releaseUnknown(db, f, n) == IF isNameFree(db, f, n) THEN db ELSE addFreeName(db, f, n)

release(db, f, n) ==
  IF isNameFree(db, f, n) \/ ~hasData(db, f, n) THEN db ELSE addFreeName(db, f, n)

\* Mutant of zombies: a name exactly autoReleaseAfter old is swept.
zombiesEarly(db, f) == {n \in Name : hasData(db, f, n) /\ db.data[f][n] >= AutoReleaseAfter}

\* The cursor visits every entry of the family, the free ones included;
\* release leaves those alone.
zombies(db, f) == {n \in Name : hasData(db, f, n) /\ db.data[f][n] > AutoReleaseAfter}

releaseZombies(db, f) ==
  IF db.freeBucket
  THEN [db EXCEPT !.free[f] = @ \cup zombies(db, f)]
  ELSE db

\* Mutant of beforeAcquire: zombies are never released.
beforeAcquireNoSweep(db, f) == [db EXCEPT !.freeBucket = TRUE]

\* The database acquire works on: zombies released when that is enabled, and
\* the bucket of free names created by getAnyFreeName.
beforeAcquire(db, f) ==
  [(IF AutoReleaseAfter > 0 THEN releaseZombies(db, f) ELSE db)
     EXCEPT !.freeBucket = TRUE]

\* Any free name may be the one Seek returns.  A free name without metadata is
\* reported as "inconsistent database" and the transaction is rolled back.
reuseName(db, f, n) ==
  LET swept == beforeAcquire(db, f)
  IN  IF hasData(swept, f, n)
      THEN [db |-> touch(removeFreeName(swept, f, n), f, n), name |-> n, status |-> "ok"]
      ELSE [db |-> db, name |-> n, status |-> "inconsistent"]

\* Mutant of newName: the name is the counter after the increment.
newNameAfterIncrement(db, f) ==
  LET swept == beforeAcquire(db, f)
      n     == swept.counter[f] + 1
  IN  [db |-> touch([swept EXCEPT !.counter[f] = n], f, n), name |-> n, status |-> "ok"]

newName(db, f) ==
  LET swept == beforeAcquire(db, f)
      n     == swept.counter[f]
  IN  [db |-> touch([swept EXCEPT !.counter[f] = n + 1], f, n),
       name |-> n, status |-> "ok"]

\* What acquire can do: reuse a free name if there is one, else make a new one
\* (within the bound MaxNames).
acquire(db, f) ==
  LET swept == beforeAcquire(db, f)
  IN  IF swept.free[f] # {}
      THEN {reuseName(db, f, n) : n \in swept.free[f]}
      ELSE {newName(db, f) : n \in {swept.counter[f]} \cap Name}

\* Mutant of tryAcquireStatus: a name in use is not refused.
tryAcquireStatusUnguarded(db, f, n) == IF hasData(db, f, n) THEN "ok" ELSE "ErrNotExist"

tryAcquireStatus(db, f, n) ==
  IF ~isNameFree(db, f, n) THEN "ErrInUse"
  ELSE IF ~hasData(db, f, n) THEN "ErrNotExist"
  ELSE "ok"

tryAcquire(db, f, n) ==
  [db |-> IF tryAcquireStatus(db, f, n) = "ok"
          THEN touch(removeFreeName(db, f, n), f, n)
          ELSE db,
   name |-> n, status |-> tryAcquireStatus(db, f, n)]

\* Time passes for every entry.
elapse(db) ==
  [db EXCEPT !.data =
     [f \in Family |-> [n \in Name |->
        IF hasData(db, f, n) THEN Older(db.data[f][n]) ELSE None]]]

-----------------------------------------------------------------------------
(* What a database says of a name. *)

InUse(db, f, n) == hasData(db, f, n) /\ ~isNameFree(db, f, n)

\* In use, and safe from the sweep.
Live(db, f, n) ==
  /\ InUse(db, f, n)
  /\ AutoReleaseAfter > 0 => db.data[f][n] <= AutoReleaseAfter

-----------------------------------------------------------------------------
(* What must hold of a database between two transactions. *)

\* A free name has metadata, so acquire never reports an inconsistent database.
FreeNamesHaveData(db) == \A f \in Family : \A n \in db.free[f] : hasData(db, f, n)

\* The counter of a family is the next name nobody has: new names are new.
CounterIsNext(db) ==
  \A f \in Family, n \in Name : hasData(db, f, n) <=> n < db.counter[f]

\* No metadata before the bucket of free names exists: isNameFree's reading of
\* a missing bucket and the panic of removeFreeName are never met.
BucketBeforeData(db) ==
  db.freeBucket \/ \A f \in Family, n \in Name : ~hasData(db, f, n)

Consistent(db) ==
  /\ FreeNamesHaveData(db)
  /\ CounterIsNext(db)
  /\ BucketBeforeData(db)
=============================================================================
