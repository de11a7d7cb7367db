------------------------------ MODULE LocalKeys ------------------------------
(***************************************************************************)
(* The buckets of the local backend as Bolt has them: ordered by byte      *)
(* strings, of which "family:name" is one, with no bound between families  *)
(* but the separator (pkg/local_backend/local_backend.go, from acquire to  *)
(* keyToFamilyName).  LocalStore has a table per family instead; here its  *)
(* operators are shown to be what the code does to the buckets, for as     *)
(* long as no family with the separator in it is in use.  A family with    *)
(* one is no error for the code: it is stored, until a scan panics on it.  *)
(*                                                                         *)
(* A string is a sequence of bytes.  As in LocalStore the value of a data  *)
(* entry is the age of UpdatedAt.  A transaction is one step; that it is   *)
(* atomic is the subject of LocalBackend.                                  *)
(***************************************************************************)
EXTENDS Integers, Sequences

CONSTANTS
  Family,            \* the name families, byte strings
  MaxNames,          \* bound: names a family can hand out
  Itoa,              \* strconv.Itoa on the counters
  OtherName,         \* byte strings that clients also pass as names
  AutoReleaseAfter,  \* options.autoReleaseAfter in ticks; 0 disables it
  None               \* the absent value

Byte == 0 .. 255
String == Seq(Byte)
Sep == 58

ASSUME MaxNamesAssumption == MaxNames \in Nat \ {0}
ASSUME AutoReleaseAssumption == AutoReleaseAfter \in Nat
ASSUME NoneAssumption == None \notin Nat
ASSUME StringsAssumption == Family \subseteq String /\ OtherName \subseteq String

Counter == 0 .. MaxNames - 1

\* Decimal digits: no separator, and a numeral of its own for each number.
ASSUME ItoaAssumption ==
  /\ Itoa \in [Counter -> Seq(Byte \ {Sep})]
  /\ \A m, n \in Counter : Itoa[m] = Itoa[n] => m = n

Given == {Itoa[n] : n \in Counter} \cup OtherName

-----------------------------------------------------------------------------
(* Keys. *)

\* Mutant of familyNameToKey: the separator is left out.
familyNameToKeyPlain(f, n) == f \o n

familyNameToKey(f, n) == f \o <<Sep>> \o n

Seps(k) == {i \in DOMAIN k : k[i] = Sep}

\* strings.Split gives two parts; keyToFamilyName panics otherwise.
Parses(k) == \E i \in Seps(k) : Seps(k) = {i}

\* The second result of keyToFamilyName.
nameOf(k) == LET i == CHOOSE j \in Seps(k) : TRUE IN SubSeq(k, i + 1, Len(k))

Prefix(f) == f \o <<Sep>>

HasPrefix(k, p) == Len(p) <= Len(k) /\ \A i \in 1 .. Len(p) : k[i] = p[i]

\* bytes.Compare(k, l) < 0
Before(k, l) ==
  \/ HasPrefix(l, k) /\ Len(k) < Len(l)
  \/ \E i \in DOMAIN k \cap DOMAIN l :
       k[i] < l[i] /\ \A j \in 1 .. i - 1 : k[j] = l[j]

\* Cursor.Seek, for a key with the prefix: the first one that is not before p.  A
\* set of one key, or none.
Seek(bucket, p) ==
  {k \in bucket : HasPrefix(k, p) /\ \A l \in bucket : Before(l, k) => Before(l, p)}

\* Mutant of Scan: the cursor goes on to the end of the bucket.
ScanOn(bucket, p) == {k \in bucket : ~Before(k, p)}

\* Seek and then Next, until a key without the prefix.
Scan(bucket, p) ==
  {k \in bucket : ~Before(k, p) /\
     \A l \in bucket : Before(l, p) \/ Before(k, l) \/ HasPrefix(l, p)}

-----------------------------------------------------------------------------

VARIABLES
  freeBucket,  \* whether freeNamesBucket exists
  free,        \* its keys
  data,        \* dataBucket: the age of UpdatedAt by key
  counter,     \* countersBucket
  panicked     \* history: a process panicked

vars == <<freeBucket, free, data, counter, panicked>>

Age == 0 .. AutoReleaseAfter + 1
Keys == {familyNameToKey(f, Itoa[n]) : f \in Family, n \in Counter}

TypeOK ==
  /\ freeBucket \in BOOLEAN
  /\ free \subseteq Keys
  /\ DOMAIN data \subseteq Keys
  /\ data \in [DOMAIN data -> Age]
  /\ counter \in [Family -> 0 .. MaxNames]
  /\ panicked \in BOOLEAN

Init ==
  /\ freeBucket = FALSE
  /\ free = {}
  /\ data = [k \in {} |-> 0]
  /\ counter = [f \in Family |-> 0]
  /\ panicked = FALSE

isNameFree(f, n) == ~freeBucket \/ familyNameToKey(f, n) \in free

hasData(f, n) == familyNameToKey(f, n) \in DOMAIN data

\* setData with UpdatedAt = Now().
setData(f, n) ==
  data' = [k \in DOMAIN data \cup {familyNameToKey(f, n)} |->
             IF k = familyNameToKey(f, n) THEN 0 ELSE data[k]]

\* Mutant of released: whether the name is known is not looked up.
releasedUnknown(f, n) == IF isNameFree(f, n) THEN {} ELSE {familyNameToKey(f, n)}

\* What release adds to the bucket of free names.
released(f, n) ==
  IF isNameFree(f, n) \/ ~hasData(f, n) THEN {} ELSE {familyNameToKey(f, n)}

zombies(f) ==
  {k \in Scan(DOMAIN data, Prefix(f)) : AutoReleaseAfter > 0 /\ data[k] > AutoReleaseAfter}

\* The free names after releaseZombies.
swept(f) == free \cup UNION {released(f, nameOf(k)) : k \in zombies(f)}

-----------------------------------------------------------------------------
(* The operations. *)

\* The transaction is rolled back and the process dies.
Panic ==
  /\ panicked' = TRUE
  /\ UNCHANGED <<freeBucket, free, data, counter>>

AcquirePanics(f) == (\E k \in zombies(f) : ~Parses(k)) /\ Panic

\* getAnyFreeName.
anyFreeName(f) == Seek(swept(f), Prefix(f))

\* It finds a key of the family, and the rest of it is the name.
Reuse(f) ==
  /\ \A k \in zombies(f) : Parses(k)
  /\ \E k \in anyFreeName(f) :
       LET n == SubSeq(k, Len(Prefix(f)) + 1, Len(k))
       IN  /\ hasData(f, n)
           /\ setData(f, n)
           /\ free' = swept(f) \ {familyNameToKey(f, n)}
  /\ freeBucket' = TRUE
  /\ UNCHANGED <<counter, panicked>>

\* It finds none, and the counter gives the name.  Bolt has no empty key: a
\* counter of the empty family is an error.
New(f) ==
  /\ \A k \in zombies(f) : Parses(k)
  /\ anyFreeName(f) = {}
  /\ f # <<>>
  /\ counter[f] < MaxNames
  /\ counter' = [counter EXCEPT ![f] = @ + 1]
  /\ setData(f, Itoa[counter[f]])
  /\ free' = swept(f)
  /\ freeBucket' = TRUE
  /\ UNCHANGED panicked

TryAcquire(f, n) ==
  /\ isNameFree(f, n)
  /\ hasData(f, n)
  /\ free' = free \ {familyNameToKey(f, n)}
  /\ setData(f, n)
  /\ UNCHANGED <<freeBucket, counter, panicked>>

KeepAlive(f, n) ==
  /\ ~isNameFree(f, n)
  /\ hasData(f, n)
  /\ setData(f, n)
  /\ UNCHANGED <<freeBucket, free, counter, panicked>>

Release(f, n) ==
  /\ released(f, n) # {}
  /\ free' = free \cup released(f, n)
  /\ UNCHANGED <<freeBucket, data, counter, panicked>>

\* List takes every key apart.
ListPanics == (\E k \in DOMAIN data : ~Parses(k)) /\ Panic

\* Time passes for every entry.
Elapse ==
  /\ data' = [k \in DOMAIN data |-> IF data[k] > AutoReleaseAfter THEN data[k] ELSE data[k] + 1]
  /\ UNCHANGED <<freeBucket, free, counter, panicked>>

Next ==
  \/ \E f \in Family : AcquirePanics(f) \/ Reuse(f) \/ New(f)
  \/ \E f \in Family, n \in Given : TryAcquire(f, n) \/ KeepAlive(f, n) \/ Release(f, n)
  \/ ListPanics
  \/ Elapse

Spec == Init /\ [][Next]_vars

-----------------------------------------------------------------------------
(* Properties. *)

\* No family in use has the separator in it.
Separated == \A f \in Family : counter[f] > 0 => Seps(f) = {}

\* keyToFamilyName panics on nothing but what the code itself put into the bucket
\* for a family with a separator: no name, and no free name a client passes, does it.
PanicsExplained == panicked => ~Separated

Store == INSTANCE LocalStore

\* The buckets, family by family.
Decoded ==
  [freeBucket |-> freeBucket,
   free    |-> [f \in Family |-> {n \in Counter : familyNameToKey(f, Itoa[n]) \in free}],
   data    |-> [f \in Family |-> [n \in Counter |->
                 IF hasData(f, Itoa[n]) THEN data[familyNameToKey(f, Itoa[n])] ELSE None]],
   counter |-> counter]

StoreAcquire(f) == \E r \in Store!acquire(Decoded, f) : Decoded' = r.db

\* Every operation does what it does in LocalStore, to the family and the name it
\* was called with: prefix scans find all names of their family and nothing of a
\* family that begins alike, and no string passed as a name reaches into another
\* family.
ImplementsStore ==
  [][Separated =>
       /\ Elapse => Decoded' = Store!elapse(Decoded)
       /\ \A f \in Family : Reuse(f) \/ New(f) => StoreAcquire(f)
       /\ \A f \in Family, s \in Given :
            TryAcquire(f, s) \/ KeepAlive(f, s) \/ Release(f, s) =>
              \E n \in Counter :
                /\ s = Itoa[n]
                /\ TryAcquire(f, s) => Decoded' = Store!tryAcquire(Decoded, f, n).db
                /\ KeepAlive(f, s) => Decoded' = Store!keepAlive(Decoded, f, n)
                /\ Release(f, s) => Decoded' = Store!release(Decoded, f, n)]_vars
=============================================================================
