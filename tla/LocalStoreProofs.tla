------------------------- MODULE LocalStoreProofs --------------------------
(***************************************************************************)
(* Lemmas about the operations of LocalStore: what each returns, that it   *)
(* keeps a database consistent, and what it leaves of other names.         *)
(***************************************************************************)
EXTENDS LocalStore, TLAPS

USE MaxNamesAssumption, AutoReleaseAssumption, NoneAssumption

\* An age is never the absent value.
LEMMA AgeFacts ==
  /\ None \notin Age
  /\ 0 \in Age
  /\ \A a \in Age : Older(a) \in Age /\ a <= Older(a)
  /\ \A a, b \in Age : a <= b => Older(a) <= Older(b)
BY DEF Age, Older

LEMMA EmptyDatabaseType == EmptyDatabase \in Database /\ Consistent(EmptyDatabase)
<1>1. EmptyDatabase \in Database
  BY DEF EmptyDatabase, Database
<1>2. Consistent(EmptyDatabase)
  BY DEF EmptyDatabase, Consistent, FreeNamesHaveData, CounterIsNext, BucketBeforeData,
         hasData, Name
<1> QED BY <1>1, <1>2

LEMMA TouchType ==
  ASSUME NEW db \in Database, NEW f \in Family, NEW n \in Name
  PROVE  touch(db, f, n) \in Database
BY AgeFacts DEF Database, touch

LEMMA AddFreeNameType ==
  ASSUME NEW db \in Database, NEW f \in Family, NEW n \in Name
  PROVE  addFreeName(db, f, n) \in Database
BY DEF Database, addFreeName

LEMMA RemoveFreeNameType ==
  ASSUME NEW db \in Database, NEW f \in Family, NEW n \in Name
  PROVE  removeFreeName(db, f, n) \in Database
BY DEF Database, removeFreeName

LEMMA KeepAliveType ==
  ASSUME NEW db \in Database, NEW f \in Family, NEW n \in Name
  PROVE  keepAlive(db, f, n) \in Database
BY TouchType DEF keepAlive

LEMMA ReleaseType ==
  ASSUME NEW db \in Database, NEW f \in Family, NEW n \in Name
  PROVE  release(db, f, n) \in Database
BY AddFreeNameType DEF release

LEMMA ReleaseZombiesType ==
  ASSUME NEW db \in Database, NEW f \in Family
  PROVE  releaseZombies(db, f) \in Database
BY DEF Database, releaseZombies, zombies

LEMMA BeforeAcquireType ==
  ASSUME NEW db \in Database, NEW f \in Family
  PROVE  beforeAcquire(db, f) \in Database
BY ReleaseZombiesType DEF Database, beforeAcquire

LEMMA ElapseType ==
  ASSUME NEW db \in Database
  PROVE  elapse(db) \in Database
<1> DEFINE older == [f \in Family |-> [n \in Name |->
                       IF hasData(db, f, n) THEN Older(db.data[f][n]) ELSE None]]
<1>1. ASSUME NEW f \in Family, NEW n \in Name
      PROVE  (IF hasData(db, f, n) THEN Older(db.data[f][n]) ELSE None) \in Age \cup {None}
  BY AgeFacts DEF Database, hasData
<1>2. older \in [Family -> [Name -> Age \cup {None}]]
  BY <1>1
<1>3. elapse(db) = [db EXCEPT !.data = older]
  BY DEF elapse
<1> HIDE DEF older
<1> QED BY <1>2, <1>3 DEF Database

-----------------------------------------------------------------------------
(* What the operations do to the parts of a database. *)

LEMMA TouchFacts ==
  ASSUME NEW db \in Database, NEW f \in Family, NEW n \in Name
  PROVE  LET t == touch(db, f, n)
         IN  /\ t.freeBucket = db.freeBucket
             /\ t.free = db.free
             /\ t.counter = db.counter
             /\ t.data[f][n] = 0
             /\ \A g \in Family, m \in Name :
                  <<g, m>> # <<f, n>> => t.data[g][m] = db.data[g][m]
BY DEF Database, touch

LEMMA AddFreeNameFacts ==
  ASSUME NEW db \in Database, NEW f \in Family, NEW n \in Name
  PROVE  LET t == addFreeName(db, f, n)
         IN  /\ t.freeBucket
             /\ t.data = db.data
             /\ t.counter = db.counter
             /\ \A g \in Family, m \in Name :
                  m \in t.free[g] <=> (m \in db.free[g] \/ (g = f /\ m = n))
BY DEF Database, addFreeName

LEMMA RemoveFreeNameFacts ==
  ASSUME NEW db \in Database, NEW f \in Family, NEW n \in Name
  PROVE  LET t == removeFreeName(db, f, n)
         IN  /\ t.freeBucket = db.freeBucket
             /\ t.data = db.data
             /\ t.counter = db.counter
             /\ \A g \in Family, m \in Name :
                  m \in t.free[g] <=> (m \in db.free[g] /\ ~(g = f /\ m = n))
BY DEF Database, removeFreeName

LEMMA BeforeAcquireFacts ==
  ASSUME NEW db \in Database, NEW f \in Family
  PROVE  LET t == beforeAcquire(db, f)
         IN  /\ t.freeBucket
             /\ t.data = db.data
             /\ t.counter = db.counter
             /\ \A g \in Family, m \in Name :
                  m \in t.free[g] <=>
                    \/ m \in db.free[g]
                    \/ /\ AutoReleaseAfter > 0 /\ db.freeBucket
                       /\ g = f /\ m \in zombies(db, f)
<1>1. LET t == releaseZombies(db, f)
      IN  /\ t.data = db.data
          /\ t.counter = db.counter
          /\ \A g \in Family, m \in Name :
               m \in t.free[g] <=>
                 m \in db.free[g] \/ (db.freeBucket /\ g = f /\ m \in zombies(db, f))
  <2> DEFINE z == zombies(db, f)
  <2>1. releaseZombies(db, f) = IF db.freeBucket THEN [db EXCEPT !.free[f] = @ \cup z] ELSE db
    BY DEF releaseZombies
  <2> HIDE DEF z
  <2>2. LET t == IF db.freeBucket THEN [db EXCEPT !.free[f] = @ \cup z] ELSE db
        IN  /\ t.data = db.data
            /\ t.counter = db.counter
            /\ \A g \in Family, m \in Name :
                 m \in t.free[g] <=> m \in db.free[g] \/ (db.freeBucket /\ g = f /\ m \in z)
    BY DEF Database
  <2> QED BY <2>1, <2>2 DEF z
<1>2. CASE AutoReleaseAfter > 0
  <2> DEFINE t == releaseZombies(db, f)
  <2>1. t \in Database
    BY ReleaseZombiesType
  <2>2. beforeAcquire(db, f) = [t EXCEPT !.freeBucket = TRUE]
    BY <1>2 DEF beforeAcquire
  <2>3. /\ t.data = db.data
        /\ t.counter = db.counter
        /\ \A g \in Family, m \in Name :
             m \in t.free[g] <=>
               m \in db.free[g] \/ (db.freeBucket /\ g = f /\ m \in zombies(db, f))
    BY <1>1
  <2> HIDE DEF t
  <2> QED BY <1>2, <2>1, <2>2, <2>3 DEF Database
<1>3. CASE ~(AutoReleaseAfter > 0)
  BY <1>3 DEF Database, beforeAcquire
<1> QED BY <1>2, <1>3

LEMMA ElapseFacts ==
  ASSUME NEW db \in Database
  PROVE  LET t == elapse(db)
         IN  /\ t.freeBucket = db.freeBucket
             /\ t.free = db.free
             /\ t.counter = db.counter
             /\ \A f \in Family, n \in Name :
                  t.data[f][n] = IF hasData(db, f, n) THEN Older(db.data[f][n]) ELSE None
BY DEF Database, elapse

-----------------------------------------------------------------------------
(* Every operation keeps a database consistent. *)

LEMMA KeepAliveConsistent ==
  ASSUME NEW db \in Database, Consistent(db), NEW f \in Family, NEW n \in Name
  PROVE  Consistent(keepAlive(db, f, n))
<1>1. CASE isNameFree(db, f, n) \/ ~hasData(db, f, n)
  BY <1>1 DEF keepAlive
<1>2. CASE ~isNameFree(db, f, n) /\ hasData(db, f, n)
  <2>1. keepAlive(db, f, n) = touch(db, f, n)
    BY <1>2 DEF keepAlive
  <2>2. \A g \in Family, m \in Name : hasData(touch(db, f, n), g, m) <=> hasData(db, g, m)
    BY <1>2, TouchFacts DEF hasData
  <2> QED BY <2>1, <2>2, TouchFacts, SMTT(20)
          DEF Consistent, FreeNamesHaveData, CounterIsNext, BucketBeforeData, Database
<1> QED BY <1>1, <1>2

LEMMA ReleaseConsistent ==
  ASSUME NEW db \in Database, Consistent(db), NEW f \in Family, NEW n \in Name
  PROVE  Consistent(release(db, f, n))
<1>1. CASE isNameFree(db, f, n) \/ ~hasData(db, f, n)
  BY <1>1 DEF release
<1>2. CASE ~isNameFree(db, f, n) /\ hasData(db, f, n)
  <2> DEFINE t == addFreeName(db, f, n)
  <2>1. release(db, f, n) = t
    BY <1>2 DEF release
  <2>2. t \in Database
    BY AddFreeNameType
  <2>3. \A g \in Family, m \in Name : hasData(t, g, m) <=> hasData(db, g, m)
    BY AddFreeNameFacts DEF hasData
  <2>4. t.freeBucket /\ t.counter = db.counter
    BY AddFreeNameFacts
  <2>5. \A g \in Family, m \in Name :
          m \in t.free[g] => m \in db.free[g] \/ (g = f /\ m = n)
    BY AddFreeNameFacts
  <2> HIDE DEF t
  <2>6. FreeNamesHaveData(t)
    BY <1>2, <2>2, <2>3, <2>5 DEF FreeNamesHaveData, Consistent, Database
  <2>7. CounterIsNext(t) /\ BucketBeforeData(t)
    BY <2>3, <2>4 DEF CounterIsNext, BucketBeforeData, Consistent
  <2> QED BY <2>1, <2>6, <2>7 DEF Consistent
<1> QED BY <1>1, <1>2

LEMMA BeforeAcquireConsistent ==
  ASSUME NEW db \in Database, Consistent(db), NEW f \in Family
  PROVE  Consistent(beforeAcquire(db, f))
<1> DEFINE t == beforeAcquire(db, f)
<1>1. t \in Database
  BY BeforeAcquireType
<1>2. \A g \in Family, m \in Name : hasData(t, g, m) <=> hasData(db, g, m)
  BY BeforeAcquireFacts DEF hasData
<1>3. t.freeBucket /\ t.counter = db.counter
  BY BeforeAcquireFacts
<1>4. \A g \in Family, m \in Name :
        m \in t.free[g] => m \in db.free[g] \/ hasData(db, g, m)
  BY BeforeAcquireFacts DEF zombies
<1> HIDE DEF t
<1>5. FreeNamesHaveData(t)
  BY <1>1, <1>2, <1>4 DEF FreeNamesHaveData, Consistent, Database
<1>6. CounterIsNext(t) /\ BucketBeforeData(t)
  BY <1>2, <1>3 DEF CounterIsNext, BucketBeforeData, Consistent
<1> QED BY <1>5, <1>6 DEF t, Consistent

\* Taking a name off the free list and touching it, as both acquisitions do.
LEMMA TakeConsistent ==
  ASSUME NEW db \in Database, Consistent(db), NEW f \in Family, NEW n \in Name,
         hasData(db, f, n)
  PROVE  LET t == touch(removeFreeName(db, f, n), f, n)
         IN  /\ t \in Database
             /\ Consistent(t)
             /\ t.freeBucket = db.freeBucket
             /\ t.counter = db.counter
             /\ t.data[f][n] = 0
             /\ n \notin t.free[f]
             /\ \A g \in Family, m \in Name : <<g, m>> # <<f, n>> =>
                  /\ t.data[g][m] = db.data[g][m]
                  /\ m \in t.free[g] <=> m \in db.free[g]
<1> DEFINE r == removeFreeName(db, f, n)
           t == touch(r, f, n)
<1>1. r \in Database
  BY RemoveFreeNameType
<1>2. t \in Database
  BY <1>1, TouchType
<1>3. /\ t.freeBucket = db.freeBucket
      /\ t.counter = db.counter
      /\ t.data[f][n] = 0
      /\ \A g \in Family, m \in Name :
           /\ m \in t.free[g] <=> (m \in db.free[g] /\ ~(g = f /\ m = n))
           /\ <<g, m>> # <<f, n>> => t.data[g][m] = db.data[g][m]
  <2> HIDE DEF r
  <2>1. /\ t.freeBucket = r.freeBucket
        /\ t.free = r.free
        /\ t.counter = r.counter
        /\ t.data[f][n] = 0
        /\ \A g \in Family, m \in Name :
             <<g, m>> # <<f, n>> => t.data[g][m] = r.data[g][m]
    BY <1>1, TouchFacts
  <2>2. /\ r.freeBucket = db.freeBucket
        /\ r.data = db.data
        /\ r.counter = db.counter
        /\ \A g \in Family, m \in Name :
             m \in r.free[g] <=> (m \in db.free[g] /\ ~(g = f /\ m = n))
    BY RemoveFreeNameFacts DEF r
  <2> HIDE DEF t
  <2> QED BY <2>1, <2>2
<1> HIDE DEF r, t
<1>4. \A g \in Family, m \in Name : hasData(t, g, m) <=> hasData(db, g, m)
  BY <1>3 DEF hasData
<1>5. FreeNamesHaveData(t)
  BY <1>2, <1>3, <1>4 DEF FreeNamesHaveData, Consistent, Database
<1>6. CounterIsNext(t) /\ BucketBeforeData(t)
  BY <1>3, <1>4 DEF CounterIsNext, BucketBeforeData, Consistent
<1>7. Consistent(t)
  BY <1>5, <1>6 DEF Consistent
<1> QED BY <1>2, <1>3, <1>7 DEF r, t

LEMMA ElapseConsistent ==
  ASSUME NEW db \in Database, Consistent(db)
  PROVE  Consistent(elapse(db))
<1> DEFINE t == elapse(db)
<1>1. t \in Database
  BY ElapseType
<1>2. /\ t.freeBucket = db.freeBucket
      /\ t.free = db.free
      /\ t.counter = db.counter
  BY ElapseFacts
<1>3. ASSUME NEW g \in Family, NEW m \in Name
      PROVE  hasData(t, g, m) <=> hasData(db, g, m)
  <2>1. t.data[g][m] = IF hasData(db, g, m) THEN Older(db.data[g][m]) ELSE None
    BY ElapseFacts
  <2>2. hasData(db, g, m) => db.data[g][m] \in Age
    BY DEF Database, hasData
  <2> QED BY <2>1, <2>2, AgeFacts DEF hasData
<1> HIDE DEF t
<1>4. Consistent(t)
  BY <1>1, <1>2, <1>3
     DEF Consistent, FreeNamesHaveData, CounterIsNext, BucketBeforeData, Database
<1> QED BY <1>4 DEF t

-----------------------------------------------------------------------------
(* What an operation on one name leaves of the names that are live. *)

\* The sweep takes no live name.
LEMMA BeforeAcquireKeepsLive ==
  ASSUME NEW db \in Database, NEW f \in Family, NEW g \in Family, NEW m \in Name,
         Live(db, g, m)
  PROVE  m \notin beforeAcquire(db, f).free[g]
<1>1. m \notin db.free[g]
  BY DEF Live, InUse, isNameFree
<1>2. ~(AutoReleaseAfter > 0 /\ g = f /\ m \in zombies(db, f))
  BY DEF Live, zombies, InUse, hasData, Database, Age
<1> QED BY <1>1, <1>2, BeforeAcquireFacts

\* An acquisition grants a name that was not live, and leaves the live ones be.
GrantFacts(db, f, r) ==
  /\ InUse(r.db, f, r.name)
  /\ r.db.data[f][r.name] = 0
  /\ ~Live(db, f, r.name)
  /\ \A g \in Family, m \in Name : Live(db, g, m) =>
       InUse(r.db, g, m) /\ r.db.data[g][m] = db.data[g][m]

LEMMA ReuseNameFacts ==
  ASSUME NEW db \in Database, Consistent(db), NEW f \in Family,
         NEW n \in beforeAcquire(db, f).free[f]
  PROVE  LET r == reuseName(db, f, n)
         IN  /\ r.db \in Database
             /\ Consistent(r.db)
             /\ r.name \in Name
             /\ r.status = "ok"
             /\ GrantFacts(db, f, r)
<1> DEFINE swept == beforeAcquire(db, f)
           t == touch(removeFreeName(swept, f, n), f, n)
<1>1. swept \in Database /\ Consistent(swept)
  BY BeforeAcquireType, BeforeAcquireConsistent
<1>2. n \in Name /\ hasData(swept, f, n)
  BY <1>1 DEF Consistent, FreeNamesHaveData, Database
<1>3. reuseName(db, f, n) = [db |-> t, name |-> n, status |-> "ok"]
  BY <1>2 DEF reuseName
<1>4. /\ t \in Database
      /\ Consistent(t)
      /\ t.freeBucket = swept.freeBucket
      /\ t.data[f][n] = 0
      /\ n \notin t.free[f]
      /\ \A g \in Family, m \in Name : <<g, m>> # <<f, n>> =>
           /\ t.data[g][m] = swept.data[g][m]
           /\ m \in t.free[g] <=> m \in swept.free[g]
  <2> HIDE DEF swept
  <2> QED BY <1>1, <1>2, TakeConsistent
<1>5. swept.freeBucket /\ swept.data = db.data
  BY BeforeAcquireFacts
<1>6. \A g \in Family, m \in Name : Live(db, g, m) => m \notin swept.free[g]
  BY BeforeAcquireKeepsLive
<1>7. ~Live(db, f, n)
  BY <1>2, <1>6
<1> HIDE DEF swept, t
<1>8. InUse(t, f, n)
  BY <1>2, <1>4, <1>5 DEF InUse, hasData, isNameFree
<1>9. ASSUME NEW g \in Family, NEW m \in Name, Live(db, g, m)
      PROVE  InUse(t, g, m) /\ t.data[g][m] = db.data[g][m]
  <2>1. <<g, m>> # <<f, n>>
    BY <1>7, <1>9
  <2>2. t.data[g][m] = db.data[g][m] /\ m \notin t.free[g]
    BY <2>1, <1>4, <1>5, <1>6, <1>9
  <2>3. db.data[g][m] # None
    BY <1>9 DEF Live, InUse, hasData
  <2> QED BY <2>2, <2>3, <1>4, <1>5 DEF InUse, hasData, isNameFree
<1> QED BY <1>2, <1>3, <1>4, <1>7, <1>8, <1>9 DEF GrantFacts

LEMMA NewNameFacts ==
  ASSUME NEW db \in Database, Consistent(db), NEW f \in Family,
         beforeAcquire(db, f).counter[f] \in Name,
         beforeAcquire(db, f).free[f] = {}
  PROVE  LET r == newName(db, f)
         IN  /\ r.db \in Database
             /\ Consistent(r.db)
             /\ r.name \in Name
             /\ r.status = "ok"
             /\ GrantFacts(db, f, r)
<1> DEFINE swept == beforeAcquire(db, f)
           n == swept.counter[f]
           s == [swept EXCEPT !.counter[f] = n + 1]
           t == touch(s, f, n)
<1>1. swept \in Database /\ Consistent(swept)
  BY BeforeAcquireType, BeforeAcquireConsistent
<1>2. newName(db, f) = [db |-> t, name |-> n, status |-> "ok"]
  BY DEF newName
<1>3. n \in Name /\ swept.free[f] = {}
  OBVIOUS
<1>4. swept.freeBucket /\ swept.data = db.data
  BY BeforeAcquireFacts
<1>5. \A g \in Family, m \in Name : Live(db, g, m) => m \notin swept.free[g]
  BY BeforeAcquireKeepsLive
<1> HIDE DEF swept
<1>6. n + 1 \in 0 .. MaxNames
  BY <1>3 DEF Name
<1> HIDE DEF n
<1>7. /\ s \in Database
      /\ s.freeBucket /\ s.data = swept.data /\ s.free = swept.free
      /\ s.counter[f] = n + 1
      /\ \A g \in Family : g # f => s.counter[g] = swept.counter[g]
  BY <1>1, <1>4, <1>6 DEF Database
<1> HIDE DEF s
<1>8. /\ t \in Database
      /\ t.freeBucket /\ t.free = swept.free
      /\ t.counter = s.counter
      /\ t.data[f][n] = 0
      /\ \A g \in Family, m \in Name : <<g, m>> # <<f, n>> => t.data[g][m] = db.data[g][m]
  <2>1. t \in Database
    BY <1>3, <1>7, TouchType
  <2>2. /\ t.freeBucket = s.freeBucket
        /\ t.free = s.free
        /\ t.counter = s.counter
        /\ t.data[f][n] = 0
        /\ \A g \in Family, m \in Name : <<g, m>> # <<f, n>> => t.data[g][m] = s.data[g][m]
    BY <1>3, <1>7, TouchFacts, ZenonT(40)
  <2> HIDE DEF t
  <2> QED BY <2>1, <2>2, <1>4, <1>7
<1> HIDE DEF t
<1>9. \A g \in Family, m \in Name :
        hasData(t, g, m) <=> hasData(swept, g, m) \/ (g = f /\ m = n)
  BY <1>4, <1>8 DEF hasData
<1>10. FreeNamesHaveData(t)
  BY <1>1, <1>8, <1>9 DEF FreeNamesHaveData, Consistent, Database
<1>11. CounterIsNext(t)
  <2> SUFFICES ASSUME NEW g \in Family, NEW m \in Name
               PROVE  hasData(t, g, m) <=> m < t.counter[g]
    BY DEF CounterIsNext
  <2>1. hasData(swept, g, m) <=> m < swept.counter[g]
    BY <1>1 DEF Consistent, CounterIsNext
  <2>2. n = swept.counter[f] /\ m \in Nat /\ n \in Nat
    BY <1>3 DEF n, Name
  <2>3. CASE g = f
    BY <2>1, <2>2, <2>3, <1>7, <1>8, <1>9
  <2>4. CASE g # f
    BY <2>1, <2>4, <1>7, <1>8, <1>9
  <2> QED BY <2>3, <2>4
<1>12. Consistent(t)
  BY <1>8, <1>10, <1>11 DEF Consistent, BucketBeforeData
<1>13. ~hasData(db, f, n)
  <2>1. n = swept.counter[f] /\ n \in Nat
    BY <1>3 DEF n, Name
  <2>2. ~hasData(swept, f, n)
    BY <2>1, <1>1, <1>3 DEF Consistent, CounterIsNext
  <2> QED BY <2>2, <1>4 DEF hasData
<1>14. InUse(t, f, n)
  BY <1>3, <1>8 DEF InUse, hasData, isNameFree
<1>15. ASSUME NEW g \in Family, NEW m \in Name, Live(db, g, m)
       PROVE  InUse(t, g, m) /\ t.data[g][m] = db.data[g][m]
  <2>1. db.data[g][m] # None
    BY <1>15 DEF Live, InUse, hasData
  <2>2. <<g, m>> # <<f, n>>
    BY <2>1, <1>13 DEF hasData
  <2>3. t.data[g][m] = db.data[g][m] /\ m \notin t.free[g]
    BY <2>2, <1>5, <1>8, <1>15
  <2> QED BY <2>1, <2>3, <1>8 DEF InUse, hasData, isNameFree
<1> QED BY <1>2, <1>3, <1>8, <1>12, <1>13, <1>14, <1>15 DEF GrantFacts, Live, InUse

LEMMA AcquireFacts ==
  ASSUME NEW db \in Database, Consistent(db), NEW f \in Family, NEW r \in acquire(db, f)
  PROVE  /\ r.db \in Database
         /\ Consistent(r.db)
         /\ r.name \in Name
         /\ r.status = "ok"
         /\ GrantFacts(db, f, r)
<1>1. CASE beforeAcquire(db, f).free[f] # {}
  <2>1. PICK n \in beforeAcquire(db, f).free[f] : r = reuseName(db, f, n)
    BY <1>1 DEF acquire
  <2> QED BY <2>1, ReuseNameFacts
<1>2. CASE beforeAcquire(db, f).free[f] = {}
  <2>1. r = newName(db, f) /\ beforeAcquire(db, f).counter[f] \in Name
    BY <1>2 DEF acquire
  <2> QED BY <1>2, <2>1, NewNameFacts
<1> QED BY <1>1, <1>2

LEMMA TryAcquireFacts ==
  ASSUME NEW db \in Database, Consistent(db), NEW f \in Family, NEW n \in Name
  PROVE  LET r == tryAcquire(db, f, n)
         IN  /\ r.db \in Database
             /\ Consistent(r.db)
             /\ r.name = n
             /\ r.status \in {"ok", "ErrInUse", "ErrNotExist"}
             /\ r.status = "ok" => GrantFacts(db, f, r)
             /\ r.status # "ok" => r.db = db
<1>1. CASE tryAcquireStatus(db, f, n) = "ok"
  <2> DEFINE t == touch(removeFreeName(db, f, n), f, n)
  <2>1. hasData(db, f, n) /\ isNameFree(db, f, n)
    BY <1>1 DEF tryAcquireStatus
  <2>2. tryAcquire(db, f, n) = [db |-> t, name |-> n, status |-> "ok"]
    BY <1>1 DEF tryAcquire
  <2>3. /\ t \in Database
        /\ Consistent(t)
        /\ t.freeBucket = db.freeBucket
        /\ t.data[f][n] = 0
        /\ n \notin t.free[f]
        /\ \A g \in Family, m \in Name : <<g, m>> # <<f, n>> =>
             /\ t.data[g][m] = db.data[g][m]
             /\ m \in t.free[g] <=> m \in db.free[g]
    BY <2>1, TakeConsistent
  <2> HIDE DEF t
  <2>4. db.freeBucket
    BY <2>1 DEF Consistent, BucketBeforeData
  <2>5. InUse(t, f, n) /\ ~Live(db, f, n)
    BY <2>1, <2>3, <2>4 DEF Live, InUse, hasData, isNameFree
  <2>6. ASSUME NEW g \in Family, NEW m \in Name, Live(db, g, m)
        PROVE  InUse(t, g, m) /\ t.data[g][m] = db.data[g][m]
    BY <2>3, <2>4, <2>5, <2>6 DEF Live, InUse, hasData, isNameFree
  <2> QED BY <2>2, <2>3, <2>5, <2>6 DEF GrantFacts
<1>2. CASE tryAcquireStatus(db, f, n) # "ok"
  BY <1>2 DEF tryAcquire, tryAcquireStatus
<1> QED BY <1>1, <1>2

LEMMA KeepAliveFacts ==
  ASSUME NEW db \in Database, NEW f \in Family, NEW n \in Name
  PROVE  LET t == keepAlive(db, f, n)
         IN  /\ \A g \in Family, m \in Name : InUse(db, g, m) =>
                  InUse(t, g, m) /\ t.data[g][m] <= db.data[g][m]
             /\ InUse(db, f, n) => t.data[f][n] = 0
<1>0. \A g \in Family, m \in Name : InUse(db, g, m) => db.data[g][m] \in Nat
  BY DEF InUse, hasData, Database, Age
<1>1. CASE isNameFree(db, f, n) \/ ~hasData(db, f, n)
  BY <1>0, <1>1 DEF keepAlive, InUse
<1>2. CASE ~isNameFree(db, f, n) /\ hasData(db, f, n)
  <2> DEFINE t == touch(db, f, n)
  <2>1. keepAlive(db, f, n) = t
    BY <1>2 DEF keepAlive
  <2>2. /\ t.freeBucket = db.freeBucket
        /\ t.free = db.free
        /\ t.data[f][n] = 0
        /\ \A g \in Family, m \in Name :
             <<g, m>> # <<f, n>> => t.data[g][m] = db.data[g][m]
    BY TouchFacts
  <2> HIDE DEF t
  <2>3. ASSUME NEW g \in Family, NEW m \in Name, InUse(db, g, m)
        PROVE  InUse(t, g, m) /\ t.data[g][m] <= db.data[g][m]
    <3>1. CASE <<g, m>> = <<f, n>>
      BY <3>1, <1>0, <2>2, <2>3 DEF InUse, hasData, isNameFree
    <3>2. CASE <<g, m>> # <<f, n>>
      BY <3>2, <1>0, <2>2, <2>3 DEF InUse, hasData, isNameFree
    <3> QED BY <3>1, <3>2
  <2> QED BY <2>1, <2>2, <2>3
<1> QED BY <1>1, <1>2

LEMMA ReleaseFacts ==
  ASSUME NEW db \in Database, NEW f \in Family, NEW n \in Name,
         NEW g \in Family, NEW m \in Name, <<g, m>> # <<f, n>>, InUse(db, g, m)
  PROVE  LET t == release(db, f, n)
         IN  InUse(t, g, m) /\ t.data[g][m] = db.data[g][m]
<1>1. CASE isNameFree(db, f, n) \/ ~hasData(db, f, n)
  BY <1>1 DEF release
<1>2. CASE ~isNameFree(db, f, n) /\ hasData(db, f, n)
  BY <1>2, AddFreeNameFacts DEF release, InUse, hasData, isNameFree
<1> QED BY <1>1, <1>2

LEMMA ElapseInUse ==
  ASSUME NEW db \in Database, NEW f \in Family, NEW n \in Name, InUse(db, f, n)
  PROVE  LET t == elapse(db)
         IN  InUse(t, f, n) /\ t.data[f][n] = Older(db.data[f][n])
<1>1. db.data[f][n] \in Age
  BY DEF InUse, hasData, Database
<1> QED BY <1>1, ElapseFacts, AgeFacts DEF InUse, hasData, isNameFree

-----------------------------------------------------------------------------
(* What an operation makes of the whole table of names: which are known,   *)
(* which in use and which of these stale.                                  *)

\* In use, but the next sweep of its family takes it.
Stale(db, f, n) ==
  InUse(db, f, n) /\ AutoReleaseAfter > 0 /\ db.data[f][n] > AutoReleaseAfter

LEMMA StaleFacts ==
  ASSUME NEW db \in Database, NEW f \in Family, NEW n \in Name
  PROVE  InUse(db, f, n) => (Live(db, f, n) <=> ~Stale(db, f, n))
BY DEF Stale, Live, InUse, hasData, Database, Age

LEMMA EmptyTable ==
  ASSUME NEW f \in Family, NEW n \in Name
  PROVE  ~hasData(EmptyDatabase, f, n)
BY DEF EmptyDatabase, hasData

\* Time only makes names in use stale.
LEMMA ElapseTable ==
  ASSUME NEW db \in Database, NEW g \in Family, NEW m \in Name
  PROVE  LET t == elapse(db)
         IN  /\ hasData(t, g, m) <=> hasData(db, g, m)
             /\ InUse(t, g, m) <=> InUse(db, g, m)
             /\ Stale(db, g, m) => Stale(t, g, m)
             /\ t.counter = db.counter
<1> DEFINE t == elapse(db)
<1>1. /\ t.freeBucket = db.freeBucket
      /\ t.free = db.free
      /\ t.counter = db.counter
      /\ t.data[g][m] = IF hasData(db, g, m) THEN Older(db.data[g][m]) ELSE None
  BY ElapseFacts
<1>2. hasData(db, g, m) => db.data[g][m] \in Age
  BY DEF Database, hasData
<1> HIDE DEF t
<1>3. hasData(t, g, m) <=> hasData(db, g, m)
  BY <1>1, <1>2, AgeFacts DEF hasData
<1>4. InUse(t, g, m) <=> InUse(db, g, m)
  BY <1>1, <1>3 DEF InUse, isNameFree
<1>5. Stale(db, g, m) => Stale(t, g, m)
  BY <1>1, <1>2, <1>4, AgeFacts DEF Stale, InUse, Older
<1> QED BY <1>1, <1>3, <1>4, <1>5 DEF t

\* A sign of life makes its name fresh if it is in use, and does nothing else.
LEMMA KeepAliveTable ==
  ASSUME NEW db \in Database, NEW f \in Family, NEW n \in Name,
         NEW g \in Family, NEW m \in Name
  PROVE  LET t == keepAlive(db, f, n)
         IN  /\ hasData(t, g, m) <=> hasData(db, g, m)
             /\ InUse(t, g, m) <=> InUse(db, g, m)
             /\ Stale(t, g, m) <=> (Stale(db, g, m) /\ <<g, m>> # <<f, n>>)
             /\ t.counter = db.counter
<1>1. CASE isNameFree(db, f, n) \/ ~hasData(db, f, n)
  BY <1>1 DEF keepAlive, Stale, InUse
<1>2. CASE ~isNameFree(db, f, n) /\ hasData(db, f, n)
  <2> DEFINE t == touch(db, f, n)
  <2>1. keepAlive(db, f, n) = t
    BY <1>2 DEF keepAlive
  <2>2. /\ t.freeBucket = db.freeBucket
        /\ t.free = db.free
        /\ t.counter = db.counter
        /\ t.data[f][n] = 0
        /\ <<g, m>> # <<f, n>> => t.data[g][m] = db.data[g][m]
    BY TouchFacts
  <2> HIDE DEF t
  <2> QED BY <1>2, <2>1, <2>2 DEF Stale, InUse, hasData, isNameFree
<1> QED BY <1>1, <1>2

\* A release frees its name if it is in use, and does nothing else.
LEMMA ReleaseTable ==
  ASSUME NEW db \in Database, NEW f \in Family, NEW n \in Name,
         NEW g \in Family, NEW m \in Name
  PROVE  LET t == release(db, f, n)
         IN  /\ hasData(t, g, m) <=> hasData(db, g, m)
             /\ InUse(t, g, m) <=> (InUse(db, g, m) /\ <<g, m>> # <<f, n>>)
             /\ Stale(t, g, m) <=> (Stale(db, g, m) /\ <<g, m>> # <<f, n>>)
             /\ t.counter = db.counter
<1>1. CASE isNameFree(db, f, n) \/ ~hasData(db, f, n)
  BY <1>1 DEF release, Stale, InUse
<1>2. CASE ~isNameFree(db, f, n) /\ hasData(db, f, n)
  <2> DEFINE t == addFreeName(db, f, n)
  <2>1. release(db, f, n) = t
    BY <1>2 DEF release
  <2>2. /\ t.freeBucket
        /\ t.data = db.data
        /\ t.counter = db.counter
        /\ m \in t.free[g] <=> (m \in db.free[g] \/ (g = f /\ m = n))
    BY AddFreeNameFacts
  <2>3. db.freeBucket
    BY <1>2 DEF isNameFree
  <2> HIDE DEF t
  <2> QED BY <1>2, <2>1, <2>2, <2>3 DEF Stale, InUse, hasData, isNameFree
<1> QED BY <1>1, <1>2

\* An acquisition by Acquire frees the stale names of its family, grants a name
\* that was not in use or is one of these, and makes a new name, which is when
\* it moves the counter, only if every name the family has is live.
AcquireTable(db, f, r) ==
  /\ \A g \in Family, m \in Name :
       /\ hasData(r.db, g, m) <=> (hasData(db, g, m) \/ <<g, m>> = <<f, r.name>>)
       /\ InUse(r.db, g, m) <=>
            \/ InUse(db, g, m) /\ ~(g = f /\ Stale(db, g, m))
            \/ <<g, m>> = <<f, r.name>>
       /\ Stale(r.db, g, m) <=> (Stale(db, g, m) /\ g # f)
  /\ InUse(db, f, r.name) => Stale(db, f, r.name)
  /\ ~hasData(db, f, r.name) => \A m \in Name : hasData(db, f, m) => Live(db, f, m)
  /\ \A g \in Family : r.db.counter[g] # db.counter[g] =>
       g = f /\ \A m \in Name : hasData(db, f, m) => Live(db, f, m)

\* The database after the sweep.
LEMMA SweepTable ==
  ASSUME NEW db \in Database, Consistent(db), NEW f \in Family,
         NEW g \in Family, NEW m \in Name
  PROVE  LET t == beforeAcquire(db, f)
         IN  /\ t.data = db.data
             /\ t.counter = db.counter
             /\ hasData(db, g, m) =>
                  (m \notin t.free[g] <=>
                     InUse(db, g, m) /\ ~(g = f /\ Stale(db, g, m)))
<1> DEFINE t == beforeAcquire(db, f)
<1>1. /\ t.data = db.data
      /\ t.counter = db.counter
      /\ m \in t.free[g] <=>
           \/ m \in db.free[g]
           \/ AutoReleaseAfter > 0 /\ db.freeBucket /\ g = f /\ m \in zombies(db, f)
  BY BeforeAcquireFacts
<1>2. hasData(db, g, m) => db.freeBucket
  BY DEF Consistent, BucketBeforeData
<1> HIDE DEF t
<1>3. hasData(db, g, m) =>
        (m \notin t.free[g] <=> InUse(db, g, m) /\ ~(g = f /\ Stale(db, g, m)))
  BY <1>1, <1>2 DEF Stale, InUse, isNameFree, zombies
<1> QED BY <1>1, <1>3 DEF t

LEMMA ReuseNameTable ==
  ASSUME NEW db \in Database, Consistent(db), NEW f \in Family,
         NEW n \in beforeAcquire(db, f).free[f]
  PROVE  AcquireTable(db, f, reuseName(db, f, n))
<1> DEFINE swept == beforeAcquire(db, f)
           t == touch(removeFreeName(swept, f, n), f, n)
<1>1. swept \in Database /\ Consistent(swept)
  BY BeforeAcquireType, BeforeAcquireConsistent
<1>2. n \in Name /\ hasData(swept, f, n)
  BY <1>1 DEF Consistent, FreeNamesHaveData, Database
<1>3. reuseName(db, f, n) = [db |-> t, name |-> n, status |-> "ok"]
  BY <1>2 DEF reuseName
<1>4. /\ t.freeBucket = swept.freeBucket
      /\ t.counter = swept.counter
      /\ t.data[f][n] = 0
      /\ n \notin t.free[f]
      /\ \A g \in Family, m \in Name : <<g, m>> # <<f, n>> =>
           /\ t.data[g][m] = swept.data[g][m]
           /\ m \in t.free[g] <=> m \in swept.free[g]
  <2> HIDE DEF swept
  <2> QED BY <1>1, <1>2, TakeConsistent
<1>5. /\ swept.data = db.data
      /\ swept.counter = db.counter
      /\ \A g \in Family, m \in Name : hasData(db, g, m) =>
           (m \notin swept.free[g] <=> InUse(db, g, m) /\ ~(g = f /\ Stale(db, g, m)))
  BY <1>2, SweepTable
<1>6. swept.freeBucket
  BY BeforeAcquireFacts
<1>7. n \in swept.free[f]
  OBVIOUS
<1> HIDE DEF swept, t
<1>8. hasData(db, f, n) /\ (InUse(db, f, n) => Stale(db, f, n))
  BY <1>2, <1>5, <1>7 DEF hasData
<1>9. ASSUME NEW g \in Family, NEW m \in Name
      PROVE  /\ hasData(t, g, m) <=> (hasData(db, g, m) \/ <<g, m>> = <<f, n>>)
             /\ InUse(t, g, m) <=>
                  \/ InUse(db, g, m) /\ ~(g = f /\ Stale(db, g, m))
                  \/ <<g, m>> = <<f, n>>
             /\ Stale(t, g, m) <=> (Stale(db, g, m) /\ g # f)
  <2>1. CASE <<g, m>> = <<f, n>>
    BY <2>1, <1>4, <1>6 DEF Stale, InUse, hasData, isNameFree
  <2>2. CASE <<g, m>> # <<f, n>>
    <3>1. t.data[g][m] = db.data[g][m] /\ (m \in t.free[g] <=> m \in swept.free[g])
      BY <2>2, <1>4, <1>5
    <3>2. hasData(t, g, m) <=> hasData(db, g, m)
      BY <3>1 DEF hasData
    <3>3. InUse(t, g, m) <=> (InUse(db, g, m) /\ ~(g = f /\ Stale(db, g, m)))
      BY <3>1, <3>2, <1>4, <1>5, <1>6 DEF InUse, isNameFree
    <3>4. Stale(t, g, m) <=> (Stale(db, g, m) /\ g # f)
      BY <3>1, <3>3 DEF Stale
    <3> QED BY <2>2, <3>2, <3>3, <3>4
  <2> QED BY <2>1, <2>2
<1> QED BY <1>3, <1>4, <1>5, <1>8, <1>9 DEF AcquireTable

LEMMA NewNameTable ==
  ASSUME NEW db \in Database, Consistent(db), NEW f \in Family,
         beforeAcquire(db, f).counter[f] \in Name,
         beforeAcquire(db, f).free[f] = {}
  PROVE  AcquireTable(db, f, newName(db, f))
<1> DEFINE swept == beforeAcquire(db, f)
           n == swept.counter[f]
           s == [swept EXCEPT !.counter[f] = n + 1]
           t == touch(s, f, n)
<1>1. swept \in Database /\ Consistent(swept)
  BY BeforeAcquireType, BeforeAcquireConsistent
<1>2. newName(db, f) = [db |-> t, name |-> n, status |-> "ok"]
  BY DEF newName
<1>3. n \in Name /\ swept.free[f] = {} /\ swept.freeBucket
  BY BeforeAcquireFacts
<1>4. /\ swept.data = db.data
      /\ swept.counter = db.counter
      /\ \A g \in Family, m \in Name : hasData(db, g, m) =>
           (m \notin swept.free[g] <=> InUse(db, g, m) /\ ~(g = f /\ Stale(db, g, m)))
  BY <1>3, SweepTable
<1>5. ~hasData(swept, f, n)
  BY <1>1, <1>3 DEF Consistent, CounterIsNext, Name
<1> HIDE DEF swept
<1>6. n + 1 \in 0 .. MaxNames
  BY <1>3 DEF Name
<1> HIDE DEF n
<1>7. /\ s \in Database
      /\ s.freeBucket /\ s.data = swept.data /\ s.free = swept.free
      /\ \A g \in Family : g # f => s.counter[g] = swept.counter[g]
  BY <1>1, <1>3, <1>6 DEF Database
<1> HIDE DEF s
<1>8. /\ t.freeBucket /\ t.free = swept.free
      /\ \A g \in Family : g # f => t.counter[g] = db.counter[g]
      /\ t.data[f][n] = 0
      /\ \A g \in Family, m \in Name : <<g, m>> # <<f, n>> => t.data[g][m] = db.data[g][m]
  BY <1>3, <1>4, <1>7, TouchFacts
<1> HIDE DEF t
<1>9. ~hasData(db, f, n) /\ ~InUse(db, f, n) /\ ~Stale(db, f, n)
  BY <1>4, <1>5 DEF hasData, InUse, Stale
<1>10. n \notin swept.free[f]
  BY <1>3
<1>11. \A g \in Family, m \in Name : m \in swept.free[g] => hasData(db, g, m)
  BY <1>1, <1>4 DEF Consistent, FreeNamesHaveData, hasData
<1>12. ASSUME NEW m \in Name, hasData(db, f, m)
       PROVE  Live(db, f, m)
  <2>1. InUse(db, f, m) /\ ~Stale(db, f, m)
    BY <1>3, <1>4, <1>12
  <2> QED BY <2>1, StaleFacts
<1>13. ASSUME NEW g \in Family, NEW m \in Name
       PROVE  /\ hasData(t, g, m) <=> (hasData(db, g, m) \/ <<g, m>> = <<f, n>>)
              /\ InUse(t, g, m) <=>
                   \/ InUse(db, g, m) /\ ~(g = f /\ Stale(db, g, m))
                   \/ <<g, m>> = <<f, n>>
              /\ Stale(t, g, m) <=> (Stale(db, g, m) /\ g # f)
  <2>1. CASE <<g, m>> = <<f, n>>
    BY <2>1, <1>3, <1>8 DEF Stale, InUse, hasData, isNameFree
  <2>2. CASE <<g, m>> # <<f, n>>
    <3>1. t.data[g][m] = db.data[g][m]
      BY <2>2, <1>8
    <3>2. hasData(t, g, m) <=> hasData(db, g, m)
      BY <3>1 DEF hasData
    <3>3. InUse(t, g, m) <=> (InUse(db, g, m) /\ ~(g = f /\ Stale(db, g, m)))
      BY <3>2, <1>4, <1>8 DEF InUse, isNameFree
    <3>4. Stale(t, g, m) <=> (Stale(db, g, m) /\ g # f)
      BY <3>1, <3>3 DEF Stale
    <3> QED BY <2>2, <3>2, <3>3, <3>4
  <2> QED BY <2>1, <2>2
<1> QED BY <1>2, <1>8, <1>9, <1>12, <1>13 DEF AcquireTable

LEMMA AcquireTableFacts ==
  ASSUME NEW db \in Database, Consistent(db), NEW f \in Family, NEW r \in acquire(db, f)
  PROVE  AcquireTable(db, f, r)
<1>1. CASE beforeAcquire(db, f).free[f] # {}
  <2>1. PICK n \in beforeAcquire(db, f).free[f] : r = reuseName(db, f, n)
    BY <1>1 DEF acquire
  <2> QED BY <2>1, ReuseNameTable
<1>2. CASE beforeAcquire(db, f).free[f] = {}
  <2>1. r = newName(db, f) /\ beforeAcquire(db, f).counter[f] \in Name
    BY <1>2 DEF acquire
  <2> QED BY <1>2, <2>1, NewNameTable
<1> QED BY <1>1, <1>2

\* TryAcquire grants a known name that is not in use, and does nothing else.
LEMMA TryAcquireTable ==
  ASSUME NEW db \in Database, Consistent(db), NEW f \in Family, NEW n \in Name,
         tryAcquire(db, f, n).status = "ok"
  PROVE  LET t == tryAcquire(db, f, n).db
         IN  /\ hasData(db, f, n) /\ ~InUse(db, f, n)
             /\ t.counter = db.counter
             /\ \A g \in Family, m \in Name :
                  /\ hasData(t, g, m) <=> hasData(db, g, m)
                  /\ InUse(t, g, m) <=> (InUse(db, g, m) \/ <<g, m>> = <<f, n>>)
                  /\ Stale(t, g, m) <=> Stale(db, g, m)
<1> DEFINE t == touch(removeFreeName(db, f, n), f, n)
<1>1. hasData(db, f, n) /\ isNameFree(db, f, n)
  BY DEF tryAcquire, tryAcquireStatus
<1>2. tryAcquire(db, f, n) = [db |-> t, name |-> n, status |-> "ok"]
  BY <1>1 DEF tryAcquire, tryAcquireStatus
<1>3. /\ t.freeBucket = db.freeBucket
      /\ t.counter = db.counter
      /\ t.data[f][n] = 0
      /\ n \notin t.free[f]
      /\ \A g \in Family, m \in Name : <<g, m>> # <<f, n>> =>
           /\ t.data[g][m] = db.data[g][m]
           /\ m \in t.free[g] <=> m \in db.free[g]
  BY <1>1, TakeConsistent
<1>4. db.freeBucket
  BY <1>1 DEF Consistent, BucketBeforeData
<1> HIDE DEF t
<1>5. ASSUME NEW g \in Family, NEW m \in Name
      PROVE  /\ hasData(t, g, m) <=> hasData(db, g, m)
             /\ InUse(t, g, m) <=> (InUse(db, g, m) \/ <<g, m>> = <<f, n>>)
             /\ Stale(t, g, m) <=> Stale(db, g, m)
  <2>1. CASE <<g, m>> = <<f, n>>
    BY <2>1, <1>1, <1>3, <1>4 DEF Stale, InUse, hasData, isNameFree
  <2>2. CASE <<g, m>> # <<f, n>>
    BY <2>2, <1>3, <1>4 DEF Stale, InUse, hasData, isNameFree
  <2> QED BY <2>1, <2>2
<1> QED BY <1>1, <1>2, <1>3, <1>5 DEF InUse
=============================================================================
