------------------------ MODULE LocalBackendProofs -------------------------
(***************************************************************************)
(* LocalBackend keeps its files consistent, isolates its transactions and  *)
(* leases each name to one client at a time, for every number of clients,  *)
(* families and names, every auto-release period and any mixture of calls, *)
(* crashes and resets.                                                     *)
(***************************************************************************)
EXTENDS LocalBackend, LocalStoreProofs

USE MaxFilesAssumption, StraysAssumption, NoneIsNoRecord

\* A transaction is open exactly while its call is "locked"; only an acquire
\* that is not committed has no name yet.
CallShape ==
  \A c \in Client :
    /\ working[c] # None <=> (call[c] # None /\ call[c].pc = "locked")
    /\ call[c] # None =>
         call[c].name \in Name \/ (call[c].kind = "acquire" /\ call[c].pc # "committed")

\* At most one call has the lock of a file.
OneLock ==
  \A c, d \in Client : c # d /\ HasLock(c) /\ HasLock(d) => call[c].file # call[d].file

StoreInv == TypeOK /\ CallShape /\ OneLock /\ Isolated /\ StoreConsistent

LEMMA StoreInvInit == Init => StoreInv
<1> SUFFICES ASSUME Init PROVE StoreInv
  OBVIOUS
<1>1. TypeOK
  <2>1. path \in File \cup {None} /\ misreleased \in BOOLEAN
    BY Zenon DEF Init
  <2>4. created \in 0 .. MaxFiles
    BY DEF Init
  <2>2. disk \in [File -> Database]
    BY EmptyDatabaseType DEF Init
  <2>3. /\ call \in [Client -> Call \cup {None}]
        /\ working \in [Client -> Database \cup {None}]
        /\ hold \in [Client -> Hold \cup {None}]
    BY DEF Init
  <2> QED BY <2>1, <2>2, <2>3, <2>4 DEF TypeOK
<1>2. CallShape /\ OneLock /\ Isolated
  BY DEF Init, CallShape, OneLock, Isolated, HasLock
<1>3. StoreConsistent
  BY EmptyDatabaseType DEF Init, StoreConsistent
<1> QED BY <1>1, <1>2, <1>3 DEF StoreInv

\* A transaction that leaves a consistent database commits safely, whatever
\* the history variables become.
LEMMA CommitStep ==
  ASSUME StoreInv, NEW c \in Client, call[c] # None, call[c].pc = "locked",
         NEW db \in Database, Consistent(db), NEW name \in Name,
         NEW status \in {"ok", "ErrInUse", "ErrNotExist"},
         Commit(c, db, name, status),
         hold' \in [Client -> Hold \cup {None}], misreleased' \in BOOLEAN
  PROVE  StoreInv'
<1>1. call[c] \in Call /\ call[c].file \in File
  BY DEF StoreInv, TypeOK, Call
<1>2. /\ call'[c] = [call[c] EXCEPT !.pc = "committed", !.name = name, !.status = status]
      /\ call'[c] \in Call
      /\ call'[c] # None
      /\ call'[c].pc = "committed" /\ call'[c].name = name /\ call'[c].file = call[c].file
      /\ \A d \in Client : d # c => call'[d] = call[d]
  BY <1>1, ZenonT(40) DEF Commit, StoreInv, TypeOK, Call, Name
<1>3. /\ working'[c] = None
      /\ \A d \in Client : d # c => working'[d] = working[d]
  BY DEF Commit, StoreInv, TypeOK
<1>4. /\ disk'[call[c].file] = db
      /\ \A i \in File : i # call[c].file => disk'[i] = disk[i]
  BY <1>1 DEF Commit, StoreInv, TypeOK
<1>5. TypeOK'
  <2>1. call' \in [Client -> Call \cup {None}]
    <3>1. call' = [call EXCEPT ![c] = call'[c]]
      BY <1>2 DEF Commit, StoreInv, TypeOK
    <3> QED BY <3>1, <1>2 DEF StoreInv, TypeOK
  <2>2. disk' \in [File -> Database] /\ working' \in [Client -> Database \cup {None}]
    BY <1>1 DEF Commit, StoreInv, TypeOK
  <2>3. path' = path /\ created' = created
    BY DEF Commit
  <2> QED BY <2>1, <2>2, <2>3 DEF StoreInv, TypeOK
<1>6. CallShape'
  <2> SUFFICES ASSUME NEW d \in Client
               PROVE  /\ working'[d] # None <=> (call'[d] # None /\ call'[d].pc = "locked")
                      /\ call'[d] # None =>
                           \/ call'[d].name \in Name
                           \/ call'[d].kind = "acquire" /\ call'[d].pc # "committed"
    BY DEF CallShape
  <2>1. CASE d = c
    BY <2>1, <1>2, <1>3
  <2>2. CASE d # c
    BY <2>2, <1>2, <1>3 DEF CallShape, StoreInv
  <2> QED BY <2>1, <2>2
<1>7. \A d \in Client : (HasLock(d)' <=> HasLock(d)) /\ (HasLock(d) => call'[d].file = call[d].file)
  BY <1>2 DEF HasLock
<1>8. OneLock'
  BY <1>7 DEF OneLock, StoreInv
<1>9. Isolated'
  <2> SUFFICES ASSUME NEW d \in Client, working'[d] # None
               PROVE  working'[d] = disk'[call'[d].file]
    BY DEF Isolated
  <2>1. d # c /\ working[d] # None /\ HasLock(d) /\ HasLock(c)
    BY <1>3 DEF StoreInv, CallShape, HasLock
  <2>2. call[d].file # call[c].file /\ call[d].file \in File
    BY <2>1 DEF StoreInv, OneLock, TypeOK, Call, HasLock
  <2> QED BY <2>1, <2>2, <1>2, <1>3, <1>4 DEF StoreInv, Isolated
<1>10. StoreConsistent'
  BY <1>1, <1>4 DEF StoreInv, StoreConsistent
<1> QED BY <1>5, <1>6, <1>8, <1>9, <1>10 DEF StoreInv

\* Opening a file, existing or new, concerns only the path.
LEMMA OpenFileFacts ==
  ASSUME TypeOK, NEW i \in File, OpenFile(i)
  PROVE  path' \in File \cup {None} /\ created' \in 0 .. MaxFiles
BY DEF OpenFile, TypeOK, File

\* Steps that leave calls, transactions and files alone.
LEMMA FrameStep ==
  ASSUME StoreInv, UNCHANGED <<disk, call, working>>,
         path' \in File \cup {None}, created' \in 0 .. MaxFiles,
         hold' \in [Client -> Hold \cup {None}], misreleased' \in BOOLEAN
  PROVE  StoreInv'
<1>1. TypeOK'
  BY DEF StoreInv, TypeOK
<1>2. CallShape' /\ OneLock' /\ Isolated' /\ StoreConsistent'
  BY DEF StoreInv, CallShape, OneLock, Isolated, StoreConsistent, HasLock
<1> QED BY <1>1, <1>2 DEF StoreInv

LEMMA BeginStep ==
  ASSUME StoreInv, NEW c \in Client, NEW f \in Family, NEW n \in Name \cup {None},
         NEW kind \in {"acquire", "tryAcquire", "keepAlive", "release"},
         Begin(c, kind, f, n)
  PROVE  StoreInv'
<1>1. PICK i \in File :
        /\ OpenFile(i)
        /\ call' = [call EXCEPT ![c] = [kind |-> kind, fam |-> f, name |-> n, file |-> i,
                                        pc |-> "opened", status |-> "pending"]]
  BY DEF Begin
<1>2. UNCHANGED <<disk, working, hold, misreleased>> /\ call[c] = None
  BY DEF Begin
<1>3. n \in Name \/ kind = "acquire"
  <2>1. Holds(c, f, n) => n \in Name
    BY DEF Holds, StoreInv, TypeOK, Hold
  <2> QED BY <2>1 DEF Begin, MayCall
<1>4. /\ call'[c] \in Call /\ call'[c] # None
      /\ call'[c].pc = "opened" /\ call'[c].name = n /\ call'[c].kind = kind
      /\ \A d \in Client : d # c => call'[d] = call[d]
  BY <1>1 DEF StoreInv, TypeOK, Call
<1>5. TypeOK'
  <2>1. call' \in [Client -> Call \cup {None}]
    <3>1. call' = [call EXCEPT ![c] = call'[c]]
      BY <1>1 DEF StoreInv, TypeOK
    <3> QED BY <3>1, <1>4 DEF StoreInv, TypeOK
  <2>2. path' \in File \cup {None} /\ created' \in 0 .. MaxFiles
    BY <1>1, OpenFileFacts DEF StoreInv
  <2> QED BY <2>1, <2>2, <1>2 DEF StoreInv, TypeOK
<1>6. CallShape'
  BY <1>2, <1>3, <1>4 DEF CallShape, StoreInv
<1>7. \A d \in Client : (HasLock(d)' <=> HasLock(d)) /\ (HasLock(d) => call'[d] = call[d])
  BY <1>2, <1>4 DEF HasLock
<1>8. OneLock'
  BY <1>7 DEF OneLock, StoreInv
<1>9. Isolated'
  BY <1>2, <1>4 DEF Isolated, StoreInv, CallShape
<1>10. StoreConsistent'
  BY <1>2 DEF StoreConsistent, StoreInv
<1> QED BY <1>5, <1>6, <1>8, <1>9, <1>10 DEF StoreInv

LEMMA LockStep ==
  ASSUME StoreInv, NEW c \in Client, Lock(c)
  PROVE  StoreInv'
<1>1. call[c] \in Call /\ call[c].file \in File /\ call[c] # None
  BY DEF Lock, StoreInv, TypeOK, Call
<1>2. /\ call'[c] = [call[c] EXCEPT !.pc = "locked"]
      /\ call'[c] \in Call /\ call'[c] # None
      /\ call'[c].pc = "locked" /\ call'[c].file = call[c].file
      /\ call'[c].name = call[c].name /\ call'[c].kind = call[c].kind
      /\ \A d \in Client : d # c => call'[d] = call[d]
  BY <1>1 DEF Lock, StoreInv, TypeOK, Call
<1>3. /\ working'[c] = disk[call[c].file] /\ working'[c] \in Database
      /\ \A d \in Client : d # c => working'[d] = working[d]
  BY <1>1 DEF Lock, StoreInv, TypeOK
<1>4. UNCHANGED <<path, created, disk, hold, misreleased>>
  BY DEF Lock
<1>5. TypeOK'
  <2>1. call' \in [Client -> Call \cup {None}]
    <3>1. call' = [call EXCEPT ![c] = call'[c]]
      BY <1>2 DEF Lock, StoreInv, TypeOK
    <3> QED BY <3>1, <1>2 DEF StoreInv, TypeOK
  <2>2. working' \in [Client -> Database \cup {None}]
    BY <1>1 DEF Lock, StoreInv, TypeOK
  <2> QED BY <2>1, <2>2, <1>4 DEF StoreInv, TypeOK
<1>6. CallShape'
  <2>1. call[c].name \in Name \/ call[c].kind = "acquire"
    BY <1>1 DEF StoreInv, CallShape
  <2>2. working'[c] # None
    BY <1>3
  <2> SUFFICES ASSUME NEW d \in Client
               PROVE  /\ working'[d] # None <=> (call'[d] # None /\ call'[d].pc = "locked")
                      /\ call'[d] # None =>
                           \/ call'[d].name \in Name
                           \/ call'[d].kind = "acquire" /\ call'[d].pc # "committed"
    BY DEF CallShape
  <2>3. CASE d = c
    BY <2>1, <2>2, <2>3, <1>2
  <2>4. CASE d # c
    BY <2>4, <1>2, <1>3 DEF CallShape, StoreInv
  <2> QED BY <2>3, <2>4
<1>7. \A d \in Client : d # c => (HasLock(d)' <=> HasLock(d)) /\ call'[d] = call[d]
  BY <1>2 DEF HasLock
<1>8. \A d \in Client : d # c /\ HasLock(d) => call[d].file # call[c].file
  BY DEF Lock, LockFree
<1>9. OneLock'
  <2> SUFFICES ASSUME NEW d \in Client, NEW e \in Client, d # e, HasLock(d)', HasLock(e)'
               PROVE  call'[d].file # call'[e].file
    BY DEF OneLock
  <2>1. CASE d = c
    BY <2>1, <1>2, <1>7, <1>8
  <2>2. CASE e = c
    BY <2>2, <1>2, <1>7, <1>8
  <2>3. CASE d # c /\ e # c
    BY <2>3, <1>7 DEF OneLock, StoreInv
  <2> QED BY <2>1, <2>2, <2>3
<1>10. Isolated'
  BY <1>2, <1>3, <1>4 DEF Isolated, StoreInv
<1>11. StoreConsistent'
  BY <1>4 DEF StoreConsistent, StoreInv
<1> QED BY <1>5, <1>6, <1>9, <1>10, <1>11 DEF StoreInv

\* Ending a call, by returning or by dying, drops its lock and its transaction.
LEMMA EndCallStep ==
  ASSUME StoreInv, NEW c \in Client,
         call' = [call EXCEPT ![c] = None], working' = [working EXCEPT ![c] = None],
         UNCHANGED <<path, created, disk, misreleased>>,
         hold' \in [Client -> Hold \cup {None}]
  PROVE  StoreInv'
<1>1. TypeOK'
  BY DEF StoreInv, TypeOK
<1>2. /\ call'[c] = None /\ working'[c] = None
      /\ \A d \in Client : d # c => call'[d] = call[d] /\ working'[d] = working[d]
  BY DEF StoreInv, TypeOK
<1>3. CallShape'
  BY <1>2 DEF CallShape, StoreInv
<1>4. \A d \in Client : HasLock(d)' => HasLock(d) /\ call'[d] = call[d]
  BY <1>2 DEF HasLock
<1>5. OneLock'
  BY <1>4 DEF OneLock, StoreInv
<1>6. Isolated'
  BY <1>2 DEF Isolated, StoreInv
<1>7. StoreConsistent'
  BY DEF StoreConsistent, StoreInv
<1> QED BY <1>1, <1>3, <1>5, <1>6, <1>7 DEF StoreInv

LEMMA TickStep ==
  ASSUME StoreInv, Tick
  PROVE  StoreInv'
<1>1. \A i \in File : disk'[i] = elapse(disk[i])
  BY DEF Tick
<1>2. \A c \in Client : working'[c] = IF working[c] = None THEN None ELSE elapse(working[c])
  BY DEF Tick
<1>3. UNCHANGED <<path, created, call, misreleased>>
  BY DEF Tick
<1>4. \A db \in Database : elapse(db) \in Database
  BY ElapseType
<1>5. TypeOK'
  <2>1. disk' \in [File -> Database]
    BY <1>4 DEF Tick, StoreInv, TypeOK
  <2>2. working' \in [Client -> Database \cup {None}]
    BY <1>4 DEF Tick, StoreInv, TypeOK
  <2>3. hold' \in [Client -> Hold \cup {None}]
    <3>1. ASSUME NEW c \in Client, hold[c] # None
          PROVE  [hold[c] EXCEPT !.age = Older(@)] \in Hold
      BY <3>1, AgeFacts DEF StoreInv, TypeOK, Hold
    <3> QED BY <3>1 DEF Tick
  <2> QED BY <2>1, <2>2, <2>3, <1>3 DEF StoreInv, TypeOK
<1>6. CallShape'
  <2>1. \A c \in Client : working'[c] = None <=> working[c] = None
    BY <1>2, <1>4 DEF StoreInv, TypeOK
  <2> QED BY <2>1, <1>3 DEF StoreInv, CallShape
<1>7. OneLock'
  BY <1>3 DEF StoreInv, OneLock, HasLock
<1>8. Isolated'
  <2> SUFFICES ASSUME NEW c \in Client, working'[c] # None
               PROVE  working'[c] = disk'[call'[c].file]
    BY DEF Isolated
  <2>1. working[c] # None /\ call[c] # None
    BY <1>2 DEF StoreInv, CallShape
  <2>2. call[c].file \in File
    BY <2>1 DEF StoreInv, TypeOK, Call
  <2> QED BY <2>1, <2>2, <1>1, <1>2, <1>3 DEF StoreInv, Isolated
<1>9. StoreConsistent'
  BY <1>1, ElapseConsistent DEF StoreInv, StoreConsistent, TypeOK
<1> QED BY <1>5, <1>6, <1>7, <1>8, <1>9 DEF StoreInv

\* What is granted is a hold.
LEMMA GrantedType ==
  ASSUME StoreInv, NEW c \in Client, call[c] # None, NEW n \in Name, NEW status,
         Granted(c, n, status)
  PROVE  hold' \in [Client -> Hold \cup {None}] /\ misreleased' = misreleased
<1>1. [fam |-> call[c].fam, name |-> n, file |-> call[c].file, age |-> 0] \in Hold
  BY AgeFacts DEF StoreInv, TypeOK, Call, Hold
<1> QED BY <1>1 DEF Granted, StoreInv, TypeOK

\* The database a transaction works on is the one of its file.
LEMMA TransactionFacts ==
  ASSUME StoreInv, NEW c \in Client, call[c] # None, call[c].pc = "locked"
  PROVE  /\ working[c] = disk[call[c].file]
         /\ working[c] \in Database
         /\ Consistent(working[c])
         /\ call[c].fam \in Family
         /\ call[c].file \in File
         /\ call[c].kind # "acquire" => call[c].name \in Name
<1>1. call[c].fam \in Family /\ call[c].file \in File
  BY DEF StoreInv, TypeOK, Call
<1>2. working[c] # None /\ (call[c].name \in Name \/ call[c].kind = "acquire")
  BY DEF StoreInv, CallShape
<1>3. working[c] = disk[call[c].file]
  BY <1>2 DEF StoreInv, Isolated
<1> QED BY <1>1, <1>2, <1>3 DEF StoreInv, TypeOK, StoreConsistent

LEMMA AcquireStep ==
  ASSUME StoreInv, NEW c \in Client, Acquire(c)
  PROVE  StoreInv'
<1>1. call[c] # None /\ call[c].pc = "locked"
  BY DEF Acquire, InTransaction
<1>2. PICK r \in acquire(working[c], call[c].fam) :
        Commit(c, r.db, r.name, r.status) /\ Granted(c, r.name, r.status)
  BY DEF Acquire
<1>3. r.db \in Database /\ Consistent(r.db) /\ r.name \in Name /\ r.status = "ok"
  BY <1>1, TransactionFacts, AcquireFacts
<1>4. hold' \in [Client -> Hold \cup {None}] /\ misreleased' \in BOOLEAN
  BY <1>1, <1>2, <1>3, GrantedType DEF StoreInv, TypeOK
<1> QED BY <1>1, <1>2, <1>3, <1>4, CommitStep

LEMMA TryAcquireStep ==
  ASSUME StoreInv, NEW c \in Client, TryAcquire(c)
  PROVE  StoreInv'
<1> DEFINE r == tryAcquire(working[c], call[c].fam, call[c].name)
<1>1. call[c] # None /\ call[c].pc = "locked" /\ call[c].kind # "acquire"
  BY DEF TryAcquire, InTransaction
<1>2. Commit(c, r.db, r.name, r.status) /\ Granted(c, r.name, r.status)
  BY DEF TryAcquire
<1>3. call[c].name \in Name
  BY <1>1, TransactionFacts
<1>4. /\ r.db \in Database /\ Consistent(r.db)
      /\ r.name = call[c].name
      /\ r.status \in {"ok", "ErrInUse", "ErrNotExist"}
  BY <1>1, <1>3, TransactionFacts, TryAcquireFacts
<1> HIDE DEF r
<1>5. hold' \in [Client -> Hold \cup {None}] /\ misreleased' \in BOOLEAN
  BY <1>1, <1>2, <1>3, <1>4, GrantedType DEF StoreInv, TypeOK
<1> QED BY <1>1, <1>2, <1>3, <1>4, <1>5, CommitStep

LEMMA KeepAliveStep ==
  ASSUME StoreInv, NEW c \in Client, KeepAlive(c)
  PROVE  StoreInv'
<1> DEFINE db == keepAlive(working[c], call[c].fam, call[c].name)
<1>1. call[c] # None /\ call[c].pc = "locked" /\ call[c].kind # "acquire"
  BY DEF KeepAlive, InTransaction
<1>2. call[c].name \in Name
  BY <1>1, TransactionFacts
<1>3. db \in Database /\ Consistent(db)
  BY <1>1, <1>2, TransactionFacts, KeepAliveType, KeepAliveConsistent
<1>4. Commit(c, db, call[c].name, "ok")
  BY DEF KeepAlive
<1> HIDE DEF db
<1>5. hold' \in [Client -> Hold \cup {None}]
  <2>1. hold[c] # None => [hold[c] EXCEPT !.age = 0] \in Hold
    BY AgeFacts DEF StoreInv, TypeOK, Hold
  <2>2. InTime(c) => hold[c] # None
    BY DEF InTime
  <2> QED BY <2>1, <2>2 DEF KeepAlive, StoreInv, TypeOK
<1>6. misreleased' \in BOOLEAN
  BY DEF KeepAlive, StoreInv, TypeOK
<1> QED BY <1>1, <1>2, <1>3, <1>4, <1>5, <1>6, CommitStep

LEMMA ReleaseStep ==
  ASSUME StoreInv, NEW c \in Client, Release(c)
  PROVE  StoreInv'
<1> DEFINE db == release(working[c], call[c].fam, call[c].name)
<1>1. call[c] # None /\ call[c].pc = "locked" /\ call[c].kind # "acquire"
  BY DEF Release, InTransaction
<1>2. call[c].name \in Name
  BY <1>1, TransactionFacts
<1>3. db \in Database /\ Consistent(db)
  BY <1>1, <1>2, TransactionFacts, ReleaseType, ReleaseConsistent
<1>4. Commit(c, db, call[c].name, "ok")
  BY DEF Release
<1> HIDE DEF db
<1>5. hold' \in [Client -> Hold \cup {None}]
  BY DEF Release, StoreInv, TypeOK
<1>6. misreleased' \in BOOLEAN
  BY Zenon DEF Release, StoreInv, TypeOK
<1> QED BY <1>1, <1>2, <1>3, <1>4, <1>5, <1>6, CommitStep

LEMMA StoreInvNext == StoreInv /\ [Next]_vars => StoreInv'
<1> SUFFICES ASSUME StoreInv, [Next]_vars PROVE StoreInv'
  OBVIOUS
<1>1. ASSUME NEW c \in Client, NEW f \in Family, NEW n \in Name \cup {None},
             NEW kind \in {"acquire", "tryAcquire", "keepAlive", "release"},
             Begin(c, kind, f, n)
      PROVE  StoreInv'
  BY <1>1, BeginStep
<1>2. ASSUME NEW c \in Client, Lock(c) PROVE StoreInv'
  BY <1>2, LockStep
<1>3. ASSUME NEW c \in Client, Acquire(c) PROVE StoreInv'
  BY <1>3, AcquireStep
<1>4. ASSUME NEW c \in Client, TryAcquire(c) PROVE StoreInv'
  BY <1>4, TryAcquireStep
<1>5. ASSUME NEW c \in Client, KeepAlive(c) PROVE StoreInv'
  BY <1>5, KeepAliveStep
<1>6. ASSUME NEW c \in Client, Release(c) PROVE StoreInv'
  BY <1>6, ReleaseStep
<1>7. ASSUME NEW c \in Client, Return(c) PROVE StoreInv'
  <2>1. working[c] = None
    BY <1>7 DEF Return, StoreInv, CallShape
  <2>2. working' = [working EXCEPT ![c] = None]
    BY <2>1, <1>7 DEF Return, StoreInv, TypeOK
  <2> QED BY <2>2, <1>7, EndCallStep DEF Return, StoreInv, TypeOK
<1>8. ASSUME NEW c \in Client, Crash(c) PROVE StoreInv'
  <2>1. hold' \in [Client -> Hold \cup {None}]
    BY <1>8 DEF Crash, StoreInv, TypeOK
  <2> QED BY <2>1, <1>8, EndCallStep DEF Crash
<1>9. ASSUME NEW c \in Client, List(c) PROVE StoreInv'
  <2>1. path' \in File \cup {None} /\ created' \in 0 .. MaxFiles
    BY <1>9, OpenFileFacts DEF List, StoreInv
  <2> QED BY <2>1, <1>9, FrameStep DEF List, StoreInv, TypeOK
<1>10. CASE Reset
  BY <1>10, FrameStep DEF Reset, StoreInv, TypeOK
<1>11. CASE Tick
  BY <1>11, TickStep
<1>12. CASE UNCHANGED vars
  BY <1>12, FrameStep DEF vars, StoreInv, TypeOK
<1> QED BY <1>1, <1>2, <1>3, <1>4, <1>5, <1>6, <1>7, <1>8, <1>9, <1>10, <1>11, <1>12
        DEF Next, Step

LEMMA StoreInvAlways == Spec => []StoreInv
BY StoreInvInit, StoreInvNext, PTL DEF Spec

\* Type correctness.
THEOREM TypeCorrect == Spec => []TypeOK
<1>1. StoreInv => TypeOK
  BY DEF StoreInv
<1> QED BY StoreInvAlways, <1>1, PTL

\* No transaction works on stale contents: the file lock serialises them.
THEOREM IsolationCorrect == Spec => []Isolated
<1>1. StoreInv => Isolated
  BY DEF StoreInv
<1> QED BY StoreInvAlways, <1>1, PTL

\* Calls, crashes and resets in any order keep the buckets of every file
\* consistent: free names have metadata, counters point at the next new name.
THEOREM StoreCorrect == Spec => []StoreConsistent
<1>1. StoreInv => StoreConsistent
  BY DEF StoreInv
<1> QED BY StoreInvAlways, <1>1, PTL

-----------------------------------------------------------------------------
(* Leases.  LeaseExclusive is not inductive: that two clients never share a  *)
(* name rests on the database seeing each of them as a live user of its name *)
(* (LeaseBacked), so that no acquisition finds the name free or stale.       *)

LeaseInv == LeaseBacked /\ LeaseExclusive

LEMMA LeaseInvInit == Init => LeaseInv
BY DEF Init, LeaseInv, LeaseBacked, LeaseExclusive, InTime

\* A client in time has a live name.
LEMMA InTimeLive ==
  ASSUME StoreInv, LeaseInv, ~misreleased, NEW c \in Client, InTime(c)
  PROVE  /\ hold[c] \in Hold
         /\ Backed(c)
         /\ Live(disk[hold[c].file], hold[c].fam, hold[c].name)
<1>1. hold[c] \in Hold
  BY DEF InTime, StoreInv, TypeOK
<1>2. Backed(c)
  BY DEF LeaseInv, LeaseBacked
<1>3. InUse(disk[hold[c].file], hold[c].fam, hold[c].name)
  BY <1>2 DEF Backed
<1>4. ASSUME AutoReleaseAfter > 0
      PROVE  disk[hold[c].file].data[hold[c].fam][hold[c].name] <= AutoReleaseAfter
  <2>1. hold[c].age \in Nat /\ hold[c].age <= AutoReleaseAfter
    BY <1>1, <1>4 DEF InTime, Hold, Age
  <2>2. disk[hold[c].file].data[hold[c].fam][hold[c].name] \in Nat
    BY <1>1, <1>3 DEF Hold, InUse, hasData, StoreInv, TypeOK, Database, Age
  <2>3. disk[hold[c].file].data[hold[c].fam][hold[c].name] <= hold[c].age
    BY <1>2, <1>4 DEF Backed
  <2> QED BY <2>1, <2>2, <2>3, AutoReleaseAssumption
<1> QED BY <1>1, <1>2, <1>3, <1>4 DEF Live

\* Steps that neither write a file nor change who holds what.
LEMMA LeaseFrame ==
  ASSUME LeaseInv, UNCHANGED <<disk, hold, misreleased>>
  PROVE  LeaseInv'
BY DEF LeaseInv, LeaseBacked, LeaseExclusive, Backed, InTime, SameName

\* A granted name was not live, so nobody in time had it.
LEMMA LeaseGrantStep ==
  ASSUME StoreInv, LeaseInv, NEW c \in Client, call[c] # None, call[c].pc = "locked",
         NEW r, r.name \in Name, GrantFacts(working[c], call[c].fam, r),
         Commit(c, r.db, r.name, "ok"), Granted(c, r.name, "ok")
  PROVE  LeaseInv'
<1> DEFINE db == disk[call[c].file]
           i == call[c].file
           f == call[c].fam
<1>1. /\ working[c] = db /\ db \in Database
      /\ f \in Family /\ i \in File
  BY TransactionFacts
<1>2. disk'[i] = r.db /\ \A j \in File : j # i => disk'[j] = disk[j]
  BY <1>1 DEF Commit, StoreInv, TypeOK
<1>3. /\ hold'[c] = [fam |-> f, name |-> r.name, file |-> i, age |-> 0]
      /\ \A d \in Client : d # c => hold'[d] = hold[d]
  BY DEF Granted, StoreInv, TypeOK
<1>4. misreleased' = misreleased
  BY DEF Granted
<1>5. /\ InUse(r.db, f, r.name)
      /\ r.db.data[f][r.name] = 0
      /\ ~Live(db, f, r.name)
      /\ \A g \in Family, m \in Name : Live(db, g, m) =>
           InUse(r.db, g, m) /\ r.db.data[g][m] = db.data[g][m]
  BY <1>1 DEF GrantFacts
<1> HIDE DEF db, i, f
<1> SUFFICES ASSUME ~misreleased PROVE LeaseInv'
  BY <1>4 DEF LeaseInv, LeaseBacked, LeaseExclusive
<1>6. ASSUME NEW d \in Client, InTime(d)', d # c
      PROVE  /\ InTime(d)
             /\ Backed(d)'
             /\ ~SameName(c, d)' /\ ~SameName(d, c)'
  <2>1. InTime(d) /\ hold'[d] = hold[d]
    BY <1>3, <1>6 DEF InTime
  <2>2. /\ hold[d] \in Hold
        /\ Backed(d)
        /\ Live(disk[hold[d].file], hold[d].fam, hold[d].name)
    BY <2>1, InTimeLive
  <2>3. hold[d].fam \in Family /\ hold[d].name \in Name /\ hold[d].file \in File
    BY <2>2 DEF Hold
  <2>4. ~(hold[d].file = i /\ hold[d].fam = f /\ hold[d].name = r.name)
    BY <2>2, <1>5 DEF db, i
  <2>5. ~SameName(c, d)' /\ ~SameName(d, c)'
    BY <2>1, <2>4, <1>3 DEF SameName
  <2>6. Backed(d)'
    <3>1. CASE hold[d].file = i
      <4>1. disk[hold[d].file] = db /\ disk'[hold'[d].file] = r.db
        BY <3>1, <2>1, <1>2 DEF db, i
      <4>2. InUse(r.db, hold[d].fam, hold[d].name)
        BY <4>1, <2>2, <2>3, <1>5
      <4>3. AutoReleaseAfter > 0 => r.db.data[hold[d].fam][hold[d].name] <= hold[d].age
        BY <4>1, <2>2, <2>3, <1>5 DEF Backed
      <4> QED BY <4>1, <4>2, <4>3, <2>1 DEF Backed
    <3>2. CASE hold[d].file # i
      BY <3>2, <2>1, <2>2, <2>3, <1>2 DEF Backed
    <3> QED BY <3>1, <3>2
  <2> QED BY <2>1, <2>5, <2>6
<1>7. Backed(c)'
  BY <1>2, <1>3, <1>5 DEF Backed
<1>8. LeaseBacked'
  BY <1>6, <1>7 DEF LeaseBacked
<1>9. LeaseExclusive'
  <2> SUFFICES ASSUME NEW d \in Client, NEW e \in Client, d # e, InTime(d)', InTime(e)'
               PROVE  ~SameName(d, e)'
    BY DEF LeaseExclusive
  <2>1. CASE d = c \/ e = c
    BY <2>1, <1>6
  <2>2. CASE d # c /\ e # c
    <3>1. InTime(d) /\ InTime(e) /\ hold'[d] = hold[d] /\ hold'[e] = hold[e]
      BY <2>2, <1>3, <1>6
    <3> QED BY <3>1 DEF LeaseInv, LeaseExclusive, SameName
  <2> QED BY <2>1, <2>2
<1> QED BY <1>8, <1>9 DEF LeaseInv

\* A sign of life makes no name look older, and resets only the age of a name
\* the database just touched.
LEMMA LeaseKeepAliveStep ==
  ASSUME StoreInv, LeaseInv, NEW c \in Client, KeepAlive(c)
  PROVE  LeaseInv'
<1> DEFINE i  == call[c].file
           f  == call[c].fam
           n  == call[c].name
           db == disk[i]
           t  == keepAlive(db, f, n)
<1>1. /\ working[c] = db /\ db \in Database /\ t \in Database
      /\ f \in Family /\ i \in File /\ n \in Name
  BY TransactionFacts, KeepAliveType DEF KeepAlive, InTransaction
<1>2. disk'[i] = t /\ \A j \in File : j # i => disk'[j] = disk[j]
  BY <1>1 DEF KeepAlive, Commit, StoreInv, TypeOK
<1>3. /\ hold'[c] = IF InTime(c) /\ HoldsTarget(c, c) THEN [hold[c] EXCEPT !.age = 0] ELSE hold[c]
      /\ \A d \in Client : d # c => hold'[d] = hold[d]
      /\ misreleased' = misreleased
  BY DEF KeepAlive, StoreInv, TypeOK
<1>4. /\ \A g \in Family, m \in Name : InUse(db, g, m) =>
           InUse(t, g, m) /\ t.data[g][m] <= db.data[g][m]
      /\ InUse(db, f, n) => t.data[f][n] = 0
  BY <1>1, KeepAliveFacts
<1> HIDE DEF db, t, f, n, i
<1> SUFFICES ASSUME ~misreleased PROVE LeaseInv'
  BY <1>3 DEF LeaseInv, LeaseBacked, LeaseExclusive
<1>5. ASSUME NEW d \in Client, InTime(d)'
      PROVE  /\ InTime(d)
             /\ hold'[d] # None /\ hold[d] # None
             /\ hold'[d].fam = hold[d].fam
             /\ hold'[d].name = hold[d].name
             /\ hold'[d].file = hold[d].file
             /\ \/ hold'[d].age = hold[d].age
                \/ d = c /\ hold[d].file = i /\ hold[d].fam = f /\ hold[d].name = n
                   /\ hold'[d].age = 0
  <2>1. CASE d = c /\ InTime(c) /\ HoldsTarget(c, c)
    <3>1. hold[c] \in Hold /\ hold[c] # None
      BY <2>1 DEF InTime, StoreInv, TypeOK
    <3>2. hold'[c] = [hold[c] EXCEPT !.age = 0]
      BY <2>1, <1>3
    <3>3. hold'[c] \in Hold /\ hold'[c] # None
      BY <3>1, <3>2, AgeFacts DEF Hold
    <3> QED BY <2>1, <3>1, <3>2, <3>3 DEF Hold, HoldsTarget, Holds, i, f, n
  <2>2. CASE ~(d = c /\ InTime(c) /\ HoldsTarget(c, c))
    <3>1. hold'[d] = hold[d]
      BY <2>2, <1>3
    <3> QED BY <3>1, <1>5 DEF InTime
  <2> QED BY <2>1, <2>2
<1>6. LeaseExclusive'
  BY <1>5 DEF LeaseInv, LeaseExclusive, SameName
<1>7. ASSUME NEW d \in Client, InTime(d)'
      PROVE  Backed(d)'
  <2>1. InTime(d)
    BY <1>5, <1>7
  <2>2. Backed(d) /\ hold[d] \in Hold
    BY <2>1, InTimeLive
  <2>3. hold[d].fam \in Family /\ hold[d].name \in Name /\ hold[d].file \in File
        /\ hold[d].age \in Nat
    BY <2>2 DEF Hold, Age
  <2>4. CASE hold[d].file = i
    <3>1. disk[hold[d].file] = db /\ disk'[hold'[d].file] = t
      BY <2>4, <1>2, <1>5, <1>7 DEF db
    <3>2. InUse(db, hold[d].fam, hold[d].name)
      BY <3>1, <2>2 DEF Backed
    <3>3. InUse(t, hold[d].fam, hold[d].name)
          /\ t.data[hold[d].fam][hold[d].name] <= db.data[hold[d].fam][hold[d].name]
      BY <3>2, <2>3, <1>4
    <3>4. AutoReleaseAfter > 0 => t.data[hold[d].fam][hold[d].name] <= hold'[d].age
      <4>1. CASE hold'[d].age = hold[d].age
        <5>1. AutoReleaseAfter > 0 =>
                db.data[hold[d].fam][hold[d].name] <= hold[d].age
          BY <3>1, <2>2 DEF Backed
        <5>2. db.data[hold[d].fam][hold[d].name] \in Nat
              /\ t.data[hold[d].fam][hold[d].name] \in Nat
          BY <3>2, <3>3, <2>3, <1>1 DEF InUse, hasData, Database, Age
        <5> QED BY <4>1, <5>1, <5>2, <3>3, <2>3
      <4>2. CASE hold[d].fam = f /\ hold[d].name = n /\ hold'[d].age = 0
        BY <4>2, <3>2, <1>4
      <4> QED BY <4>1, <4>2, <1>5, <1>7
    <3> QED BY <3>1, <3>3, <3>4, <1>5, <1>7 DEF Backed
  <2>5. CASE hold[d].file # i
    BY <2>2, <2>3, <2>5, <1>2, <1>5, <1>7, SMTT(20) DEF Backed
  <2> QED BY <2>4, <2>5
<1>8. LeaseBacked'
  BY <1>7 DEF LeaseBacked
<1> QED BY <1>6, <1>8 DEF LeaseInv

\* A release frees one name; anyone else who had it in time is recorded.
LEMMA LeaseReleaseStep ==
  ASSUME StoreInv, LeaseInv, NEW c \in Client, Release(c)
  PROVE  LeaseInv'
<1> DEFINE i  == call[c].file
           f  == call[c].fam
           n  == call[c].name
           db == disk[i]
           t  == release(db, f, n)
<1>1. /\ working[c] = db /\ db \in Database
      /\ f \in Family /\ i \in File /\ n \in Name
  BY TransactionFacts DEF Release, InTransaction
<1>2. disk'[i] = t /\ \A j \in File : j # i => disk'[j] = disk[j]
  BY <1>1 DEF Release, Commit, StoreInv, TypeOK
<1>3. /\ hold'[c] = IF Holds(c, f, n) THEN None ELSE hold[c]
      /\ \A d \in Client : d # c => hold'[d] = hold[d]
  BY DEF Release, StoreInv, TypeOK
<1>4. misreleased' = (misreleased \/ \E d \in Client \ {c} : InTime(d) /\ HoldsTarget(d, c))
  BY Zenon DEF Release
<1>5. \A g \in Family, m \in Name : <<g, m>> # <<f, n>> /\ InUse(db, g, m) =>
        InUse(t, g, m) /\ t.data[g][m] = db.data[g][m]
  BY <1>1, ReleaseFacts
<1> HIDE DEF t
<1> SUFFICES ASSUME ~misreleased' PROVE LeaseInv'
  BY DEF LeaseInv, LeaseBacked, LeaseExclusive
<1>6. ~misreleased /\ \A d \in Client \ {c} : ~(InTime(d) /\ HoldsTarget(d, c))
  BY Zenon, <1>4
<1>7. ASSUME NEW d \in Client, InTime(d)'
      PROVE  /\ InTime(d) /\ hold'[d] = hold[d]
             /\ ~(hold[d].file = i /\ hold[d].fam = f /\ hold[d].name = n)
  <2>1. CASE d = c
    <3>1. hold'[c] # None
      BY <2>1, <1>7 DEF InTime
    <3>2. ~Holds(c, f, n) /\ hold'[c] = hold[c]
      BY <3>1, <1>3
    <3> QED BY <2>1, <3>1, <3>2, <1>7 DEF InTime, Holds
  <2>2. CASE d # c
    <3>1. hold'[d] = hold[d]
      BY <2>2, <1>3
    <3>2. InTime(d)
      BY <3>1, <1>7 DEF InTime
    <3>3. ~HoldsTarget(d, c)
      BY <2>2, <3>2, <1>6
    <3> QED BY <3>1, <3>2, <3>3 DEF HoldsTarget, Holds, InTime
  <2> QED BY <2>1, <2>2
<1>8. LeaseExclusive'
  BY <1>6, <1>7 DEF LeaseInv, LeaseExclusive, SameName
<1>9. ASSUME NEW d \in Client, InTime(d)'
      PROVE  Backed(d)'
  <2>1. /\ InTime(d) /\ hold'[d] = hold[d]
        /\ ~(hold[d].file = i /\ hold[d].fam = f /\ hold[d].name = n)
    BY <1>7, <1>9
  <2>2. Backed(d) /\ hold[d] \in Hold
    BY <2>1, <1>6, InTimeLive
  <2>3. hold[d].fam \in Family /\ hold[d].name \in Name /\ hold[d].file \in File
    BY <2>2 DEF Hold
  <2>4. CASE hold[d].file = i
    <3>1. disk[hold[d].file] = db /\ disk'[hold'[d].file] = t
      BY <2>4, <2>1, <1>2
    <3>2. InUse(db, hold[d].fam, hold[d].name)
      BY <3>1, <2>2 DEF Backed
    <3>3. InUse(t, hold[d].fam, hold[d].name)
          /\ t.data[hold[d].fam][hold[d].name] = db.data[hold[d].fam][hold[d].name]
      BY <3>2, <2>1, <2>3, <2>4, <1>5
    <3> QED BY <3>1, <3>3, <2>1, <2>2 DEF Backed
  <2>5. CASE hold[d].file # i
    BY <2>1, <2>2, <2>3, <2>5, <1>2 DEF Backed
  <2> QED BY <2>4, <2>5
<1>10. LeaseBacked'
  BY <1>9 DEF LeaseBacked
<1> QED BY <1>8, <1>10 DEF LeaseInv

LEMMA LeaseTickStep ==
  ASSUME StoreInv, LeaseInv, Tick
  PROVE  LeaseInv'
<1>1. misreleased' = misreleased
  BY DEF Tick
<1> SUFFICES ASSUME ~misreleased PROVE LeaseInv'
  BY <1>1 DEF LeaseInv, LeaseBacked, LeaseExclusive
<1>2. ASSUME NEW d \in Client, InTime(d)'
      PROVE  /\ InTime(d)
             /\ hold[d] \in Hold
             /\ hold'[d] = [hold[d] EXCEPT !.age = Older(hold[d].age)]
  <2>1. hold[d] # None
    BY <1>2 DEF Tick, InTime
  <2>2. hold'[d] = [hold[d] EXCEPT !.age = Older(hold[d].age)]
    BY <2>1 DEF Tick
  <2>3. hold[d] \in Hold
    BY <2>1 DEF StoreInv, TypeOK
  <2>4. hold'[d].age = Older(hold[d].age) /\ hold[d].age \in Age
    BY <2>2, <2>3 DEF Hold
  <2>5. AutoReleaseAfter = 0 \/ hold[d].age <= AutoReleaseAfter
    <3>1. hold[d].age <= Older(hold[d].age) /\ Older(hold[d].age) \in Age
      BY <2>4, AgeFacts
    <3> QED BY <3>1, <2>4, <1>2, AutoReleaseAssumption DEF InTime, Age
  <2> QED BY <2>1, <2>2, <2>3, <2>5 DEF InTime
<1>3. LeaseExclusive'
  <2>1. \A d \in Client : InTime(d)' =>
          /\ InTime(d)
          /\ hold'[d].fam = hold[d].fam
          /\ hold'[d].name = hold[d].name
          /\ hold'[d].file = hold[d].file
    BY <1>2 DEF Hold
  <2> QED BY <2>1 DEF LeaseInv, LeaseExclusive, SameName
<1>4. ASSUME NEW d \in Client, InTime(d)'
      PROVE  Backed(d)'
  <2> DEFINE g == hold[d].fam
             m == hold[d].name
             i == hold[d].file
             db == disk[i]
  <2>1. Backed(d) /\ hold[d] \in Hold
    BY <1>2, <1>4, InTimeLive
  <2>2. g \in Family /\ m \in Name /\ i \in File /\ hold[d].age \in Age /\ db \in Database
    BY <2>1 DEF Hold, StoreInv, TypeOK
  <2>3. disk'[i] = elapse(db)
    BY <2>2 DEF Tick
  <2>4. InUse(elapse(db), g, m) /\ elapse(db).data[g][m] = Older(db.data[g][m])
    BY <2>1, <2>2, ElapseInUse DEF Backed
  <2>5. hold'[d].fam = g /\ hold'[d].name = m /\ hold'[d].file = i
        /\ hold'[d].age = Older(hold[d].age)
    BY <2>1, <1>2, <1>4 DEF Hold
  <2>6. AutoReleaseAfter > 0 => Older(db.data[g][m]) <= Older(hold[d].age)
    <3>1. db.data[g][m] \in Age
      BY <2>1, <2>2 DEF Backed, InUse, hasData, Database
    <3> QED BY <3>1, <2>1, <2>2, AgeFacts DEF Backed
  <2> HIDE DEF g, m, i, db
  <2> QED BY <2>3, <2>4, <2>5, <2>6 DEF Backed
<1>5. LeaseBacked'
  BY <1>4 DEF LeaseBacked
<1> QED BY <1>3, <1>5 DEF LeaseInv

LEMMA LeaseInvNext == StoreInv /\ LeaseInv /\ [Next]_vars => LeaseInv'
<1> SUFFICES ASSUME StoreInv, LeaseInv, [Next]_vars PROVE LeaseInv'
  OBVIOUS
<1>1. ASSUME NEW c \in Client, NEW f \in Family, NEW n \in Name \cup {None},
             NEW kind \in {"acquire", "tryAcquire", "keepAlive", "release"},
             Begin(c, kind, f, n)
      PROVE  LeaseInv'
  BY <1>1, LeaseFrame DEF Begin
<1>2. ASSUME NEW c \in Client, Lock(c) \/ Return(c) \/ List(c) PROVE LeaseInv'
  BY <1>2, LeaseFrame DEF Lock, Return, List
<1>3. ASSUME NEW c \in Client, Acquire(c) PROVE LeaseInv'
  <2>1. call[c] # None /\ call[c].pc = "locked"
    BY <1>3 DEF Acquire, InTransaction
  <2>2. PICK r \in acquire(working[c], call[c].fam) :
          Commit(c, r.db, r.name, r.status) /\ Granted(c, r.name, r.status)
    BY <1>3 DEF Acquire
  <2>3. /\ r.name \in Name /\ r.status = "ok"
        /\ GrantFacts(working[c], call[c].fam, r)
    BY <2>1, TransactionFacts, AcquireFacts
  <2> QED BY <2>1, <2>2, <2>3, LeaseGrantStep
<1>4. ASSUME NEW c \in Client, TryAcquire(c) PROVE LeaseInv'
  <2> DEFINE r == tryAcquire(working[c], call[c].fam, call[c].name)
  <2>1. call[c] # None /\ call[c].pc = "locked" /\ call[c].kind # "acquire"
    BY <1>4 DEF TryAcquire, InTransaction
  <2>2. Commit(c, r.db, r.name, r.status) /\ Granted(c, r.name, r.status)
    BY <1>4 DEF TryAcquire
  <2>3. /\ r.name \in Name
        /\ r.status = "ok" => GrantFacts(working[c], call[c].fam, r)
        /\ r.status # "ok" => r.db = working[c]
    BY <2>1, TransactionFacts, TryAcquireFacts
  <2> HIDE DEF r
  <2>4. CASE r.status = "ok"
    BY <2>1, <2>2, <2>3, <2>4, LeaseGrantStep
  <2>5. CASE r.status # "ok"
    <3>1. working[c] = disk[call[c].file] /\ call[c].file \in File
      BY <2>1, TransactionFacts
    <3>2. UNCHANGED disk
      BY <3>1, <2>2, <2>3, <2>5 DEF Commit, StoreInv, TypeOK
    <3>3. UNCHANGED <<hold, misreleased>>
      BY <2>2, <2>5 DEF Granted
    <3> QED BY <3>2, <3>3, LeaseFrame
  <2> QED BY <2>4, <2>5
<1>5. ASSUME NEW c \in Client, KeepAlive(c) PROVE LeaseInv'
  BY <1>5, LeaseKeepAliveStep
<1>6. ASSUME NEW c \in Client, Release(c) PROVE LeaseInv'
  BY <1>6, LeaseReleaseStep
<1>7. ASSUME NEW c \in Client, Crash(c) PROVE LeaseInv'
  <2>1. UNCHANGED <<disk, misreleased>>
    BY <1>7 DEF Crash
  <2>2. \A d \in Client : InTime(d)' => InTime(d) /\ hold'[d] = hold[d]
    BY <1>7 DEF Crash, InTime, StoreInv, TypeOK
  <2> QED BY <2>1, <2>2 DEF LeaseInv, LeaseBacked, LeaseExclusive, Backed, SameName
<1>8. CASE Reset
  BY <1>8, LeaseFrame DEF Reset
<1>9. CASE Tick
  BY <1>9, LeaseTickStep
<1>10. CASE UNCHANGED vars
  BY <1>10, LeaseFrame DEF vars
<1> QED BY <1>1, <1>2, <1>3, <1>4, <1>5, <1>6, <1>7, <1>8, <1>9, <1>10 DEF Next, Step

LEMMA LeaseInvAlways == Spec => []LeaseInv
<1>1. Init => StoreInv /\ LeaseInv
  BY StoreInvInit, LeaseInvInit
<1>2. StoreInv /\ LeaseInv /\ [Next]_vars => (StoreInv /\ LeaseInv)'
  BY StoreInvNext, LeaseInvNext
<1> QED BY <1>1, <1>2, PTL DEF Spec

\* Unless some client releases a name another one holds in time, two clients
\* that keep their names alive never hold the same name of the same file.
THEOREM LeaseExclusiveCorrect == Spec => []LeaseExclusive
<1>1. LeaseInv => LeaseExclusive
  BY DEF LeaseInv
<1> QED BY LeaseInvAlways, <1>1, PTL

\* Under the same proviso the database never takes a client that keeps its name
\* alive for a zombie: its name is in use and looks no older than it is.
THEOREM LeaseBackedCorrect == Spec => []LeaseBacked
<1>1. LeaseInv => LeaseBacked
  BY DEF LeaseInv
<1> QED BY LeaseInvAlways, <1>1, PTL

-----------------------------------------------------------------------------
(* New names are a last resort.  What acquire does to the counter is a fact  *)
(* of the database it works on; that this is the file as every other client  *)
(* sees it is the isolation of StoreInv.                                     *)

\* A commit changes its own file only.
LEMMA CommitFacts ==
  ASSUME StoreInv, NEW c \in Client, call[c] # None, call[c].pc = "locked",
         NEW db, NEW name, NEW status, Commit(c, db, name, status)
  PROVE  /\ disk'[call[c].file] = db
         /\ \A i \in File : i # call[c].file => disk'[i] = disk[i]
         /\ path' = path /\ created' = created
<1>1. call[c].file \in File
  BY TransactionFacts
<1> QED BY <1>1 DEF Commit, StoreInv, TypeOK

\* The counter of a family moves only when every name it has is live.
CounterStep ==
  \A i \in File, f \in Family :
    disk'[i].counter[f] # disk[i].counter[f] =>
      \A n \in Name : hasData(disk[i], f, n) => Live(disk[i], f, n)

LEMMA CounterCommit ==
  ASSUME StoreInv, NEW c \in Client, call[c] # None, call[c].pc = "locked",
         NEW db, NEW name, NEW status, Commit(c, db, name, status),
         \A f \in Family : db.counter[f] # working[c].counter[f] =>
           \A n \in Name : hasData(working[c], f, n) => Live(working[c], f, n)
  PROVE  CounterStep
<1>1. working[c] = disk[call[c].file]
  BY TransactionFacts
<1> QED BY <1>1, CommitFacts DEF CounterStep

LEMMA ReuseFirstStep == StoreInv /\ [Next]_vars => CounterStep
<1> SUFFICES ASSUME StoreInv, [Next]_vars PROVE CounterStep
  OBVIOUS
<1>1. CASE UNCHANGED disk
  BY <1>1 DEF CounterStep
<1>2. ASSUME NEW c \in Client, Acquire(c) PROVE CounterStep
  <2>1. call[c] # None /\ call[c].pc = "locked"
    BY <1>2 DEF Acquire, InTransaction
  <2>2. PICK r \in acquire(working[c], call[c].fam) : Commit(c, r.db, r.name, r.status)
    BY <1>2 DEF Acquire
  <2>3. AcquireTable(working[c], call[c].fam, r)
    BY <2>1, TransactionFacts, AcquireTableFacts
  <2> QED BY <2>1, <2>2, <2>3, CounterCommit DEF AcquireTable
<1>3. ASSUME NEW c \in Client, TryAcquire(c) PROVE CounterStep
  <2> DEFINE r == tryAcquire(working[c], call[c].fam, call[c].name)
  <2>1. call[c] # None /\ call[c].pc = "locked" /\ call[c].kind # "acquire"
    BY <1>3 DEF TryAcquire, InTransaction
  <2>2. Commit(c, r.db, r.name, r.status)
    BY <1>3 DEF TryAcquire
  <2>3. r.db.counter = working[c].counter
    BY <2>1, TransactionFacts, TryAcquireFacts, TryAcquireTable
  <2> HIDE DEF r
  <2> QED BY <2>1, <2>2, <2>3, CounterCommit
<1>4. ASSUME NEW c \in Client, KeepAlive(c) PROVE CounterStep
  <2> DEFINE db == keepAlive(working[c], call[c].fam, call[c].name)
  <2>1. call[c] # None /\ call[c].pc = "locked" /\ call[c].kind # "acquire"
    BY <1>4 DEF KeepAlive, InTransaction
  <2>2. Commit(c, db, call[c].name, "ok")
    BY <1>4 DEF KeepAlive
  <2>3. db.counter = working[c].counter
    BY <2>1, TransactionFacts, KeepAliveTable
  <2> HIDE DEF db
  <2> QED BY <2>1, <2>2, <2>3, CounterCommit
<1>5. ASSUME NEW c \in Client, Release(c) PROVE CounterStep
  <2> DEFINE db == release(working[c], call[c].fam, call[c].name)
  <2>1. call[c] # None /\ call[c].pc = "locked" /\ call[c].kind # "acquire"
    BY <1>5 DEF Release, InTransaction
  <2>2. Commit(c, db, call[c].name, "ok")
    BY <1>5 DEF Release
  <2>3. db.counter = working[c].counter
    BY <2>1, TransactionFacts, ReleaseTable
  <2> HIDE DEF db
  <2> QED BY <2>1, <2>2, <2>3, CounterCommit
<1>6. CASE Tick
  <2>1. \A i \in File : disk[i] \in Database /\ disk'[i] = elapse(disk[i])
    BY <1>6 DEF Tick, StoreInv, TypeOK
  <2>2. \A i \in File : disk'[i].counter = disk[i].counter
    BY <2>1, ElapseFacts
  <2> QED BY <2>2 DEF CounterStep
<1> QED BY <1>1, <1>2, <1>3, <1>4, <1>5, <1>6
        DEF Next, Step, Begin, Lock, Return, Crash, List, Reset, vars

\* "Previously acquired names, now released, are reused as much as possible": in
\* every file a family gets a new name only when all its names are in use and
\* none of them has been without a sign of life for too long.
THEOREM ReuseFirstCorrect == Spec => ReuseFirst
<1>1. StoreInv /\ [Next]_vars => [CounterStep]_vars
  BY ReuseFirstStep
<1> QED BY StoreInvAlways, <1>1, PTL DEF Spec, ReuseFirst, CounterStep

-----------------------------------------------------------------------------
(* The backend implements NameManager.  The table of names is the file at    *)
(* the path, so a call that a Reset overtook must not matter any more, a new *)
(* file must be as empty as no file, and a client that acquires holds        *)
(* nothing.                                                                  *)

\* Files get their numbers in the order they are created; nobody has opened,
\* nor been granted a name from, nor written to one that does not exist yet.
FilesInOrder ==
  /\ path # None => path <= created
  /\ \A c \in Client : call[c] # None => call[c].file <= created
  /\ \A c \in Client : hold[c] # None => hold[c].file <= created
  /\ \A i \in File : i > created =>
       \A f \in Family, n \in Name : ~hasData(disk[i], f, n)

\* A client whose acquisition is not committed holds nothing.
AskingHoldsNothing ==
  \A c \in Client :
    call[c] # None /\ call[c].kind \in {"acquire", "tryAcquire"} /\ call[c].pc # "committed" =>
      hold[c] = None

FileInv == FilesInOrder /\ AskingHoldsNothing

LEMMA FileInvInit == Init => FileInv
<1> SUFFICES ASSUME Init PROVE FileInv
  OBVIOUS
<1>1. \A i \in File, f \in Family, n \in Name : ~hasData(disk[i], f, n)
  BY EmptyTable DEF Init
<1> QED BY <1>1 DEF Init, FileInv, FilesInOrder, AskingHoldsNothing

LEMMA OpenFileOrder ==
  ASSUME StoreInv, FilesInOrder, NEW i \in File, OpenFile(i)
  PROVE  /\ path' \in File /\ path' = i /\ path' # None
         /\ created \in Nat /\ created' \in Nat /\ created <= created'
         /\ path' <= created'
         /\ path = None => path' = created + 1 /\ created' = created + 1
         /\ path # None => path' = path /\ created' = created
BY NoneAssumption DEF OpenFile, FilesInOrder, StoreInv, TypeOK, File

\* Opening a file keeps the files in order, whatever call does with it.
LEMMA OpenFileInOrder ==
  ASSUME StoreInv, FilesInOrder, NEW i \in File, OpenFile(i), UNCHANGED <<disk, hold>>,
         \A c \in Client : call'[c] # None => call'[c].file = i \/ call'[c] = call[c]
  PROVE  FilesInOrder'
<1>1. /\ path' = i /\ created \in Nat /\ created' \in Nat /\ created <= created'
      /\ path' <= created' /\ i \in Nat
  BY OpenFileOrder DEF File
<1>2. ASSUME NEW c \in Client, call'[c] # None
      PROVE  call'[c].file <= created'
  <2>1. CASE call'[c].file = i
    BY <2>1, <1>1
  <2>2. CASE call'[c] = call[c]
    <3>1. call[c].file <= created /\ call[c].file \in Nat
      BY <2>2, <1>2 DEF FilesInOrder, StoreInv, TypeOK, Call, File
    <3> QED BY <3>1, <2>2, <1>1
  <2> QED BY <2>1, <2>2, <1>2
<1>3. ASSUME NEW c \in Client, hold'[c] # None
      PROVE  hold'[c].file <= created'
  <2>1. hold[c].file <= created /\ hold[c].file \in Nat
    BY <1>3 DEF FilesInOrder, StoreInv, TypeOK, Hold, File
  <2> QED BY <2>1, <1>1
<1>4. ASSUME NEW j \in File, j > created', NEW f \in Family, NEW n \in Name
      PROVE  ~hasData(disk'[j], f, n)
  <2>1. j > created
    BY <1>1, <1>4 DEF File
  <2> QED BY <2>1, <1>4 DEF FilesInOrder
<1> QED BY <1>1, <1>2, <1>3, <1>4 DEF FilesInOrder

\* A commit writes an existing file; only an acquisition makes a holder.
LEMMA CommitInOrder ==
  ASSUME StoreInv, FileInv, NEW c \in Client, call[c] # None, call[c].pc = "locked",
         NEW db, NEW name, NEW status, Commit(c, db, name, status),
         \A d \in Client : hold'[d] = None \/ (hold[d] # None /\ hold'[d].file = hold[d].file)
                             \/ (d = c /\ hold'[d].file = call[c].file)
  PROVE  FileInv'
<1>1. call[c] \in Call /\ call[c].file \in File /\ call[c].file <= created
      /\ created \in Nat
  BY DEF StoreInv, TypeOK, Call, FileInv, FilesInOrder
<1>2. path' = path /\ created' = created
      /\ \A i \in File : i # call[c].file => disk'[i] = disk[i]
  BY CommitFacts
<1>3. /\ call'[c].file = call[c].file /\ call'[c].pc = "committed"
      /\ \A d \in Client : d # c => call'[d] = call[d]
  BY <1>1 DEF Commit, StoreInv, TypeOK, Call
<1>4. \A d \in Client : call'[d] # None => call'[d].file <= created'
  BY <1>1, <1>2, <1>3 DEF FileInv, FilesInOrder
<1>5. \A d \in Client : hold'[d] # None => hold'[d].file <= created'
  BY <1>1, <1>2 DEF FileInv, FilesInOrder
<1>6. ASSUME NEW i \in File, i > created', NEW f \in Family, NEW n \in Name
      PROVE  ~hasData(disk'[i], f, n)
  <2>1. i # call[c].file
    BY <1>1, <1>2, <1>6 DEF File
  <2> QED BY <2>1, <1>2, <1>6 DEF FileInv, FilesInOrder
<1>7. FilesInOrder'
  BY <1>2, <1>4, <1>5, <1>6 DEF FileInv, FilesInOrder
<1>8. AskingHoldsNothing'
  <2> SUFFICES ASSUME NEW d \in Client, call'[d] # None,
                      call'[d].kind \in {"acquire", "tryAcquire"},
                      call'[d].pc # "committed"
               PROVE  hold'[d] = None
    BY DEF AskingHoldsNothing
  <2>1. d # c /\ call'[d] = call[d]
    BY <1>3
  <2>2. hold[d] = None
    BY <2>1 DEF FileInv, AskingHoldsNothing
  <2> QED BY <2>1, <2>2
<1> QED BY <1>7, <1>8 DEF FileInv

LEMMA FileInvNext == StoreInv /\ FileInv /\ [Next]_vars => FileInv'
<1> SUFFICES ASSUME StoreInv, FileInv, [Next]_vars PROVE FileInv'
  OBVIOUS
<1>1. ASSUME NEW c \in Client, NEW f \in Family, NEW n \in Name \cup {None},
             NEW kind \in {"acquire", "tryAcquire", "keepAlive", "release"},
             Begin(c, kind, f, n)
      PROVE  FileInv'
  <2>1. PICK i \in File :
          /\ OpenFile(i)
          /\ call' = [call EXCEPT ![c] = [kind |-> kind, fam |-> f, name |-> n, file |-> i,
                                          pc |-> "opened", status |-> "pending"]]
    BY <1>1 DEF Begin
  <2>2. UNCHANGED <<disk, hold>> /\ MayCall(c, kind, f, n)
    BY <1>1 DEF Begin
  <2>3. /\ call'[c].file = i /\ call'[c].kind = kind
        /\ \A d \in Client : d # c => call'[d] = call[d]
    BY <2>1 DEF StoreInv, TypeOK
  <2>4. FilesInOrder'
    BY <2>1, <2>2, <2>3, OpenFileInOrder DEF FileInv
  <2>5. kind \in {"acquire", "tryAcquire"} => hold[c] = None
    BY <2>2 DEF MayCall
  <2>6. AskingHoldsNothing'
    BY <2>2, <2>3, <2>5 DEF AskingHoldsNothing, FileInv
  <2> QED BY <2>4, <2>6 DEF FileInv
<1>2. ASSUME NEW c \in Client, Lock(c) PROVE FileInv'
  <2>1. call[c] \in Call
    BY <1>2 DEF Lock, StoreInv, TypeOK
  <2>2. /\ call[c] # None /\ call[c].pc = "opened"
        /\ call'[c].file = call[c].file /\ call'[c].kind = call[c].kind
        /\ \A d \in Client : d # c => call'[d] = call[d]
    BY <1>2, <2>1 DEF Lock, StoreInv, TypeOK, Call
  <2>3. UNCHANGED <<path, created, disk, hold>>
    BY <1>2 DEF Lock
  <2> QED BY <2>2, <2>3 DEF FileInv, FilesInOrder, AskingHoldsNothing
<1>3. ASSUME NEW c \in Client, Acquire(c) PROVE FileInv'
  <2>1. call[c] # None /\ call[c].pc = "locked"
    BY <1>3 DEF Acquire, InTransaction
  <2>2. PICK r \in acquire(working[c], call[c].fam) :
          Commit(c, r.db, r.name, r.status) /\ Granted(c, r.name, r.status)
    BY <1>3 DEF Acquire
  <2>3. \A d \in Client : hold'[d] = hold[d] \/ (d = c /\ hold'[d].file = call[c].file)
    BY <2>2 DEF Granted, StoreInv, TypeOK
  <2> QED BY <2>1, <2>2, <2>3, CommitInOrder
<1>4. ASSUME NEW c \in Client, TryAcquire(c) PROVE FileInv'
  <2> DEFINE r == tryAcquire(working[c], call[c].fam, call[c].name)
  <2>1. call[c] # None /\ call[c].pc = "locked"
    BY <1>4 DEF TryAcquire, InTransaction
  <2>2. Commit(c, r.db, r.name, r.status) /\ Granted(c, r.name, r.status)
    BY <1>4 DEF TryAcquire
  <2> HIDE DEF r
  <2>3. \A d \in Client : hold'[d] = hold[d] \/ (d = c /\ hold'[d].file = call[c].file)
    BY <2>2 DEF Granted, StoreInv, TypeOK
  <2> QED BY <2>1, <2>2, <2>3, CommitInOrder
<1>5. ASSUME NEW c \in Client, KeepAlive(c) PROVE FileInv'
  <2> DEFINE db == keepAlive(working[c], call[c].fam, call[c].name)
  <2>1. call[c] # None /\ call[c].pc = "locked"
    BY <1>5 DEF KeepAlive, InTransaction
  <2>2. Commit(c, db, call[c].name, "ok")
    BY <1>5 DEF KeepAlive
  <2> HIDE DEF db
  <2>3. \A d \in Client :
          hold'[d] = hold[d] \/ (hold[d] # None /\ hold'[d].file = hold[d].file)
    <3>1. InTime(c) => hold[c] # None /\ hold[c] \in Hold
      BY DEF InTime, StoreInv, TypeOK
    <3> QED BY <3>1, <1>5 DEF KeepAlive, StoreInv, TypeOK, Hold
  <2> QED BY <2>1, <2>2, <2>3, CommitInOrder
<1>6. ASSUME NEW c \in Client, Release(c) PROVE FileInv'
  <2> DEFINE db == release(working[c], call[c].fam, call[c].name)
  <2>1. call[c] # None /\ call[c].pc = "locked"
    BY <1>6 DEF Release, InTransaction
  <2>2. Commit(c, db, call[c].name, "ok")
    BY <1>6 DEF Release
  <2> HIDE DEF db
  <2>3. \A d \in Client : hold'[d] = hold[d] \/ hold'[d] = None
    BY <1>6 DEF Release, StoreInv, TypeOK
  <2> QED BY <2>1, <2>2, <2>3, CommitInOrder
<1>7. ASSUME NEW c \in Client, Return(c) \/ Crash(c) PROVE FileInv'
  <2>1. UNCHANGED <<path, created, disk>>
    BY <1>7 DEF Return, Crash
  <2>2. \A d \in Client : /\ call'[d] = None \/ call'[d] = call[d]
                          /\ hold'[d] = None \/ hold'[d] = hold[d]
    BY <1>7 DEF Return, Crash, StoreInv, TypeOK
  <2> QED BY <2>1, <2>2 DEF FileInv, FilesInOrder, AskingHoldsNothing
<1>8. ASSUME NEW c \in Client, List(c) PROVE FileInv'
  <2>1. FilesInOrder'
    BY <1>8, OpenFileInOrder DEF List, FileInv
  <2> QED BY <2>1, <1>8 DEF List, FileInv, AskingHoldsNothing
<1>9. CASE Reset
  BY <1>9 DEF Reset, FileInv, FilesInOrder, AskingHoldsNothing
<1>10. CASE Tick
  <2>1. UNCHANGED <<path, created, call>>
    BY <1>10 DEF Tick
  <2>2. \A c \in Client : /\ hold'[c] # None => hold[c] # None
                          /\ hold[c] # None => hold'[c].file = hold[c].file
                          /\ hold[c] = None => hold'[c] = None
    BY <1>10 DEF Tick, StoreInv, TypeOK, Hold
  <2>3. \A i \in File, f \in Family, n \in Name :
          hasData(disk'[i], f, n) <=> hasData(disk[i], f, n)
    <3>1. \A i \in File : disk[i] \in Database /\ disk'[i] = elapse(disk[i])
      BY <1>10 DEF Tick, StoreInv, TypeOK
    <3> QED BY <3>1, ElapseTable
  <2> QED BY <2>1, <2>2, <2>3 DEF FileInv, FilesInOrder, AskingHoldsNothing
<1>11. CASE UNCHANGED vars
  BY <1>11 DEF vars, FileInv, FilesInOrder, AskingHoldsNothing
<1> QED BY <1>1, <1>2, <1>3, <1>4, <1>5, <1>6, <1>7, <1>8, <1>9, <1>10, <1>11 DEF Next, Step

\* The mapped table, name by name.
LEMMA TableFacts ==
  /\ registeredNames \subseteq Family \X Name
  /\ namesInUse \subseteq Family \X Name
  /\ staleNames \subseteq Family \X Name
  /\ \A g \in Family, m \in Name :
       /\ <<g, m>> \in registeredNames <=> hasData(current, g, m)
       /\ <<g, m>> \in namesInUse <=> InUse(current, g, m)
       /\ <<g, m>> \in staleNames <=> Stale(current, g, m)
BY DEF registeredNames, namesInUse, staleNames, Stale

LEMMA NextTableFacts ==
  /\ registeredNames' \subseteq Family \X Name
  /\ namesInUse' \subseteq Family \X Name
  /\ staleNames' \subseteq Family \X Name
  /\ \A g \in Family, m \in Name :
       /\ <<g, m>> \in registeredNames' <=> hasData(current', g, m)
       /\ <<g, m>> \in namesInUse' <=> InUse(current', g, m)
       /\ <<g, m>> \in staleNames' <=> Stale(current', g, m)
BY DEF registeredNames, namesInUse, staleNames, Stale

\* The table stays when the file at the path stays.
LEMMA TableFrame ==
  ASSUME path' = path, path = None \/ disk'[path] = disk[path]
  PROVE  UNCHANGED <<registeredNames, namesInUse, staleNames>>
<1>1. current' = current
  BY DEF current
<1> QED BY <1>1 DEF registeredNames, namesInUse, staleNames

\* Without data in the file at the path the table is empty.
LEMMA EmptyTableFacts ==
  ASSUME \A g \in Family, m \in Name : ~hasData(current, g, m)
  PROVE  registeredNames = {} /\ namesInUse = {} /\ staleNames = {}
BY DEF registeredNames, namesInUse, staleNames, InUse

LEMMA NoFileTable ==
  ASSUME path = None
  PROVE  \A g \in Family, m \in Name : ~hasData(current, g, m)
BY EmptyTable DEF current

\* Where nothing is held from the file at the path, nobody holds a name of the
\* table.
LEMMA NobodyHolds ==
  ASSUME \A c \in Client : hold[c] # None => hold[c].file # path
  PROVE  currentHolds = [c \in Client |-> None]
BY DEF currentHolds

\* Holds that keep name and file, or none, keep what the table knows of them.
LEMMA HoldsFrame ==
  ASSUME path' = path,
         \A c \in Client :
           \/ hold'[c] = hold[c]
           \/ /\ hold[c] # None /\ hold'[c] # None
              /\ hold'[c].fam = hold[c].fam /\ hold'[c].name = hold[c].name
              /\ hold'[c].file = hold[c].file
  PROVE  currentHolds' = currentHolds
BY DEF currentHolds

\* The table as an action leaves it is no different from before.
Stutters == UNCHANGED <<registeredNames, namesInUse, staleNames, currentHolds>>

\* Creating an empty file where there is none changes no table.
LEMMA OpenFileStutters ==
  ASSUME StoreInv, FileInv, NEW i \in File, OpenFile(i), UNCHANGED <<disk, hold>>
  PROVE  Stutters
<1>1. CASE path # None
  <2>1. path' = path
    BY <1>1, OpenFileOrder DEF FileInv
  <2> QED BY <2>1, TableFrame, HoldsFrame DEF Stutters
<1>2. CASE path = None
  <2>1. path' \in File /\ path' = created + 1 /\ path' # None /\ created \in Nat
    BY <1>2, OpenFileOrder DEF FileInv
  <2>2. \A g \in Family, m \in Name : ~hasData(current, g, m)
    BY <1>2, NoFileTable
  <2>3. current' = disk[path']
    BY <2>1 DEF current
  <2>4. \A g \in Family, m \in Name : ~hasData(current', g, m)
    BY <2>1, <2>3 DEF FileInv, FilesInOrder
  <2>5. UNCHANGED <<registeredNames, namesInUse, staleNames>>
    BY <2>2, <2>4 DEF registeredNames, namesInUse, staleNames, InUse
  <2>6. \A c \in Client : hold[c] # None => hold[c].file # path /\ hold[c].file # path'
    BY <1>2, <2>1, NoneAssumption
       DEF FileInv, FilesInOrder, StoreInv, TypeOK, Hold, File
  <2>7. currentHolds' = currentHolds
    BY <2>6 DEF currentHolds
  <2> QED BY <2>5, <2>7 DEF Stutters
<1> QED BY <1>1, <1>2

\* A commit to a file that Reset removed.
LEMMA CommitOffPath ==
  ASSUME StoreInv, NEW c \in Client, call[c] # None, call[c].pc = "locked",
         NEW db, NEW name, NEW status, Commit(c, db, name, status),
         call[c].file # path
  PROVE  path' = path /\ UNCHANGED <<registeredNames, namesInUse, staleNames>>
<1>1. path' = path /\ \A i \in File : i # call[c].file => disk'[i] = disk[i]
  BY CommitFacts
<1>2. path = None \/ disk'[path] = disk[path]
  BY <1>1 DEF StoreInv, TypeOK
<1> QED BY <1>1, <1>2, TableFrame

\* A commit to the file at the path.
LEMMA CommitOnPath ==
  ASSUME StoreInv, NEW c \in Client, call[c] # None, call[c].pc = "locked",
         NEW db, NEW name, NEW status, Commit(c, db, name, status),
         call[c].file = path
  PROVE  path' = path /\ path # None /\ current = working[c] /\ current' = db
<1>1. path' = path /\ disk'[path] = db
  BY CommitFacts
<1>2. path # None /\ working[c] = disk[path]
  BY TransactionFacts, NoneAssumption DEF File
<1> QED BY <1>1, <1>2 DEF current

\* Committing an acquisition to the file at the path lets c hold the name.
LEMMA GrantedHolds ==
  ASSUME StoreInv, FileInv, NEW c \in Client, call[c] # None, call[c].pc = "locked",
         call[c].kind \in {"acquire", "tryAcquire"}, path' = path,
         NEW n \in Name, Granted(c, n, "ok")
  PROVE  /\ currentHolds[c] = None
         /\ call[c].file = path =>
              currentHolds' = [currentHolds EXCEPT ![c] = <<call[c].fam, n>>]
         /\ call[c].file # path => currentHolds' = currentHolds
<1>1. hold[c] = None
  BY DEF FileInv, AskingHoldsNothing
<1> DEFINE h == [fam |-> call[c].fam, name |-> n, file |-> call[c].file, age |-> 0]
<1>2. h \in Hold
  BY AgeFacts DEF StoreInv, TypeOK, Call, Hold
<1>3. h # None
  BY <1>2
<1>4. h.fam = call[c].fam /\ h.name = n /\ h.file = call[c].file
  OBVIOUS
<1>5. hold' = [hold EXCEPT ![c] = h]
  BY DEF Granted
<1> HIDE DEF h
<1>6. hold'[c] = h /\ \A d \in Client : d # c => hold'[d] = hold[d]
  BY <1>5 DEF StoreInv, TypeOK
<1> QED BY <1>1, <1>3, <1>4, <1>6 DEF currentHolds

LEMMA AcquireImplements ==
  ASSUME StoreInv, FileInv, NEW c \in Client, Acquire(c)
  PROVE  [Promise!Next]_(Promise!vars)
<1> DEFINE f == call[c].fam
<1>1. call[c] # None /\ call[c].pc = "locked" /\ call[c].kind = "acquire"
  BY DEF Acquire, InTransaction
<1>2. PICK r \in acquire(working[c], f) :
        Commit(c, r.db, r.name, r.status) /\ Granted(c, r.name, r.status)
  BY DEF Acquire
<1>3. working[c] \in Database /\ f \in Family
  BY <1>1, TransactionFacts
<1>4. r.status = "ok" /\ r.name \in Name /\ AcquireTable(working[c], f, r)
  BY <1>1, TransactionFacts, AcquireFacts, AcquireTableFacts
<1>5. CASE call[c].file # path
  <2>1. path' = path /\ UNCHANGED <<registeredNames, namesInUse, staleNames>>
    BY <1>1, <1>2, <1>5, CommitOffPath
  <2>2. currentHolds' = currentHolds
    BY <2>1, <1>1, <1>2, <1>4, <1>5, GrantedHolds
  <2> QED BY <2>1, <2>2 DEF Promise!vars
<1>6. CASE call[c].file = path
  <2> DEFINE n == r.name
             z == staleNames \cap ({f} \X Name)
  <2>1. path' = path /\ current = working[c] /\ current' = r.db
    BY <1>1, <1>2, <1>6, CommitOnPath
  <2>2. /\ currentHolds[c] = None
        /\ currentHolds' = [currentHolds EXCEPT ![c] = <<f, n>>]
    BY <2>1, <1>1, <1>2, <1>4, <1>6, GrantedHolds
  <2>3. \A g \in Family, m \in Name :
          /\ <<g, m>> \in registeredNames' <=>
               (<<g, m>> \in registeredNames \/ <<g, m>> = <<f, n>>)
          /\ <<g, m>> \in namesInUse' <=>
               \/ <<g, m>> \in namesInUse /\ ~(g = f /\ <<g, m>> \in staleNames)
               \/ <<g, m>> = <<f, n>>
          /\ <<g, m>> \in staleNames' <=> (<<g, m>> \in staleNames /\ g # f)
    BY <2>1, <1>4, TableFacts, NextTableFacts DEF AcquireTable
  <2>4. /\ registeredNames' = registeredNames \cup {<<f, n>>}
        /\ namesInUse' = (namesInUse \ z) \cup {<<f, n>>}
        /\ staleNames' = staleNames \ (z \cup {<<f, n>>})
    <3>1. <<f, n>> \in staleNames => <<f, n>> \in z
      BY <1>4
    <3>2. \A p \in Family \X Name :
            /\ p \in registeredNames' <=> p \in registeredNames \cup {<<f, n>>}
            /\ p \in namesInUse' <=> p \in (namesInUse \ z) \cup {<<f, n>>}
            /\ p \in staleNames' <=> p \in staleNames \ (z \cup {<<f, n>>})
      BY <2>3, <3>1
    <3>3. <<f, n>> \in Family \X Name
      BY <1>3, <1>4
    <3> HIDE DEF z, n
    <3> QED BY <3>2, <3>3, TableFacts, NextTableFacts
  <2>5. <<f, n>> \notin namesInUse \ z
    BY <2>1, <1>3, <1>4, TableFacts DEF AcquireTable
  <2>6. <<f, n>> \notin registeredNames =>
          registeredNames \cap ({f} \X Name) \subseteq namesInUse \ z
    <3>1. ~hasData(current, f, n) =>
            \A m \in Name : hasData(current, f, m) =>
              InUse(current, f, m) /\ ~Stale(current, f, m)
      BY <2>1, <1>3, <1>4, StaleFacts DEF AcquireTable, Live
    <3> QED BY <3>1, <1>3, <1>4, TableFacts
  <2>7. Promise!Grant(c, <<f, n>>, z)
    BY <2>2, <2>4, <2>5 DEF Promise!Grant
  <2>8. Promise!Acquire(c, f)
    <3>1. z \in SUBSET (staleNames \cap ({f} \X Name))
      OBVIOUS
    <3> HIDE DEF z, n
    <3>2. n \in Name
      BY <1>4 DEF n
    <3> QED BY <3>1, <3>2, <2>6, <2>7 DEF Promise!Acquire
  <2> QED BY <2>8, <1>3 DEF Promise!Next
<1> QED BY <1>5, <1>6

LEMMA TryAcquireImplements ==
  ASSUME StoreInv, FileInv, NEW c \in Client, TryAcquire(c)
  PROVE  [Promise!Next]_(Promise!vars)
<1> DEFINE f == call[c].fam
           n == call[c].name
           r == tryAcquire(working[c], f, n)
<1>1. call[c] # None /\ call[c].pc = "locked" /\ call[c].kind = "tryAcquire"
  BY DEF TryAcquire, InTransaction
<1>2. Commit(c, r.db, r.name, r.status) /\ Granted(c, r.name, r.status)
  BY DEF TryAcquire
<1>3. /\ working[c] \in Database /\ Consistent(working[c])
      /\ f \in Family /\ n \in Name
  BY <1>1, TransactionFacts
<1>4. r.name = n /\ (r.status # "ok" => r.db = working[c])
  BY <1>3, TryAcquireFacts
<1>5. r.status = "ok" =>
        /\ hasData(working[c], f, n) /\ ~InUse(working[c], f, n)
        /\ \A g \in Family, m \in Name :
             /\ hasData(r.db, g, m) <=> hasData(working[c], g, m)
             /\ InUse(r.db, g, m) <=> (InUse(working[c], g, m) \/ <<g, m>> = <<f, n>>)
             /\ Stale(r.db, g, m) <=> Stale(working[c], g, m)
  BY <1>3, TryAcquireTable
<1> HIDE DEF r
<1>6. CASE r.status # "ok"
  <2>1. path' = path /\ hold' = hold
    BY <1>2, <1>6 DEF Commit, Granted
  <2>2. working[c] = disk[call[c].file]
    BY <1>1, TransactionFacts
  <2>3. \A i \in File : disk'[i] = disk[i]
    BY <2>2, <1>1, <1>2, <1>4, <1>6, CommitFacts
  <2>4. path = None \/ disk'[path] = disk[path]
    BY <2>3 DEF StoreInv, TypeOK
  <2> QED BY <2>1, <2>4, TableFrame, HoldsFrame DEF Promise!vars
<1>7. CASE r.status = "ok" /\ call[c].file # path
  <2>1. path' = path /\ UNCHANGED <<registeredNames, namesInUse, staleNames>>
    BY <1>1, <1>2, <1>7, CommitOffPath
  <2>2. currentHolds' = currentHolds
    BY <2>1, <1>1, <1>2, <1>3, <1>4, <1>7, GrantedHolds
  <2> QED BY <2>1, <2>2 DEF Promise!vars
<1>8. CASE r.status = "ok" /\ call[c].file = path
  <2>1. path' = path /\ current = working[c] /\ current' = r.db
    BY <1>1, <1>2, <1>8, CommitOnPath
  <2>2. /\ currentHolds[c] = None
        /\ currentHolds' = [currentHolds EXCEPT ![c] = <<f, n>>]
    BY <2>1, <1>1, <1>2, <1>3, <1>4, <1>8, GrantedHolds
  <2>3. <<f, n>> \in registeredNames /\ <<f, n>> \notin namesInUse /\ <<f, n>> \notin staleNames
    BY <2>1, <1>3, <1>5, <1>8, TableFacts DEF Stale
  <2> HIDE DEF f, n
  <2>4. \A p \in Family \X Name :
          /\ p \in registeredNames' <=> p \in registeredNames
          /\ p \in namesInUse' <=> (p \in namesInUse \/ p = <<f, n>>)
          /\ p \in staleNames' <=> p \in staleNames
    BY <2>1, <1>5, <1>8, TableFacts, NextTableFacts
  <2>5. /\ registeredNames' = registeredNames \cup {<<f, n>>}
        /\ namesInUse' = (namesInUse \ {}) \cup {<<f, n>>}
        /\ staleNames' = staleNames \ ({} \cup {<<f, n>>})
    BY <2>3, <2>4, <1>3, TableFacts, NextTableFacts
  <2>6. Promise!TryAcquire(c, f, n)
    BY <2>2, <2>3, <2>5 DEF Promise!TryAcquire, Promise!Grant
  <2> QED BY <2>6, <1>3 DEF Promise!Next
<1> QED BY <1>6, <1>7, <1>8

LEMMA KeepAliveImplements ==
  ASSUME StoreInv, NEW c \in Client, KeepAlive(c)
  PROVE  [Promise!Next]_(Promise!vars)
<1> DEFINE f  == call[c].fam
           n  == call[c].name
           db == keepAlive(working[c], f, n)
<1>1. call[c] # None /\ call[c].pc = "locked" /\ call[c].kind = "keepAlive"
  BY DEF KeepAlive, InTransaction
<1>2. Commit(c, db, n, "ok")
  BY DEF KeepAlive
<1>3. working[c] \in Database /\ f \in Family /\ n \in Name
  BY <1>1, TransactionFacts
<1>4. \A g \in Family, m \in Name :
        /\ hasData(db, g, m) <=> hasData(working[c], g, m)
        /\ InUse(db, g, m) <=> InUse(working[c], g, m)
        /\ Stale(db, g, m) <=> (Stale(working[c], g, m) /\ <<g, m>> # <<f, n>>)
  BY <1>3, KeepAliveTable
<1> HIDE DEF db
<1>5. path' = path
  BY <1>1, <1>2, CommitFacts
<1>6. currentHolds' = currentHolds
  <2>1. \A d \in Client :
          \/ hold'[d] = hold[d]
          \/ /\ hold[d] # None /\ hold'[d] # None
             /\ hold'[d].fam = hold[d].fam /\ hold'[d].name = hold[d].name
             /\ hold'[d].file = hold[d].file
    <3>1. InTime(c) => hold[c] # None /\ hold[c] \in Hold
      BY DEF InTime, StoreInv, TypeOK
    <3>2. InTime(c) => [hold[c] EXCEPT !.age = 0] \in Hold
      BY <3>1, AgeFacts DEF Hold
    <3> QED BY <3>1, <3>2 DEF KeepAlive, StoreInv, TypeOK, Hold
  <2> QED BY <2>1, <1>5, HoldsFrame
<1>7. CASE call[c].file # path
  BY <1>1, <1>2, <1>6, <1>7, CommitOffPath DEF Promise!vars
<1>8. CASE call[c].file = path
  <2>1. current = working[c] /\ current' = db
    BY <1>1, <1>2, <1>8, CommitOnPath
  <2> HIDE DEF f, n
  <2>2. \A p \in Family \X Name :
          /\ p \in registeredNames' <=> p \in registeredNames
          /\ p \in namesInUse' <=> p \in namesInUse
          /\ p \in staleNames' <=> p \in staleNames \ {<<f, n>>}
    BY <2>1, <1>4, TableFacts, NextTableFacts
  <2>3. /\ registeredNames' = registeredNames
        /\ namesInUse' = namesInUse
        /\ staleNames' = staleNames \ {<<f, n>>}
    BY <2>2, TableFacts, NextTableFacts
  <2>4. Promise!KeepAlive(f, n)
    BY <2>3, <1>6 DEF Promise!KeepAlive
  <2> QED BY <2>4, <1>3 DEF Promise!Next
<1> QED BY <1>7, <1>8

LEMMA ReleaseImplements ==
  ASSUME StoreInv, NEW c \in Client, Release(c)
  PROVE  [Promise!Next]_(Promise!vars)
<1> DEFINE f  == call[c].fam
           n  == call[c].name
           db == release(working[c], f, n)
<1>1. call[c] # None /\ call[c].pc = "locked" /\ call[c].kind = "release"
  BY DEF Release, InTransaction
<1>2. Commit(c, db, n, "ok")
  BY DEF Release
<1>3. working[c] \in Database /\ f \in Family /\ n \in Name
  BY <1>1, TransactionFacts
<1>4. \A g \in Family, m \in Name :
        /\ hasData(db, g, m) <=> hasData(working[c], g, m)
        /\ InUse(db, g, m) <=> (InUse(working[c], g, m) /\ <<g, m>> # <<f, n>>)
        /\ Stale(db, g, m) <=> (Stale(working[c], g, m) /\ <<g, m>> # <<f, n>>)
  BY <1>3, ReleaseTable
<1> HIDE DEF db
<1>5. path' = path
  BY <1>1, <1>2, CommitFacts
<1>6. hold' = IF Holds(c, f, n) THEN [hold EXCEPT ![c] = None] ELSE hold
  BY DEF Release
<1>7. CASE call[c].file # path
  <2>1. UNCHANGED <<registeredNames, namesInUse, staleNames>>
    BY <1>1, <1>2, <1>7, CommitOffPath
  <2>2. currentHolds' = currentHolds \/ currentHolds' = [currentHolds EXCEPT ![c] = None]
    BY <1>5, <1>6 DEF currentHolds, StoreInv, TypeOK
  <2> QED BY <2>1, <2>2 DEF Promise!vars, Promise!Next, Promise!Crash
<1>8. CASE call[c].file = path
  <2>1. current = working[c] /\ current' = db
    BY <1>1, <1>2, <1>8, CommitOnPath
  <2>2. currentHolds' = IF currentHolds[c] = <<f, n>>
                        THEN [currentHolds EXCEPT ![c] = None]
                        ELSE currentHolds
    <3>1. \A d \in Client : d # c => hold'[d] = hold[d]
      BY <1>6 DEF StoreInv, TypeOK
    <3>2. hold'[c] = IF Holds(c, f, n) THEN None ELSE hold[c]
      BY <1>6 DEF StoreInv, TypeOK
    <3>3. Holds(c, f, n) /\ hold[c].file = path => currentHolds[c] = <<f, n>>
      BY DEF Holds, currentHolds
    <3>4. currentHolds[c] = <<f, n>> => Holds(c, f, n) \/ currentHolds[c] = None
      BY DEF Holds, currentHolds
    <3>5. currentHolds'[c] = IF currentHolds[c] = <<f, n>> THEN None ELSE currentHolds[c]
      BY <1>5, <3>2, <3>3, <3>4 DEF Holds, currentHolds
    <3>6. \A d \in Client : d # c => currentHolds'[d] = currentHolds[d]
      BY <1>5, <3>1 DEF currentHolds
    <3>7. /\ DOMAIN currentHolds = Client /\ DOMAIN currentHolds' = Client
          /\ currentHolds = [d \in DOMAIN currentHolds |-> currentHolds[d]]
          /\ currentHolds' = [d \in DOMAIN currentHolds' |-> currentHolds'[d]]
      BY DEF currentHolds
    <3> QED BY <3>5, <3>6, <3>7
  <2> HIDE DEF f, n
  <2>3. \A p \in Family \X Name :
          /\ p \in registeredNames' <=> p \in registeredNames
          /\ p \in namesInUse' <=> p \in namesInUse \ {<<f, n>>}
          /\ p \in staleNames' <=> p \in staleNames \ {<<f, n>>}
    BY <2>1, <1>4, TableFacts, NextTableFacts
  <2>4. /\ registeredNames' = registeredNames
        /\ namesInUse' = namesInUse \ {<<f, n>>}
        /\ staleNames' = staleNames \ {<<f, n>>}
    BY <2>3, TableFacts, NextTableFacts
  <2>5. Promise!Release(c, f, n)
    BY <2>2, <2>4 DEF Promise!Release
  <2> QED BY <2>5, <1>3 DEF Promise!Next
<1> QED BY <1>7, <1>8

LEMMA InitImplements == Init => Promise!Init
<1> SUFFICES ASSUME Init PROVE Promise!Init
  OBVIOUS
<1>1. registeredNames = {} /\ namesInUse = {} /\ staleNames = {}
  BY NoFileTable, EmptyTableFacts DEF Init
<1>2. currentHolds = [c \in Client |-> None]
  BY NobodyHolds DEF Init
<1> QED BY <1>1, <1>2 DEF Promise!Init

LEMMA ResetImplements ==
  ASSUME StoreInv, Reset
  PROVE  Promise!Reset
<1>1. path' = None /\ hold' = hold
  BY DEF Reset
<1>2. current' = EmptyDatabase
  BY <1>1 DEF current
<1>3. \A g \in Family, m \in Name : ~hasData(current', g, m)
  BY <1>2, EmptyTable
<1>4. registeredNames' = {} /\ namesInUse' = {} /\ staleNames' = {}
  BY <1>3 DEF registeredNames, namesInUse, staleNames, InUse
<1>5. \A c \in Client : hold'[c] # None => hold'[c].file # path'
  BY <1>1, NoneAssumption DEF StoreInv, TypeOK, Hold, File
<1>6. currentHolds' = [c \in Client |-> None]
  BY <1>5 DEF currentHolds
<1> QED BY <1>4, <1>6 DEF Promise!Reset

LEMMA TickImplements ==
  ASSUME StoreInv, Tick
  PROVE  Promise!Elapse
<1>1. path' = path
  BY DEF Tick
<1>2. currentHolds' = currentHolds
  <2>1. \A c \in Client :
          \/ hold'[c] = hold[c]
          \/ /\ hold[c] # None /\ hold'[c] # None
             /\ hold'[c].fam = hold[c].fam /\ hold'[c].name = hold[c].name
             /\ hold'[c].file = hold[c].file
    <3>1. ASSUME NEW c \in Client, hold[c] # None
          PROVE  [hold[c] EXCEPT !.age = Older(@)] \in Hold
      BY <3>1, AgeFacts DEF StoreInv, TypeOK, Hold
    <3> QED BY <3>1 DEF Tick, StoreInv, TypeOK, Hold
  <2> QED BY <2>1, <1>1, HoldsFrame
<1>3. ASSUME NEW g \in Family, NEW m \in Name
      PROVE  /\ hasData(current', g, m) <=> hasData(current, g, m)
             /\ InUse(current', g, m) <=> InUse(current, g, m)
             /\ Stale(current, g, m) => Stale(current', g, m)
  <2>1. CASE path = None
    BY <2>1, <1>1 DEF current
  <2>2. CASE path # None
    <3>1. current' = elapse(current) /\ current \in Database
      BY <2>2, <1>1 DEF current, Tick, StoreInv, TypeOK
    <3> QED BY <3>1, ElapseTable
  <2> QED BY <2>1, <2>2
<1>4. \A p \in Family \X Name :
        /\ p \in registeredNames' <=> p \in registeredNames
        /\ p \in namesInUse' <=> p \in namesInUse
        /\ p \in staleNames => p \in staleNames'
  BY <1>3, TableFacts, NextTableFacts
<1>5. registeredNames' = registeredNames /\ namesInUse' = namesInUse
  BY <1>4, TableFacts, NextTableFacts
<1>6. staleNames \subseteq staleNames' /\ staleNames' \subseteq namesInUse
  <2>1. staleNames' \subseteq namesInUse'
    BY DEF staleNames
  <2> QED BY <2>1, <1>4, <1>5, TableFacts
<1> QED BY <1>2, <1>5, <1>6 DEF Promise!Elapse

LEMMA StepImplements == StoreInv /\ FileInv /\ [Next]_vars => [Promise!Next]_(Promise!vars)
<1> SUFFICES ASSUME StoreInv, FileInv, [Next]_vars PROVE [Promise!Next]_(Promise!vars)
  OBVIOUS
<1>1. Stutters => UNCHANGED Promise!vars
  BY DEF Stutters, Promise!vars
<1>2. ASSUME NEW c \in Client, NEW f \in Family, NEW n \in Name \cup {None},
             NEW kind \in {"acquire", "tryAcquire", "keepAlive", "release"},
             Begin(c, kind, f, n)
      PROVE  UNCHANGED Promise!vars
  BY <1>1, <1>2, OpenFileStutters DEF Begin
<1>3. ASSUME NEW c \in Client, Lock(c) \/ Return(c) PROVE UNCHANGED Promise!vars
  BY <1>1, <1>3, TableFrame, HoldsFrame DEF Lock, Return, Stutters
<1>4. ASSUME NEW c \in Client, Crash(c) PROVE [Promise!Next]_(Promise!vars)
  <2>1. UNCHANGED <<registeredNames, namesInUse, staleNames>>
    BY <1>4, TableFrame DEF Crash
  <2>2. currentHolds' = [currentHolds EXCEPT ![c] = None]
    BY <1>4 DEF Crash, currentHolds, StoreInv, TypeOK
  <2> QED BY <2>1, <2>2 DEF Promise!Next, Promise!Crash
<1>5. ASSUME NEW c \in Client, List(c) PROVE UNCHANGED Promise!vars
  BY <1>1, <1>5, OpenFileStutters DEF List
<1>6. CASE Reset
  BY <1>6, ResetImplements DEF Promise!Next
<1>7. CASE Tick
  BY <1>7, TickImplements DEF Promise!Next
<1>8. CASE UNCHANGED vars
  BY <1>1, <1>8, TableFrame, HoldsFrame DEF vars, Stutters
<1> QED BY <1>2, <1>3, <1>4, <1>5, <1>6, <1>7, <1>8, AcquireImplements, TryAcquireImplements,
           KeepAliveImplements, ReleaseImplements DEF Next, Step

\* Every behaviour of the backend is one of the abstract table of names: whatever
\* calls, crashes and resets do to each other, a name is granted only while it
\* is free, and stops being in use only by a Release of it, by a Reset or, when
\* stale, by the sweep of an Acquire of its family.
THEOREM BackendKeepsPromise == Spec => ImplementsPromise
<1>1. Init => StoreInv /\ FileInv
  BY StoreInvInit, FileInvInit
<1>2. StoreInv /\ FileInv /\ [Next]_vars => (StoreInv /\ FileInv)'
  BY StoreInvNext, FileInvNext
<1> QED BY <1>1, <1>2, InitImplements, StepImplements, PTL
        DEF Spec, ImplementsPromise, Promise!Spec
=============================================================================
