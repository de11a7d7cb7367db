---------------------------- MODULE LocalBackend ----------------------------
(***************************************************************************)
(* Client processes that share one local backend through its database      *)
(* file.  Each call opens the file (creating it if Reset removed it),      *)
(* waits for the exclusive file lock Bolt takes, runs one transaction of   *)
(* LocalStore and closes the file.  Reset is the exception: it unlinks the *)
(* file without opening or locking it, so a call that has already opened   *)
(* the file goes on with a file nobody else will ever open.  A process may *)
(* die at any point; the kernel then drops its lock, and Bolt the          *)
(* transaction if it was not committed.                                    *)
(*                                                                         *)
(* A transaction starts from what it reads of the file (working) and ends  *)
(* by writing its result back whole: only the lock keeps two of them from  *)
(* overwriting each other.                                                 *)
(*                                                                         *)
(* hold and misreleased are history variables.  hold[c] is the name client *)
(* c believes it has, the file it was granted from, and the age of its     *)
(* last successful sign of life.                                           *)
(***************************************************************************)
EXTENDS LocalStore

CONSTANTS
  Client,    \* the client processes
  MaxFiles,  \* bound: files ever created at the path, one more than resets
  Strays     \* whether clients also release or keep alive names they do not hold

ASSUME MaxFilesAssumption == MaxFiles \in Nat \ {0}
ASSUME StraysAssumption == Strays \in BOOLEAN

VARIABLES
  path,        \* the file the path names, None once it is removed
  created,     \* number of files created so far
  disk,        \* contents of each file
  call,        \* call in progress of each client
  working,     \* what the transaction of each client works on
  hold,        \* history: the name each client believes it holds
  misreleased  \* history: a client released a name another one held in time

vars == <<path, created, disk, call, working, hold, misreleased>>

File == 1 .. MaxFiles

Call == [kind   : {"acquire", "tryAcquire", "keepAlive", "release"},
         fam    : Family,
         name   : Name \cup {None},
         file   : File,
         pc     : {"opened", "locked", "committed"},
         status : {"pending", "ok", "ErrInUse", "ErrNotExist", "inconsistent"}]

Hold == [fam : Family, name : Name, file : File, age : Age]

ASSUME NoneIsNoRecord == None \notin Call \cup Hold \cup Database

TypeOK ==
  /\ path \in File \cup {None}
  /\ created \in 0 .. MaxFiles
  /\ disk \in [File -> Database]
  /\ call \in [Client -> Call \cup {None}]
  /\ working \in [Client -> Database \cup {None}]
  /\ hold \in [Client -> Hold \cup {None}]
  /\ misreleased \in BOOLEAN

Init ==
  /\ path = None
  /\ created = 0
  /\ disk = [i \in File |-> EmptyDatabase]
  /\ call = [c \in Client |-> None]
  /\ working = [c \in Client |-> None]
  /\ hold = [c \in Client |-> None]
  /\ misreleased = FALSE

-----------------------------------------------------------------------------

Holds(c, f, n) == hold[c] # None /\ hold[c].fam = f /\ hold[c].name = n

\* The hold of c has not been without a sign of life for too long.
InTime(c) ==
  /\ hold[c] # None
  /\ AutoReleaseAfter = 0 \/ hold[c].age <= AutoReleaseAfter

\* The name of c's call, in the file the call works on, is the one d holds.
HoldsTarget(d, c) ==
  /\ Holds(d, call[c].fam, call[c].name)
  /\ hold[d].file = call[c].file

\* The calls the interface lets c make next.
MayCall(c, kind, f, n) ==
  \/ /\ kind = "acquire"
     /\ hold[c] = None
     /\ n = None
  \/ /\ kind = "tryAcquire"
     /\ hold[c] = None
     /\ n \in Name
  \/ /\ kind \in {"keepAlive", "release"}
     /\ Holds(c, f, n)
  \/ /\ kind \in {"keepAlive", "release"}
     /\ Strays
     /\ hold[c] = None
     /\ n \in Name

\* Mutant of OpenFile: the file Reset removed is found again.
OpenFileAgain(i) ==
  /\ i = IF path # None THEN path ELSE IF created > 0 THEN created ELSE 1
  /\ path' = i
  /\ created' = IF created = 0 THEN 1 ELSE created

\* bolt.Open opens the file at the path, creating it if need be.
OpenFile(i) ==
  \/ /\ path # None
     /\ i = path
     /\ UNCHANGED <<path, created>>
  \/ /\ path = None
     /\ i = created + 1
     /\ path' = i
     /\ created' = i

\* A call begins: the file is open, its lock not yet taken.
Begin(c, kind, f, n) ==
  /\ call[c] = None
  /\ MayCall(c, kind, f, n)
  /\ \E i \in File :
       /\ OpenFile(i)
       /\ call' = [call EXCEPT ![c] = [kind |-> kind, fam |-> f, name |-> n, file |-> i,
                                       pc |-> "opened", status |-> "pending"]]
  /\ UNCHANGED <<disk, working, hold, misreleased>>

HasLock(c) == call[c] # None /\ call[c].pc \in {"locked", "committed"}

LockFree(i) == \A c \in Client : HasLock(c) => call[c].file # i

\* Mutant of Lock: the file is opened with a shared lock.
LockShared(c) ==
  /\ call[c] # None
  /\ call[c].pc = "opened"
  /\ call' = [call EXCEPT ![c].pc = "locked"]
  /\ working' = [working EXCEPT ![c] = disk[call[c].file]]
  /\ UNCHANGED <<path, created, disk, hold, misreleased>>

\* bolt.Open returns once the exclusive lock on the open file is granted; the
\* transaction reads the file after that.
Lock(c) ==
  /\ call[c] # None
  /\ call[c].pc = "opened"
  /\ LockFree(call[c].file)
  /\ call' = [call EXCEPT ![c].pc = "locked"]
  /\ working' = [working EXCEPT ![c] = disk[call[c].file]]
  /\ UNCHANGED <<path, created, disk, hold, misreleased>>

InTransaction(c, kind) ==
  /\ call[c] # None
  /\ call[c].pc = "locked"
  /\ call[c].kind = kind

\* The transaction of c leaves its file as db, and the call with this outcome.
Commit(c, db, name, status) ==
  /\ disk' = [disk EXCEPT ![call[c].file] = db]
  /\ working' = [working EXCEPT ![c] = None]
  /\ call' = [call EXCEPT ![c].pc = "committed", ![c].name = name, ![c].status = status]
  /\ UNCHANGED <<path, created>>

\* An acquisition that succeeds makes c a holder.
Granted(c, name, status) ==
  /\ hold' = IF status = "ok"
             THEN [hold EXCEPT ![c] = [fam |-> call[c].fam, name |-> name,
                                       file |-> call[c].file, age |-> 0]]
             ELSE hold
  /\ UNCHANGED misreleased

Acquire(c) ==
  /\ InTransaction(c, "acquire")
  /\ \E r \in acquire(working[c], call[c].fam) :
       /\ Commit(c, r.db, r.name, r.status)
       /\ Granted(c, r.name, r.status)

TryAcquire(c) ==
  /\ InTransaction(c, "tryAcquire")
  /\ LET r == tryAcquire(working[c], call[c].fam, call[c].name)
     IN  /\ Commit(c, r.db, r.name, r.status)
         /\ Granted(c, r.name, r.status)

\* A sign of life that comes too late succeeds like any other: the code cannot
\* tell whose name it refreshes.  It does not make the hold of c in time again.
KeepAlive(c) ==
  /\ InTransaction(c, "keepAlive")
  /\ Commit(c, keepAlive(working[c], call[c].fam, call[c].name), call[c].name, "ok")
  /\ hold' = IF InTime(c) /\ HoldsTarget(c, c) THEN [hold EXCEPT ![c].age = 0] ELSE hold
  /\ UNCHANGED misreleased

Release(c) ==
  /\ InTransaction(c, "release")
  /\ Commit(c, release(working[c], call[c].fam, call[c].name), call[c].name, "ok")
  /\ misreleased' = (misreleased \/ \E d \in Client \ {c} : InTime(d) /\ HoldsTarget(d, c))
  /\ hold' = IF Holds(c, call[c].fam, call[c].name) THEN [hold EXCEPT ![c] = None] ELSE hold

\* Mutant of Return: only calls that succeed close the database.
ReturnIfOk(c) ==
  /\ call[c] # None
  /\ call[c].pc = "committed"
  /\ call[c].status = "ok"
  /\ call' = [call EXCEPT ![c] = None]
  /\ UNCHANGED <<path, created, disk, working, hold, misreleased>>

\* db.Close drops the lock and the call returns to its caller.
Return(c) ==
  /\ call[c] # None
  /\ call[c].pc = "committed"
  /\ call' = [call EXCEPT ![c] = None]
  /\ UNCHANGED <<path, created, disk, working, hold, misreleased>>

\* The process of c dies, whatever it was doing; a new one takes its place.
Crash(c) ==
  /\ call[c] # None \/ hold[c] # None
  /\ call' = [call EXCEPT ![c] = None]
  /\ working' = [working EXCEPT ![c] = None]
  /\ hold' = [hold EXCEPT ![c] = None]
  /\ UNCHANGED <<path, created, disk, misreleased>>

\* List opens the file like every call, and so may create it; it reads only.
List(c) ==
  /\ call[c] = None
  /\ path = None
  /\ \E i \in File : OpenFile(i)
  /\ UNCHANGED <<disk, call, working, hold, misreleased>>

\* os.Remove on the path: no lock, and no error if there is no file.
Reset ==
  /\ path # None
  /\ created < MaxFiles
  /\ path' = None
  /\ UNCHANGED <<created, disk, call, working, hold, misreleased>>

Tick ==
  /\ disk' = [i \in File |-> elapse(disk[i])]
  /\ working' = [c \in Client |-> IF working[c] = None THEN None ELSE elapse(working[c])]
  /\ hold' = [c \in Client |->
                IF hold[c] = None THEN None ELSE [hold[c] EXCEPT !.age = Older(@)]]
  /\ UNCHANGED <<path, created, call, misreleased>>

Step(c) ==
  \/ Lock(c)
  \/ Acquire(c)
  \/ TryAcquire(c)
  \/ KeepAlive(c)
  \/ Release(c)
  \/ Return(c)

Next ==
  \/ \E c \in Client, f \in Family, n \in Name \cup {None},
        kind \in {"acquire", "tryAcquire", "keepAlive", "release"} : Begin(c, kind, f, n)
  \/ \E c \in Client : Step(c)
  \/ \E c \in Client : Crash(c) \/ List(c)
  \/ Reset
  \/ Tick

Spec == Init /\ [][Next]_vars

\* Time passes, and a process that does not die goes on with its call.  Bolt
\* polls for the file lock, so nothing stronger holds of Lock: a waiting
\* process may lose every race for it.  Clients are free never to call again.
Fairness ==
  /\ WF_vars(Tick)
  /\ \A c \in Client : WF_vars(Step(c))

FairSpec == Spec /\ Fairness

-----------------------------------------------------------------------------
(* Properties. *)

\* The three buckets agree with each other in every file, whatever mixture of
\* calls, crashes and resets wrote them: acquire never meets an inconsistent
\* database, removeFreeName never panics, a new name is new.
StoreConsistent == \A i \in File : Consistent(disk[i])

\* A transaction works on the latest contents of its file until it commits, so
\* writing its result back loses no other transaction.
Isolated ==
  \A c \in Client : working[c] # None => working[c] = disk[call[c].file]

SameName(c, d) ==
  /\ hold[c].fam = hold[d].fam
  /\ hold[c].name = hold[d].name
  /\ hold[c].file = hold[d].file

\* "A given name cannot be acquired twice": two clients that keep their names
\* alive in time never hold the same one.  The code has no way to tell holders
\* apart, so this is only promised while nobody releases another's name.
LeaseExclusive ==
  ~misreleased =>
    \A c, d \in Client : c # d /\ InTime(c) /\ InTime(d) => ~SameName(c, d)

Backed(c) ==
  LET h  == hold[c]
      db == disk[h.file]
  IN  /\ InUse(db, h.fam, h.name)
      /\ AutoReleaseAfter > 0 => db.data[h.fam][h.name] <= h.age

\* The database sees a client that is in time as the live user of its name:
\* List and TryAcquire report the name in use, no sweep may take it.
LeaseBacked == ~misreleased => \A c \in Client : InTime(c) => Backed(c)

\* "Previously acquired names, now released, are reused as much as possible": a
\* family gets a new name only when all it has are in use and not abandoned.
ReuseFirst ==
  [][\A i \in File, f \in Family :
       disk'[i].counter[f] # disk[i].counter[f] =>
         \A n \in Name : hasData(disk[i], f, n) => Live(disk[i], f, n)]_vars

-----------------------------------------------------------------------------
(* The local backend keeps the promise of NameManager: the table of names is *)
(* the file at the path, or empty when there is none.                        *)

current == IF path = None THEN EmptyDatabase ELSE disk[path]

registeredNames == {p \in Family \X Name : hasData(current, p[1], p[2])}

namesInUse == {p \in Family \X Name : InUse(current, p[1], p[2])}

staleNames ==
  {p \in namesInUse : AutoReleaseAfter > 0 /\ current.data[p[1]][p[2]] > AutoReleaseAfter}

\* Who has which name of that file; the names of a removed file are void.
currentHolds ==
  [c \in Client |-> IF hold[c] # None /\ hold[c].file = path
                    THEN <<hold[c].fam, hold[c].name>>
                    ELSE None]

Promise == INSTANCE NameManager
  WITH registered <- registeredNames, inUse <- namesInUse, stale <- staleNames,
       holds <- currentHolds, ReusesFirst <- TRUE

\* Every behaviour of the backend is one of the abstract table of names: names
\* are granted only while free, and stop being in use only by Release, Reset or,
\* when stale, by the sweep of an Acquire of their own family.
ImplementsPromise == Promise!Spec

-----------------------------------------------------------------------------
(* Liveness. *)

Refreshes(c, f, n) ==
  call[c] # None /\ call[c].kind = "keepAlive" /\ call[c].fam = f /\ call[c].name = n

\* In use in the file at the path, with nobody who would keep it alive: a client
\* whose name a Reset removed still does, and refreshes its namesake.
Abandoned(f, n) ==
  /\ <<f, n>> \in namesInUse
  /\ \A c \in Client : ~Holds(c, f, n) /\ ~Refreshes(c, f, n)

AcquiredFrom(f) == \E c \in Client : Acquire(c) /\ call[c].fam = f

\* A name whose holder died comes back into use as long as its family is used:
\* the automatic release works.
ZombieReclaimed ==
  \A f \in Family :
    []<><<AcquiredFrom(f)>>_vars => \A n \in Name : Abandoned(f, n) ~> ~Abandoned(f, n)

Waiting(i) == \E c \in Client : call[c] # None /\ call[c].pc = "opened" /\ call[c].file = i

\* The lock of a file is not lost: not by an error return, not by a death.  If
\* calls wait for it, it is free again and again until none of them waits.
LockComesBack ==
  \A i \in File : Waiting(i) ~> (~Waiting(i) \/ LockFree(i))
=============================================================================
