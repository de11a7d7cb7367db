-------------------------- MODULE FirestoreBackend --------------------------
(***************************************************************************)
(* Clients that share one Firestore backend                                *)
(* (pkg/firestore_backend/firestore_backend.go).  The database has one     *)
(* document per family, with the number of its names, and one per name,    *)
(* with a flag for the free ones.  Firestore stamps every write of a       *)
(* document with its UpdateTime.                                           *)
(*                                                                         *)
(* A function passed to RunTransaction is one atomic step.  The rest is    *)
(* not: an Acquire first walks over the documents and releases zombies in  *)
(* transactions of their own, and Reset deletes one document at a time.    *)
(* Each Documents query of these walks is answered from one snapshot.      *)
(*                                                                         *)
(* KeepAlive, Release and TryAcquire are one transaction each.  One that   *)
(* fails changed nothing; an acquisition whose outcome never reached its   *)
(* client is one whose client dies right after it.                         *)
(*                                                                         *)
(* hold and misreleased are history variables.  A Reset voids every hold.  *)
(***************************************************************************)
EXTENDS Integers

CONSTANTS
  Family,            \* the name families
  Client,            \* the client processes
  None,              \* the absent value (a document that does not exist)
  MaxNames,          \* bound: names a family can hand out
  MaxTime,           \* bound: the last instant of the clock
  AutoReleaseAfter,  \* options.autoReleaseAfter in ticks; 0 disables it
  Strays,            \* whether clients also release or keep alive names they do not hold
  Resets             \* whether clients call Reset

ASSUME MaxNamesAssumption == MaxNames \in Nat \ {0}
ASSUME MaxTimeAssumption == MaxTime \in Nat
ASSUME AutoReleaseAssumption == AutoReleaseAfter \in Nat
ASSUME SwitchesAssumption == Strays \in BOOLEAN /\ Resets \in BOOLEAN

Name == 0 .. MaxNames - 1
Time == 0 .. MaxTime

VARIABLES
  now,         \* the clock
  count,       \* families/{family}: the number of its names
  doc,         \* families/{family}/names/{name}: free and UpdateTime
  call,        \* the Acquire or Reset in progress of each client
  hold,        \* history: the name each client believes it holds
  misreleased  \* history: a client released a name another one held in time

vars == <<now, count, doc, call, hold, misreleased>>

Doc == [free : BOOLEAN, updated : Time]

\* A call walks over families (those left to visit) and, of the one it is at,
\* over todo (the names left to release or delete).  An Acquire is for fam; it
\* compares UpdateTimes with asOf, its time.Now().
Call == [kind     : {"acquire", "reset"},
         fam      : Family,
         pc       : {"list", "walk", "names", "tx"},
         families : SUBSET Family,
         at       : Family,
         todo     : SUBSET Name,
         asOf     : Time]

\* seen: its last sign of life in time; calm: no walk had already listed the
\* name as a zombie when it was granted.
Hold == [fam : Family, name : Name, seen : Time, calm : BOOLEAN]

ASSUME NoneIsNoRecord == None \notin Nat \cup Doc \cup Call \cup Hold

TypeOK ==
  /\ now \in Time
  /\ count \in [Family -> 0 .. MaxNames \cup {None}]
  /\ doc \in [Family -> [Name -> Doc \cup {None}]]
  /\ call \in [Client -> Call \cup {None}]
  /\ hold \in [Client -> Hold \cup {None}]
  /\ misreleased \in BOOLEAN

Init ==
  /\ now = 0
  /\ count = [f \in Family |-> None]
  /\ doc = [f \in Family |-> [n \in Name |-> None]]
  /\ call = [c \in Client |-> None]
  /\ hold = [c \in Client |-> None]
  /\ misreleased = FALSE

-----------------------------------------------------------------------------

Exists(f, n) == doc[f][n] # None

Free(f, n) == Exists(f, n) /\ doc[f][n].free

InUse(f, n) == Exists(f, n) /\ ~doc[f][n].free

Holds(c, f, n) == hold[c] # None /\ hold[c].fam = f /\ hold[c].name = n

\* The hold of c has not been without a sign of life for too long.
InTime(c) ==
  /\ hold[c] # None
  /\ AutoReleaseAfter = 0 \/ now - hold[c].seen <= AutoReleaseAfter

\* tx.Set on the document of a name.
Set(f, n, free) ==
  doc' = [doc EXCEPT ![f][n] = [free |-> free, updated |-> now]]

Idle(c) == call[c] = None

\* c's own name or, with Strays, any name while c holds none.
MayName(c, f, n) == Holds(c, f, n) \/ (Strays /\ hold[c] = None)

\* A walk on behalf of an Acquire of f is about to release n as a zombie.
Listed(f, n) ==
  \E d \in Client : call[d] # None /\ call[d].kind = "acquire" /\ call[d].fam = f
                    /\ n \in call[d].todo

\* c is granted a name and holds it from now on.
Granted(c, f, n) ==
  /\ hold' = [hold EXCEPT ![c] = [fam |-> f, name |-> n, seen |-> now,
                                  calm |-> ~Listed(f, n)]]
  /\ UNCHANGED <<now, misreleased>>

-----------------------------------------------------------------------------
(* The calls of one transaction. *)

\* Mutant of Refused: a name that does not exist is not refused.
RefusedInUse(f, n) == InUse(f, n)

\* ErrNotExist and ErrInUse.
Refused(f, n) == ~Exists(f, n) \/ InUse(f, n)

TryAcquire(c, f, n) ==
  /\ Idle(c)
  /\ hold[c] = None
  /\ ~Refused(f, n)
  /\ Set(f, n, FALSE)
  /\ Granted(c, f, n)
  /\ UNCHANGED <<count, call>>

KeepsAlive(f, n) == InUse(f, n)

\* A sign of life that comes too late succeeds like any other, but it does not
\* make the hold of c in time again.
KeepAlive(c, f, n) ==
  /\ Idle(c)
  /\ MayName(c, f, n)
  /\ IF KeepsAlive(f, n) THEN Set(f, n, FALSE) ELSE UNCHANGED doc
  /\ hold' = IF InTime(c) THEN [hold EXCEPT ![c].seen = now] ELSE hold
  /\ UNCHANGED <<now, count, call, misreleased>>

\* Mutant of release: the existence of the document is not checked.
releaseAnyway(f, n) == Set(f, n, TRUE)

release(f, n) == IF Exists(f, n) THEN Set(f, n, TRUE) ELSE UNCHANGED doc

Release(c, f, n) ==
  /\ Idle(c)
  /\ MayName(c, f, n)
  /\ release(f, n)
  /\ misreleased' = (misreleased \/ \E d \in Client \ {c} : InTime(d) /\ Holds(d, f, n))
  /\ hold' = [hold EXCEPT ![c] = None]
  /\ UNCHANGED <<now, count, call>>

-----------------------------------------------------------------------------
(* Acquire: the walk of releaseZombies, then the transaction. *)

Goes(c, pc) == call' = [call EXCEPT ![c].pc = pc]

At(c, kind, pc) == call[c] # None /\ call[c].kind = kind /\ call[c].pc = pc

StartedCall(kind, f, pc) ==
  [kind |-> kind, fam |-> f, pc |-> pc, families |-> {}, at |-> f, todo |-> {}, asOf |-> now]

\* Mutant of StartAcquire: zombies are never released.
StartAcquireNoWalk(c, f) ==
  /\ Idle(c)
  /\ hold[c] = None
  /\ call' = [call EXCEPT ![c] = StartedCall("acquire", f, "tx")]
  /\ UNCHANGED <<now, count, doc, hold, misreleased>>

StartAcquire(c, f) ==
  /\ Idle(c)
  /\ hold[c] = None
  /\ call' = [call EXCEPT ![c] =
       StartedCall("acquire", f, IF AutoReleaseAfter > 0 THEN "list" ELSE "tx")]
  /\ UNCHANGED <<now, count, doc, hold, misreleased>>

\* The query for the families; those without a document are not returned.
ListFamilies(c) ==
  /\ call[c] # None
  /\ call[c].pc = "list"
  /\ call' = [call EXCEPT ![c].pc = "walk",
                          ![c].families = {f \in Family : count[f] # None}]
  /\ UNCHANGED <<now, count, doc, hold, misreleased>>

\* Mutant of Zombies: a name exactly autoReleaseAfter old is swept.
ZombiesEarly(c, g) ==
  {n \in Name : Exists(g, n) /\ call[c].asOf - doc[g][n].updated >= AutoReleaseAfter}

\* The names of family g that are too old for c's Acquire, the free ones too.
Zombies(c, g) ==
  {n \in Name : Exists(g, n) /\ call[c].asOf - doc[g][n].updated > AutoReleaseAfter}

\* The query for the names of the next family.  Zombies and names to delete are
\* chosen from this snapshot.
ListNames(c) ==
  /\ call[c] # None
  /\ call[c].pc = "walk"
  /\ \E g \in call[c].families :
       call' = [call EXCEPT
         ![c].pc = "names", ![c].at = g, ![c].families = @ \ {g},
         ![c].todo = IF call[c].kind = "reset" THEN {n \in Name : Exists(g, n)}
                                               ELSE Zombies(c, g)]
  /\ UNCHANGED <<now, count, doc, hold, misreleased>>

\* A transaction of its own releases the next zombie, without a second look at
\* its UpdateTime.  The name comes from the family the walk is at, but what is
\* released is that name of the family of the Acquire.
ReleaseZombie(c) ==
  /\ At(c, "acquire", "names")
  /\ \E n \in call[c].todo :
       /\ release(call[c].fam, n)
       /\ call' = [call EXCEPT ![c].todo = @ \ {n}]
  /\ UNCHANGED <<now, count, hold, misreleased>>

NextFamily(c) ==
  /\ At(c, "acquire", "names")
  /\ call[c].todo = {}
  /\ Goes(c, "walk")
  /\ UNCHANGED <<now, count, doc, hold, misreleased>>

EndWalk(c) ==
  /\ At(c, "acquire", "walk")
  /\ call[c].families = {}
  /\ Goes(c, "tx")
  /\ UNCHANGED <<now, count, doc, hold, misreleased>>

\* The query for a free name may return any of them.
AcquireFree(c) ==
  /\ At(c, "acquire", "tx")
  /\ \E n \in Name :
       /\ Free(call[c].fam, n)
       /\ Set(call[c].fam, n, FALSE)
       /\ Granted(c, call[c].fam, n)
  /\ call' = [call EXCEPT ![c] = None]
  /\ UNCHANGED count

\* familyD.Count, 0 when there is no document.
counted(f) == IF count[f] = None THEN 0 ELSE count[f]

NoFreeName(f) == \A n \in Name : ~Free(f, n)

\* Mutant of Count: the family document is only written when it is created.
CountOnce(f, n) == count' = [count EXCEPT ![f] = IF @ = None THEN n ELSE @]

\* Mutant of Count: the count is incremented once more.
CountTwice(f, n) == count' = [count EXCEPT ![f] = n + 1]

Count(f, n) == count' = [count EXCEPT ![f] = n]

\* The document of the new name is written whether it exists or not.
AcquireNew(c) ==
  /\ At(c, "acquire", "tx")
  /\ NoFreeName(call[c].fam)
  /\ \E n \in {counted(call[c].fam)} \cap Name :
       /\ Set(call[c].fam, n, FALSE)
       /\ Count(call[c].fam, n + 1)
       /\ Granted(c, call[c].fam, n)
  /\ call' = [call EXCEPT ![c] = None]

-----------------------------------------------------------------------------
(* Reset: the same walk, deleting document after document. *)

VoidHolds == hold' = [c \in Client |-> None]

StartReset(c) ==
  /\ Resets
  /\ Idle(c)
  /\ \E f \in Family : call' = [call EXCEPT ![c] = StartedCall("reset", f, "list")]
  /\ VoidHolds
  /\ UNCHANGED <<now, count, doc, misreleased>>

DeleteName(c) ==
  /\ At(c, "reset", "names")
  /\ \E n \in call[c].todo :
       /\ doc' = [doc EXCEPT ![call[c].at][n] = None]
       /\ call' = [call EXCEPT ![c].todo = @ \ {n}]
  /\ VoidHolds
  /\ UNCHANGED <<now, count, misreleased>>

DeleteFamily(c) ==
  /\ At(c, "reset", "names")
  /\ call[c].todo = {}
  /\ count' = [count EXCEPT ![call[c].at] = None]
  /\ Goes(c, "walk")
  /\ VoidHolds
  /\ UNCHANGED <<now, doc, misreleased>>

EndReset(c) ==
  /\ At(c, "reset", "walk")
  /\ call[c].families = {}
  /\ call' = [call EXCEPT ![c] = None]
  /\ VoidHolds
  /\ UNCHANGED <<now, count, doc, misreleased>>

-----------------------------------------------------------------------------

\* A call of c fails and returns its error, or the process of c dies: the walk
\* stops where it is.  Only a process that dies loses its name.
Fail(c) ==
  /\ call[c] # None
  /\ call' = [call EXCEPT ![c] = None]
  /\ UNCHANGED <<now, count, doc, hold, misreleased>>

Crash(c) ==
  /\ hold[c] # None
  /\ hold' = [hold EXCEPT ![c] = None]
  /\ call' = [call EXCEPT ![c] = None]
  /\ UNCHANGED <<now, count, doc, misreleased>>

Tick ==
  /\ now < MaxTime
  /\ now' = now + 1
  /\ UNCHANGED <<count, doc, call, hold, misreleased>>

Next ==
  \/ \E c \in Client :
       \/ \E f \in Family, n \in Name :
            TryAcquire(c, f, n) \/ KeepAlive(c, f, n) \/ Release(c, f, n)
       \/ \E f \in Family : StartAcquire(c, f)
       \/ ListFamilies(c)
       \/ ListNames(c)
       \/ ReleaseZombie(c)
       \/ NextFamily(c)
       \/ EndWalk(c)
       \/ AcquireFree(c)
       \/ AcquireNew(c)
       \/ StartReset(c)
       \/ DeleteName(c)
       \/ DeleteFamily(c)
       \/ EndReset(c)
       \/ Fail(c)
       \/ Crash(c)
  \/ Tick

Spec == Init /\ [][Next]_vars

-----------------------------------------------------------------------------
(* Properties. *)

\* The count of a family is the first name it does not have, so that the name
\* an Acquire makes of it is new (without resets).
CountIsNext ==
  \A f \in Family, n \in Name : Exists(f, n) <=> n < counted(f)

SameName(c, d) == hold[c].fam = hold[d].fam /\ hold[c].name = hold[d].name

\* "A given name cannot be acquired twice for the same family without having
\* been released first": two clients that keep their names alive in time never
\* hold the same one, as long as nobody releases another's name.
LeaseExclusive ==
  ~misreleased =>
    \A c, d \in Client : c # d /\ InTime(c) /\ InTime(d) => ~SameName(c, d)

Backed(c) ==
  LET h == hold[c]
  IN  InUse(h.fam, h.name) /\ doc[h.fam][h.name].updated >= h.seen

\* The name of a client that is in time is in use and not older than its last
\* sign of life, except when a walk had it on its list before it was granted:
\* that is the only way, with a single family, for a live name to be swept.
CalmLeaseBacked ==
  ~misreleased => \A c \in Client : InTime(c) /\ hold[c].calm => Backed(c)

\* The exclusion that is left when no walk had the names on its list.
CalmLeaseExclusive ==
  ~misreleased =>
    \A c, d \in Client :
      c # d /\ InTime(c) /\ InTime(d) /\ hold[c].calm /\ hold[d].calm => ~SameName(c, d)

NewHolder(f, n) ==
  \E c \in Client : hold[c] = None /\ hold'[c] # None
                    /\ hold'[c].fam = f /\ hold'[c].name = n

\* Only an acquisition creates the document of a name or takes a free name out
\* of the free ones.  A late KeepAlive, Release or walk does not bring back a
\* name that was released, swept or deleted by a concurrent Reset.
OnlyGrants ==
  [][\A f \in Family, n \in Name :
       \/ ~Exists(f, n) /\ doc'[f][n] # None
       \/ Free(f, n) /\ doc'[f][n] # None /\ ~doc'[f][n].free
       => NewHolder(f, n)]_vars

\* "Reused as much as possible": a family gets a new name only when every other
\* name it counts shows a sign of life that was recent when the Acquire began.
\* (A name that a Reset left behind without its count is not found by a walk.)
ReuseFirst ==
  [][\A c \in Client :
       LET f == call[c].fam
       IN  AcquireNew(c) =>
             \A n \in Name : Exists(f, n) /\ n < counted(f) =>
               /\ InUse(f, n)
               /\ AutoReleaseAfter > 0 =>
                    call[c].asOf - doc[f][n].updated <= AutoReleaseAfter]_vars

-----------------------------------------------------------------------------
(* Without auto-release and resets the backend keeps the promise of          *)
(* NameManager.                                                              *)

registeredNames == {p \in Family \X Name : Exists(p[1], p[2])}

namesInUse == {p \in Family \X Name : InUse(p[1], p[2])}

currentHolds ==
  [c \in Client |-> IF hold[c] = None THEN None ELSE <<hold[c].fam, hold[c].name>>]

Promise == INSTANCE NameManager
  WITH registered <- registeredNames, inUse <- namesInUse, stale <- {},
       holds <- currentHolds, ReusesFirst <- TRUE

\* Every behaviour is one of the abstract table of names: names are granted only
\* while free and stop being in use only by Release.
ImplementsPromise == Promise!Spec
=============================================================================
