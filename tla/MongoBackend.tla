---------------------------- MODULE MongoBackend ----------------------------
(***************************************************************************)
(* Clients that share one MongoDB backend                                  *)
(* (pkg/mongo_backend/mongo_backend.go).  There is no transaction: every   *)
(* call is a sequence of operations on single documents, and the calls of  *)
(* the clients interleave between any two of them.  What keeps a name from *)
(* being acquired twice is that the _id of a lease is unique.              *)
(*                                                                         *)
(* The dates that operations carry are read by the clients, from one       *)
(* perfect clock, before the operation is sent; it is applied at any later *)
(* time.  So a lease may be older than the moment it comes into being, and *)
(* a KeepAlive may set its lastHeartBeatDate back.                         *)
(*                                                                         *)
(* A call may fail at any operation and its process may die there; what it *)
(* has done so far stays.  An operation that is applied after its caller   *)
(* gave up on it is the operation of another client, which goes on from    *)
(* there to fail.                                                          *)
(*                                                                         *)
(* hold and misreleased are history variables.  A Reset voids every hold.  *)
(***************************************************************************)
EXTENDS Integers, Sequences, TLC

CONSTANTS
  Family,            \* the name families, strings
  Client,            \* the client processes
  None,              \* the absent value; as a name, the empty string
  Name,              \* bound: the names in play
  MaxTime,           \* bound: the last instant of the clock
  AutoReleaseAfter,  \* options.autoReleaseAfter in ticks; 0 disables it
  Strays,            \* whether clients also release or keep alive names they do not hold
  Resets,            \* whether clients call Reset
  CounterFaults      \* whether the update of a counter may fail

ASSUME FamilyAssumption == Family \subseteq STRING
ASSUME NameAssumption == Name \subseteq Nat
ASSUME MaxTimeAssumption == MaxTime \in Nat
ASSUME AutoReleaseAssumption == AutoReleaseAfter \in Nat
ASSUME SwitchesAssumption ==
  Strays \in BOOLEAN /\ Resets \in BOOLEAN /\ CounterFaults \in BOOLEAN

Time == 0 .. MaxTime

\* The prefix that all ids share is left out.  Nothing separates the family
\* from the name: "s" and 10 have the id of "s1" and 0.
leaseId(f, n) == f \o ToString(n)

LeaseIds == {leaseId(f, n) : f \in Family, n \in Name}

VARIABLES
  now,         \* the clock
  data,        \* collection data: the registered names of each family
  lease,       \* collection leasedNames, by _id
  counter,     \* collection counters: the values of the documents of each family
  call,        \* call in progress of each client
  hold,        \* history: the name each client believes it holds
  misreleased  \* history: a client deleted a lease another one was using

vars == <<now, data, lease, counter, call, hold, misreleased>>

Lease == [fam : Family, beat : Time]

\* todo: the names the loop of Acquire has not tried yet; taken: whether it met a
\* duplicate key, and err is no longer nil; asOf: the date the call read last, while it
\* needs it; calm: no TryAcquire that could still delete the lease was under way when
\* it got it, no KeepAlive has set it back, and no Reset has run through the call.
Call == [kind  : {"acquire", "tryAcquire", "keepAlive", "reset"},
         fam   : Family,
         name  : Name \cup {None},
         pc    : {"sweep", "find", "loop", "leaseOld", "upsert", "counted", "lease",
                  "register", "swept", "tryLease", "lookup", "unlease", "beat",
                  "dropData", "dropLeases", "dropCounters"},
         todo  : SUBSET Name,
         taken : BOOLEAN,
         asOf  : Time,
         calm  : BOOLEAN]

\* seen: the date of its last sign of life in time; calm: as in the call that got
\* the name.
Hold == [fam : Family, name : Name \cup {None}, seen : Time, calm : BOOLEAN]

ASSUME NoneIsNoRecord == None \notin Nat \cup Lease \cup Call \cup Hold

TypeOK ==
  /\ now \in Time
  /\ data \in [Family -> SUBSET Name]
  /\ lease \in [LeaseIds -> Lease \cup {None}]
  /\ counter \in [Family -> Seq(Nat)]
  /\ call \in [Client -> Call \cup {None}]
  /\ hold \in [Client -> Hold \cup {None}]
  /\ misreleased \in BOOLEAN

Init ==
  /\ now = 0
  /\ data = [f \in Family |-> {}]
  /\ lease = [id \in LeaseIds |-> None]
  /\ counter = [f \in Family |-> <<>>]
  /\ call = [c \in Client |-> None]
  /\ hold = [c \in Client |-> None]
  /\ misreleased = FALSE

-----------------------------------------------------------------------------

Holds(c, f, n) == hold[c] # None /\ hold[c].fam = f /\ hold[c].name = n

HoldId(c) == leaseId(hold[c].fam, hold[c].name)

\* The hold of c has not been without a sign of life for too long.
InTime(c) ==
  /\ hold[c] # None
  /\ AutoReleaseAfter = 0 \/ now - hold[c].seen <= AutoReleaseAfter

Idle(c) == call[c] = None

MayName(c, f, n) == Holds(c, f, n) \/ (Strays /\ hold[c] = None)

At(c, pc) == call[c] # None /\ call[c].pc = pc

Goes(c, pc) == call' = [call EXCEPT ![c].pc = pc]

Ends(c) == call' = [call EXCEPT ![c] = None]

Target(c) == leaseId(call[c].fam, call[c].name)

\* A TryAcquire of d has taken the lease and may still delete it.
MayUnlease(d, id) ==
  /\ call[d] # None
  /\ call[d].pc \in {"lookup", "unlease"}
  /\ Target(d) = id

Leased(f, n) == lease[leaseId(f, n)] # None

\* d holds the lease in time or is in the middle of acquiring it.
Uses(d, id) ==
  \/ InTime(d) /\ HoldId(d) = id
  \/ MayUnlease(d, id)
  \/ At(d, "register") /\ Target(d) = id

\* Mutant of InsertLease: the lease of another client is replaced.
InsertLeaseAnyway(c) ==
  lease' = [lease EXCEPT ![Target(c)] = [fam |-> call[c].fam, beat |-> call[c].asOf]]

\* InsertOne in leasedNames, when the _id is not there yet; its dates are those the
\* client read before.
InsertLease(c) ==
  /\ lease[Target(c)] = None
  /\ lease' = [lease EXCEPT ![Target(c)] = [fam |-> call[c].fam, beat |-> call[c].asOf]]

DeleteLease(f, n) == lease' = [lease EXCEPT ![leaseId(f, n)] = None]

Calm(id) == \A d \in Client : ~MayUnlease(d, id)

\* c goes on with the lease of the name of its call.
GoesLeased(c, pc) ==
  call' = [call EXCEPT ![c].pc = pc, ![c].calm = @ /\ Calm(Target(c))]

\* c is granted n, on a lease of the date of its call.
Granted(c, n, calm) ==
  hold' = [hold EXCEPT
             ![c] = [fam |-> call[c].fam, name |-> n, seen |-> call[c].asOf, calm |-> calm]]

\* c begins a call and reads the clock.
Begins(c, kind, f, n, pc) ==
  call' = [call EXCEPT ![c] =
    [kind |-> kind, fam |-> f, name |-> n, pc |-> pc, todo |-> {}, taken |-> FALSE,
     asOf |-> now, calm |-> TRUE]]

-----------------------------------------------------------------------------
(* releaseZombies, at the start of Acquire and TryAcquire. *)

\* The deadline is fixed.
Start(c, kind, f, n) ==
  /\ Idle(c)
  /\ hold[c] = None
  /\ Begins(c, kind, f, n, "sweep")
  /\ UNCHANGED <<now, data, lease, counter, hold, misreleased>>

StartAcquire(c, f) == Start(c, "acquire", f, None)

StartTryAcquire(c, f, n) == Start(c, "tryAcquire", f, n)

\* Mutant of Zombies: "$lte" of the deadline.
ZombiesEarly(c) ==
  {id \in LeaseIds :
     /\ lease[id] # None
     /\ lease[id].fam = call[c].fam
     /\ call[c].asOf - lease[id].beat >= AutoReleaseAfter}

\* "$lt" of the deadline, and only the leases of the family.
Zombies(c) ==
  {id \in LeaseIds :
     /\ lease[id] # None
     /\ lease[id].fam = call[c].fam
     /\ call[c].asOf - lease[id].beat > AutoReleaseAfter}

\* DeleteMany deletes one document after the other.
Sweep(c) ==
  /\ At(c, "sweep")
  /\ AutoReleaseAfter > 0
  /\ \E id \in Zombies(c) : lease' = [lease EXCEPT ![id] = None]
  /\ UNCHANGED <<now, data, counter, call, hold, misreleased>>

EndSweep(c) ==
  /\ At(c, "sweep")
  /\ AutoReleaseAfter > 0 => Zombies(c) = {}
  /\ call' = [call EXCEPT ![c].pc = IF call[c].kind = "acquire" THEN "find" ELSE "swept",
                          ![c].asOf = 0]
  /\ UNCHANGED <<now, data, lease, counter, hold, misreleased>>

\* The date of the lease that TryAcquire, or Acquire for a new name, will insert.
ReadClock(c) ==
  /\ \/ At(c, "swept") /\ call' = [call EXCEPT ![c].pc = "tryLease", ![c].asOf = now]
     \/ At(c, "counted") /\ call' = [call EXCEPT ![c].pc = "lease", ![c].asOf = now]
  /\ UNCHANGED <<now, data, lease, counter, hold, misreleased>>

-----------------------------------------------------------------------------
(* Acquire. *)

\* The registered names, as they are now.
Find(c) ==
  /\ At(c, "find")
  /\ call' = [call EXCEPT ![c].pc = "loop", ![c].todo = data[call[c].fam]]
  /\ UNCHANGED <<now, data, lease, counter, hold, misreleased>>

\* The next document of the cursor, and the date of its lease.
Try(c) ==
  /\ At(c, "loop")
  /\ \E n \in call[c].todo :
       call' = [call EXCEPT ![c].pc = "leaseOld", ![c].name = n, ![c].asOf = now]
  /\ UNCHANGED <<now, data, lease, counter, hold, misreleased>>

\* An error of the cursor ends the loop as if there were no more names.
CursorFails(c) ==
  /\ At(c, "loop")
  /\ call[c].todo # {}
  /\ call' = [call EXCEPT ![c].todo = {}]
  /\ UNCHANGED <<now, data, lease, counter, hold, misreleased>>

LeaseOld(c) ==
  /\ At(c, "leaseOld")
  /\ InsertLease(c)
  /\ Granted(c, call[c].name, call[c].calm /\ Calm(Target(c)))
  /\ Ends(c)
  /\ UNCHANGED <<now, data, counter, misreleased>>

\* A duplicate key: "the name is already leased, let's try another name".
TryNext(c) ==
  /\ At(c, "leaseOld")
  /\ lease[Target(c)] # None
  /\ call' = [call EXCEPT ![c].pc = "loop", ![c].todo = @ \ {call[c].name},
                          ![c].name = None, ![c].taken = TRUE, ![c].asOf = 0]
  /\ UNCHANGED <<now, data, lease, counter, hold, misreleased>>

LoopEnds(c) == At(c, "loop") /\ call[c].todo = {}

\* Mutant of NextCounter: only the insertion is counted.
NextCounterOnce(f, i) == UNCHANGED counter

\* $inc of a document of the family.
NextCounter(f, i) == counter' = [counter EXCEPT ![f][i] = @ + 1]

\* Mutant of Counted: the document after the update is returned.
CountedAfter(f, i) == counter[f][i] + 1

\* The document before the update is returned.
Counted(f, i) == counter[f][i]

\* FindOneAndUpdate of the family's document, or of any if there are several.
CountName(c) ==
  /\ LoopEnds(c)
  /\ \E i \in DOMAIN counter[call[c].fam] :
       /\ counter[call[c].fam][i] \in Name
       /\ NextCounter(call[c].fam, i)
       /\ call' = [call EXCEPT ![c].pc = "counted", ![c].name = Counted(call[c].fam, i)]
  /\ UNCHANGED <<now, data, lease, hold, misreleased>>

\* It finds no document, and is going to insert one.
MissCounter(c) ==
  /\ LoopEnds(c)
  /\ counter[call[c].fam] = <<>>
  /\ Goes(c, "upsert")
  /\ UNCHANGED <<now, data, lease, counter, hold, misreleased>>

\* The upsert inserts its document and returns none.  No index of the collection
\* keeps two of them from doing so.
InsertCounter(c) ==
  /\ At(c, "upsert")
  /\ 0 \in Name
  /\ counter' = [counter EXCEPT ![call[c].fam] = Append(@, 1)]
  /\ call' = [call EXCEPT ![c].pc = "counted", ![c].name = 0]
  /\ UNCHANGED <<now, data, lease, hold, misreleased>>

\* The update fails, and what is returned is not its error but the one of the
\* loop: the last duplicate key or, when it met none, no error at all, and then
\* Acquire succeeds with the empty name.
CounterFails(c) ==
  /\ CounterFaults
  /\ LoopEnds(c)
  /\ ~call[c].taken
  /\ Granted(c, None, TRUE)
  /\ Ends(c)
  /\ UNCHANGED <<now, data, lease, counter, misreleased>>

LeaseNew(c) ==
  /\ At(c, "lease")
  /\ InsertLease(c)
  /\ GoesLeased(c, "register")
  /\ UNCHANGED <<now, data, counter, hold, misreleased>>

\* Somebody else has that lease: the duplicate key is an error here, and the
\* name the counter was spent on is never made.
LeaseNewTaken(c) ==
  /\ At(c, "lease")
  /\ lease[Target(c)] # None
  /\ Ends(c)
  /\ UNCHANGED <<now, data, lease, counter, hold, misreleased>>

Register(c) ==
  /\ At(c, "register")
  /\ data' = [data EXCEPT ![call[c].fam] = @ \cup {call[c].name}]
  /\ Granted(c, call[c].name, call[c].calm)
  /\ Ends(c)
  /\ UNCHANGED <<now, lease, counter, misreleased>>

-----------------------------------------------------------------------------
(* TryAcquire. *)

TryLease(c) ==
  /\ At(c, "tryLease")
  /\ InsertLease(c)
  /\ GoesLeased(c, "lookup")
  /\ UNCHANGED <<now, data, counter, hold, misreleased>>

\* ErrInUse.
RefuseInUse(c) ==
  /\ At(c, "tryLease")
  /\ lease[Target(c)] # None
  /\ Ends(c)
  /\ UNCHANGED <<now, data, lease, counter, hold, misreleased>>

\* Mutant of Found: whether the name exists is not looked up.
FoundAlways(f, n) == TRUE

Found(f, n) == n \in data[f]

FoundName(c) ==
  /\ At(c, "lookup")
  /\ Found(call[c].fam, call[c].name)
  /\ Granted(c, call[c].name, call[c].calm)
  /\ Ends(c)
  /\ UNCHANGED <<now, data, lease, counter, misreleased>>

\* The name is not registered, or the lookup failed.
LookupFails(c) ==
  /\ At(c, "lookup")
  /\ Goes(c, "unlease")
  /\ UNCHANGED <<now, data, lease, counter, hold, misreleased>>

\* "Release the lease immediately": whoever may have it by now.
Unlease(c) ==
  /\ At(c, "unlease")
  /\ DeleteLease(call[c].fam, call[c].name)
  /\ Ends(c)
  /\ UNCHANGED <<now, data, counter, hold, misreleased>>

-----------------------------------------------------------------------------
(* KeepAlive and Release are one operation each; the date of a KeepAlive is  *)
(* read before.                                                              *)

StartKeepAlive(c, f, n) ==
  /\ Idle(c)
  /\ MayName(c, f, n)
  /\ Begins(c, "keepAlive", f, n, "beat")
  /\ UNCHANGED <<now, data, lease, counter, hold, misreleased>>

\* Mutant of Beat: the update is an upsert.
BeatUpsert(c) ==
  lease' = [lease EXCEPT ![Target(c)] = [fam |-> call[c].fam, beat |-> call[c].asOf]]

\* $set of the date of c, be it older than what is there.
Beat(c) ==
  lease' = [lease EXCEPT
              ![Target(c)] = IF @ = None THEN None ELSE [@ EXCEPT !.beat = call[c].asOf]]

\* d, which has the lease that c keeps alive, gave a later sign of life than that.
SetBack(d, c) ==
  \/ hold[d] # None /\ HoldId(d) = Target(c) /\ hold[d].seen > call[c].asOf
  \/ /\ At(d, "register") \/ At(d, "lookup")
     /\ Target(d) = Target(c)
     /\ call[d].asOf > call[c].asOf

\* A sign of life that comes too late succeeds like any other, but it does not
\* make the hold of c in time again.
KeepAlive(c) ==
  /\ At(c, "beat")
  /\ Beat(c)
  /\ hold' = [d \in Client |->
       IF d = c /\ Holds(c, call[c].fam, call[c].name) /\ InTime(c)
       THEN [hold[c] EXCEPT !.seen = call[c].asOf]
       ELSE IF d # c /\ hold[d] # None /\ SetBack(d, c)
       THEN [hold[d] EXCEPT !.calm = FALSE]
       ELSE hold[d]]
  /\ call' = [d \in Client |->
       IF d = c THEN None
       ELSE IF call[d] # None /\ SetBack(d, c)
       THEN [call[d] EXCEPT !.calm = FALSE]
       ELSE call[d]]
  /\ UNCHANGED <<now, data, counter, misreleased>>

Release(c, f, n) ==
  /\ Idle(c)
  /\ MayName(c, f, n)
  /\ DeleteLease(f, n)
  /\ misreleased' = (misreleased \/ \E d \in Client \ {c} : Uses(d, leaseId(f, n)))
  /\ hold' = [hold EXCEPT ![c] = None]
  /\ UNCHANGED <<now, data, counter, call>>

-----------------------------------------------------------------------------
(* Reset drops one collection after the other. *)

\* What the client of the Reset cannot know of: the holds it voids and the calls
\* it runs through.
Disturb(c, next) ==
  /\ hold' = [d \in Client |-> None]
  /\ call' = [d \in Client |->
                IF d = c THEN next
                ELSE IF call[d] = None THEN None
                ELSE [call[d] EXCEPT !.calm = FALSE]]

ResetAt(c, pc) == [call[c] EXCEPT !.pc = pc]

StartReset(c) ==
  /\ Resets
  /\ Idle(c)
  /\ \E f \in Family :
       Disturb(c, [kind |-> "reset", fam |-> f, name |-> None, pc |-> "dropData",
                   todo |-> {}, taken |-> FALSE, asOf |-> now, calm |-> TRUE])
  /\ UNCHANGED <<now, data, lease, counter, misreleased>>

DropData(c) ==
  /\ At(c, "dropData")
  /\ data' = [f \in Family |-> {}]
  /\ Disturb(c, ResetAt(c, "dropLeases"))
  /\ UNCHANGED <<now, lease, counter, misreleased>>

DropLeases(c) ==
  /\ At(c, "dropLeases")
  /\ lease' = [id \in LeaseIds |-> None]
  /\ Disturb(c, ResetAt(c, "dropCounters"))
  /\ UNCHANGED <<now, data, counter, misreleased>>

DropCounters(c) ==
  /\ At(c, "dropCounters")
  /\ counter' = [f \in Family |-> <<>>]
  /\ Disturb(c, None)
  /\ UNCHANGED <<now, data, lease, misreleased>>

-----------------------------------------------------------------------------

\* A call of c fails and returns its error.
Fail(c) ==
  /\ call[c] # None
  /\ Ends(c)
  /\ UNCHANGED <<now, data, lease, counter, hold, misreleased>>

\* The process of c dies with its name.  (Release of the empty name, whose _id
\* no lease has, comes to the same.)
Crash(c) ==
  /\ hold[c] # None
  /\ hold' = [hold EXCEPT ![c] = None]
  /\ Ends(c)
  /\ UNCHANGED <<now, data, lease, counter, misreleased>>

Tick ==
  /\ now < MaxTime
  /\ now' = now + 1
  /\ UNCHANGED <<data, lease, counter, call, hold, misreleased>>

Next ==
  \/ \E c \in Client :
       \/ \E f \in Family, n \in Name :
            StartTryAcquire(c, f, n) \/ StartKeepAlive(c, f, n) \/ Release(c, f, n)
       \/ \E f \in Family : StartAcquire(c, f)
       \/ Sweep(c)
       \/ EndSweep(c)
       \/ ReadClock(c)
       \/ Find(c)
       \/ Try(c)
       \/ CursorFails(c)
       \/ LeaseOld(c)
       \/ TryNext(c)
       \/ CountName(c)
       \/ MissCounter(c)
       \/ InsertCounter(c)
       \/ CounterFails(c)
       \/ LeaseNew(c)
       \/ LeaseNewTaken(c)
       \/ Register(c)
       \/ TryLease(c)
       \/ RefuseInUse(c)
       \/ FoundName(c)
       \/ LookupFails(c)
       \/ Unlease(c)
       \/ KeepAlive(c)
       \/ StartReset(c)
       \/ DropData(c)
       \/ DropLeases(c)
       \/ DropCounters(c)
       \/ Fail(c)
       \/ Crash(c)
  \/ Tick

Spec == Init /\ [][Next]_vars

-----------------------------------------------------------------------------
(* Properties. *)

SameName(c, d) == hold[c].fam = hold[d].fam /\ hold[c].name = hold[d].name

\* "A given name cannot be acquired twice for the same family without having
\* been released first": two clients that keep their names alive in time never
\* hold the same one, as long as nobody releases another's name.
LeaseExclusive ==
  ~misreleased =>
    \A c, d \in Client : c # d /\ InTime(c) /\ InTime(d) => ~SameName(c, d)

Backed(c) ==
  /\ hold[c].name \in data[hold[c].fam]
  /\ lease[HoldId(c)] # None
  /\ lease[HoldId(c)].beat >= hold[c].seen

\* The name of a client that is in time is registered and leased, and the lease
\* is not older than the client's last sign of life; but for four exceptions, and
\* there is no other way for a live name to be lost:  at the time of the lease a
\* TryAcquire was still to delete a lease of that name; a Reset ran through the
\* acquisition; a KeepAlive of another client, sent before the client's last sign
\* of life, was applied after it; and the name is the empty one of a failed counter.
CalmLeaseBacked ==
  ~misreleased =>
    \A c \in Client : InTime(c) /\ hold[c].calm /\ hold[c].name # None => Backed(c)

\* The exclusion that is left with auto-release, resets, faults and late updates: two
\* such clients have different leases, whatever their families.
CalmLeaseExclusive ==
  ~misreleased =>
    \A c, d \in Client :
      /\ c # d
      /\ InTime(c) /\ hold[c].calm /\ hold[c].name # None
      /\ InTime(d) /\ hold[d].calm /\ hold[d].name # None
      => HoldId(c) # HoldId(d)

Making(c) == call[c] # None /\ call[c].pc \in {"counted", "lease", "register"}

\* What a counter gave to an Acquire is not registered, and no other Acquire has it.
UniqueIn(f) ==
  \A c \in Client : Making(c) /\ call[c].fam = f =>
    /\ call[c].name \notin data[f]
    /\ \A d \in Client \ {c} : Making(d) /\ call[d].fam = f => call[d].name # call[c].name

\* "We ensure the uniqueness of the new name by atomically updating the family
\* entry in the counters collection": not so when the first Acquires of a family
\* each find no entry and insert one, but with one entry at most, between any two
\* operations of any calls.
SingleCounterUnique == \A f \in Family : Len(counter[f]) <= 1 => UniqueIn(f)

TakenBy(c, id) ==
  \/ hold[c] = None /\ hold'[c] # None /\ leaseId(hold'[c].fam, hold'[c].name) = id
  \/ /\ call[c] # None /\ call[c].pc \in {"lease", "tryLease"}
     /\ call'[c] # None /\ call'[c].pc \in {"register", "lookup"}
     /\ Target(c) = id

\* A lease comes into being only for a client that acquires the name.  A late
\* KeepAlive does not bring back one that was released, swept or dropped.
OnlyGrants ==
  [][\A id \in LeaseIds :
       lease[id] = None /\ lease'[id] # None => \E c \in Client : TakenBy(c, id)]_vars

-----------------------------------------------------------------------------
(* Without auto-release and resets the backend keeps the promise of          *)
(* NameManager.  A TryAcquire, or an Acquire whose new name is registered    *)
(* already, has its name from the moment it leases it; if the call then      *)
(* fails it loses the name, and TryAcquire releases it.                      *)

registeredNames == {p \in Family \X Name : p[2] \in data[p[1]]}

namesInUse == {p \in registeredNames : Leased(p[1], p[2])}

currentHolds ==
  [c \in Client |->
     IF hold[c] # None THEN <<hold[c].fam, hold[c].name>>
     ELSE IF At(c, "lookup") \/ At(c, "register")
     THEN IF call[c].name \in data[call[c].fam] THEN <<call[c].fam, call[c].name>> ELSE None
     ELSE None]

Promise == INSTANCE NameManager
  WITH registered <- registeredNames, inUse <- namesInUse, stale <- {},
       holds <- currentHolds, ReusesFirst <- FALSE

\* Every behaviour is one of the abstract table of names, except that an Acquire
\* may make a new name though one was released after it looked.
ImplementsPromise == Promise!Spec
=============================================================================
