---------------------------- MODULE MongoProofs ----------------------------
(***************************************************************************)
(* The MongoDB backend, for any clients, families, names, instants and     *)
(* period.  What a lease id looks like plays no part: ids of different     *)
(* names may even be equal, except for the promise of NameManager.         *)
(***************************************************************************)
EXTENDS MongoBackend, TLAPS

USE NameAssumption, MaxTimeAssumption, AutoReleaseAssumption, SwitchesAssumption,
    NoneIsNoRecord

-----------------------------------------------------------------------------
(* Types, and what a call in progress and a hold look like. *)

DropPc == {"dropData", "dropLeases", "dropCounters"}

LoopPc == {"loop", "leaseOld"}

\* Where a call has its name.
NamedPc == {"swept", "leaseOld", "counted", "lease", "register", "tryLease", "lookup",
            "unlease", "beat"}

\* What holds of a call k in progress.
CallOK(k) ==
  /\ k.asOf <= now
  /\ k.pc \in DropPc => Resets
  /\ k.pc \in NamedPc => k.name \in Name
  /\ k.pc = "sweep" /\ k.kind # "acquire" => k.name \in Name
  /\ k.pc = "leaseOld" => k.name \in k.todo
  /\ k.calm /\ k.pc \in LoopPc => k.todo \subseteq data[k.fam]

CallShape == \A c \in Client : call[c] # None => CallOK(call[c])

\* A call that a client with a name may have: to keep that name alive.
Keeps(c, k) == k = None \/ (k.pc = "beat" /\ Holds(c, k.fam, k.name))

\* A client that holds a name does not acquire another one.
HoldShape ==
  \A c \in Client : hold[c] # None =>
    /\ Keeps(c, call[c])
    /\ hold[c].seen <= now
    /\ ~CounterFaults => hold[c].name # None

Shapes == TypeOK /\ CallShape /\ HoldShape

LEMMA NotNone ==
  /\ \A l \in Lease : l # None
  /\ \A k \in Call : k # None
  /\ \A h \in Hold : h # None
  /\ \A n \in Name : n # None
BY Zenon, NoneIsNoRecord, NameAssumption

LEMMA IdIn == ASSUME NEW f \in Family, NEW n \in Name PROVE leaseId(f, n) \in LeaseIds
BY DEF LeaseIds

LEMMA CallAt ==
  ASSUME Shapes, NEW c \in Client, call[c] # None
  PROVE  /\ call[c] \in Call /\ CallOK(call[c]) /\ (call[c].pc # "beat" => hold[c] = None)
         /\ call[c].fam \in Family /\ call[c].todo \subseteq Name
         /\ call[c].asOf \in Time /\ call[c].asOf \in Nat /\ now \in Time /\ now \in Nat
         /\ call[c].calm \in BOOLEAN
BY DEF Shapes, TypeOK, CallShape, HoldShape, Keeps, Call, Time

LEMMA HoldAt ==
  ASSUME Shapes, NEW c \in Client, hold[c] # None
  PROVE  /\ hold[c] \in Hold /\ hold[c].fam \in Family /\ hold[c].name \in Name \cup {None}
         /\ Keeps(c, call[c])
         /\ hold[c].seen \in Nat /\ now \in Nat /\ hold[c].seen <= now
BY DEF Shapes, TypeOK, HoldShape, Hold, Time

LEMMA ShapesInit == Init => Shapes
<1> SUFFICES ASSUME Init PROVE Shapes
  OBVIOUS
<1>1. misreleased \in BOOLEAN
  BY Zenon DEF Init
<1>2. TypeOK
  BY <1>1 DEF Init, TypeOK, Time
<1>3. CallShape /\ HoldShape
  BY DEF Init, CallShape, HoldShape
<1> QED BY <1>2, <1>3 DEF Shapes

\* The call of c goes on as k or, when k is None, ends.
Moves(c, k) == k \in Call \cup {None} /\ call' = [call EXCEPT ![c] = k]

LEMMA MovesAt ==
  ASSUME Shapes, NEW c \in Client, NEW k, Moves(c, k)
  PROVE  \A d \in Client : call'[d] = IF d = c THEN k ELSE call[d]
BY DEF Shapes, TypeOK, Moves

LEMMA MovesShape ==
  ASSUME Shapes, NEW c \in Client, NEW k, Moves(c, k), k # None => CallOK(k),
         hold' = hold, hold[c] # None => Keeps(c, k), now' = now, data' = data
  PROVE  call' \in [Client -> Call \cup {None}] /\ CallShape' /\ HoldShape'
<1>1. call' \in [Client -> Call \cup {None}]
  BY DEF Shapes, TypeOK, Moves
<1>2. \A d \in Client : call'[d] = IF d = c THEN k ELSE call[d]
  BY MovesAt
<1>3. CallShape'
  BY <1>2 DEF Shapes, CallShape, CallOK
<1>4. HoldShape'
  BY <1>2 DEF Shapes, HoldShape, Keeps, Holds
<1> QED BY <1>1, <1>3, <1>4

\* The steps that change nothing but the call of c.
Goings(c) ==
  \/ \E f \in Family : StartAcquire(c, f)
  \/ \E f \in Family, n \in Name : StartTryAcquire(c, f, n)
  \/ \E f \in Family, n \in Name : StartKeepAlive(c, f, n)
  \/ EndSweep(c) \/ ReadClock(c) \/ Find(c) \/ Try(c) \/ CursorFails(c) \/ TryNext(c)
  \/ MissCounter(c) \/ LeaseNewTaken(c) \/ RefuseInUse(c) \/ LookupFails(c) \/ Fail(c)

\* What k keeps of the call of c.
FollowsOn(c, k) ==
  /\ call[c] # None
  /\ k.fam = call[c].fam
  /\ \/ k.pc \in LoopPc /\ call[c].pc \in LoopPc /\ k.todo \subseteq call[c].todo
     \/ k.pc = "unlease" /\ call[c].pc = "lookup" /\ k.name = call[c].name
     \/ k.pc = "lease" /\ call[c].pc = "counted" /\ k.name = call[c].name

\* What such a step may make of the call.
Follows(c, k) ==
  /\ Moves(c, k)
  /\ k # None => CallOK(k)
  /\ hold[c] # None => Keeps(c, k)
  /\ k # None =>
       \/ k.pc \in {"sweep", "find", "swept", "tryLease", "upsert", "beat"}
       \/ k.pc = "loop" /\ k.todo = data[k.fam]
       \/ FollowsOn(c, k)

LEMMA BeginsFollows ==
  ASSUME Shapes, NEW c \in Client, NEW f \in Family, NEW n \in Name \cup {None},
         NEW kind \in {"acquire", "tryAcquire", "keepAlive"}, NEW pc \in {"sweep", "beat"},
         Begins(c, kind, f, n, pc), kind # "acquire" => n \in Name,
         pc = "beat" => n \in Name, hold[c] # None => pc = "beat" /\ Holds(c, f, n)
  PROVE  \E k : Follows(c, k)
<1> DEFINE k == [kind |-> kind, fam |-> f, name |-> n, pc |-> pc, todo |-> {},
                 taken |-> FALSE, asOf |-> now, calm |-> TRUE]
<1>n. now \in Time /\ now \in Nat /\ now <= now
  BY DEF Shapes, TypeOK, Time
<1>1. call' = [call EXCEPT ![c] = k]
  BY DEF Begins
<1>2. k \in Call
  BY <1>n DEF Call
<1>3. CallOK(k) /\ k.pc = pc /\ k.fam = f /\ k.name = n
  BY <1>n DEF CallOK, NamedPc, DropPc
<1> HIDE DEF k
<1> QED BY <1>1, <1>2, <1>3 DEF Moves, Follows, Keeps

\* The call of c goes on with other fields.
LEMMA GoesOn ==
  ASSUME Shapes, NEW c \in Client, call[c] # None, call[c].pc # "beat",
         NEW k \in Call, call' = [call EXCEPT ![c] = k], CallOK(k),
         \/ k.pc \in {"sweep", "find", "swept", "tryLease", "upsert"}
         \/ k.pc = "loop" /\ k.todo = data[k.fam]
         \/ FollowsOn(c, k)
  PROVE  \E l : Follows(c, l)
BY CallAt DEF Follows, Moves

LEMMA GoingsAre ==
  ASSUME Shapes, NEW c \in Client, Goings(c)
  PROVE  /\ UNCHANGED <<now, data, lease, counter, hold, misreleased>>
         /\ \E k : Follows(c, k)
<1>0. UNCHANGED <<now, data, lease, counter, hold, misreleased>>
  BY DEF Goings, StartAcquire, StartTryAcquire, Start, StartKeepAlive, EndSweep, ReadClock,
         Find, Try, CursorFails, TryNext, MissCounter, LeaseNewTaken, RefuseInUse,
         LookupFails, Fail
<1>n. now \in Time /\ now \in Nat /\ 0 \in Time /\ 0 <= now /\ now <= now
  BY DEF Shapes, TypeOK, Time
<1>1. CASE \E f \in Family : StartAcquire(c, f)
  BY <1>0, <1>1, BeginsFollows DEF StartAcquire, Start
<1>2. CASE \E f \in Family, n \in Name : StartTryAcquire(c, f, n)
  BY <1>0, <1>2, BeginsFollows DEF StartTryAcquire, Start
<1>3. CASE \E f \in Family, n \in Name : StartKeepAlive(c, f, n)
  BY <1>0, <1>3, BeginsFollows DEF StartKeepAlive, MayName
<1>4. CASE EndSweep(c)
  <2> DEFINE pc == IF call[c].kind = "acquire" THEN "find" ELSE "swept"
             k == [call[c] EXCEPT !.pc = pc, !.asOf = 0]
  <2>1. /\ call[c] # None /\ call[c].pc = "sweep"
        /\ call' = [call EXCEPT ![c].pc = pc, ![c].asOf = 0]
    BY <1>4 DEF EndSweep, At
  <2>2. call[c] \in Call /\ CallOK(call[c])
    BY <2>1, CallAt
  <2>3. pc \in {"find", "swept"} /\ (pc = "swept" => call[c].kind # "acquire")
    OBVIOUS
  <2> HIDE DEF pc
  <2>4. k \in Call /\ k.pc = pc /\ k.asOf = 0 /\ k.name = call[c].name
    BY <1>n, <2>2, <2>3 DEF Call
  <2>5. call' = [call EXCEPT ![c] = k]
    BY <2>1 DEF Shapes, TypeOK
  <2> HIDE DEF k
  <2>6. CallOK(k)
    BY <1>n, <2>1, <2>2, <2>3, <2>4 DEF CallOK, NamedPc, DropPc, LoopPc
  <2> QED BY <1>0, <2>1, <2>3, <2>4, <2>5, <2>6, GoesOn
<1>5. CASE ReadClock(c)
  <2>1. PICK pc \in {"tryLease", "lease"} :
          /\ call[c] # None /\ call[c].pc = (IF pc = "lease" THEN "counted" ELSE "swept")
          /\ call' = [call EXCEPT ![c].pc = pc, ![c].asOf = now]
    BY <1>5 DEF ReadClock, At
  <2> DEFINE k == [call[c] EXCEPT !.pc = pc, !.asOf = now]
  <2>2. call[c] \in Call /\ CallOK(call[c])
    BY <2>1, CallAt
  <2>4. /\ k \in Call /\ k.pc = pc /\ k.asOf = now /\ k.name = call[c].name
        /\ k.fam = call[c].fam
    BY <1>n, <2>2 DEF Call
  <2>5. call' = [call EXCEPT ![c] = k]
    BY <2>1 DEF Shapes, TypeOK
  <2> HIDE DEF k
  <2>6. CallOK(k)
    BY <1>n, <2>1, <2>2, <2>4 DEF CallOK, NamedPc, DropPc, LoopPc
  <2> QED BY <1>0, <2>1, <2>4, <2>5, <2>6, GoesOn DEF FollowsOn
<1>6. CASE Find(c)
  <2> DEFINE k == [call[c] EXCEPT !.pc = "loop", !.todo = data[call[c].fam]]
  <2>1. /\ call[c] # None /\ call[c].pc = "find"
        /\ call' = [call EXCEPT ![c].pc = "loop", ![c].todo = data[call[c].fam]]
    BY <1>6 DEF Find, At
  <2>2. call[c] \in Call /\ CallOK(call[c]) /\ data[call[c].fam] \subseteq Name
    BY <2>1, CallAt DEF Shapes, TypeOK
  <2>4. /\ k \in Call /\ k.asOf = call[c].asOf /\ k.fam = call[c].fam /\ k.pc = "loop"
        /\ k.todo = data[call[c].fam]
    BY <2>2 DEF Call
  <2>5. call' = [call EXCEPT ![c] = k]
    BY <2>1 DEF Shapes, TypeOK
  <2> HIDE DEF k
  <2>6. CallOK(k)
    BY <2>2, <2>4 DEF CallOK, NamedPc, DropPc, LoopPc
  <2> QED BY <1>0, <2>1, <2>4, <2>5, <2>6, GoesOn
<1>7. CASE Try(c)
  <2>1. /\ call[c] # None /\ call[c].pc = "loop"
        /\ \E n \in call[c].todo :
             call' = [call EXCEPT ![c].pc = "leaseOld", ![c].name = n, ![c].asOf = now]
    BY <1>7 DEF Try, At
  <2>2. PICK n \in call[c].todo :
             call' = [call EXCEPT ![c].pc = "leaseOld", ![c].name = n, ![c].asOf = now]
    BY <2>1
  <2> DEFINE k == [call[c] EXCEPT !.pc = "leaseOld", !.name = n, !.asOf = now]
  <2>3. call[c] \in Call /\ CallOK(call[c]) /\ n \in Name
    BY <2>1, CallAt
  <2>4. /\ k \in Call /\ k.asOf = now /\ k.fam = call[c].fam /\ k.pc = "leaseOld"
        /\ k.todo = call[c].todo /\ k.name = n /\ k.calm = call[c].calm
    BY <1>n, <2>3 DEF Call
  <2>5. call' = [call EXCEPT ![c] = k]
    BY <2>2 DEF Shapes, TypeOK
  <2> HIDE DEF k
  <2>6. CallOK(k)
    BY <1>n, <2>1, <2>3, <2>4 DEF CallOK, NamedPc, DropPc, LoopPc
  <2>7. FollowsOn(c, k)
    BY <2>1, <2>4 DEF FollowsOn, LoopPc
  <2> QED BY <1>0, <2>1, <2>4, <2>5, <2>6, <2>7, GoesOn
<1>8. CASE CursorFails(c)
  <2> DEFINE k == [call[c] EXCEPT !.todo = {}]
  <2>1. /\ call[c] # None /\ call[c].pc = "loop" /\ call' = [call EXCEPT ![c].todo = {}]
    BY <1>8 DEF CursorFails, At
  <2>2. call[c] \in Call /\ CallOK(call[c])
    BY <2>1, CallAt
  <2>4. /\ k \in Call /\ k.asOf = call[c].asOf /\ k.fam = call[c].fam /\ k.pc = "loop"
        /\ k.todo = {}
    BY <2>1, <2>2 DEF Call
  <2>5. call' = [call EXCEPT ![c] = k]
    BY <2>1 DEF Shapes, TypeOK
  <2> HIDE DEF k
  <2>6. CallOK(k)
    BY <2>2, <2>4 DEF CallOK, NamedPc, DropPc, LoopPc
  <2>7. FollowsOn(c, k)
    BY <2>1, <2>4 DEF FollowsOn, LoopPc
  <2> QED BY <1>0, <2>1, <2>4, <2>5, <2>6, <2>7, GoesOn
<1>9. CASE TryNext(c)
  <2> DEFINE k == [call[c] EXCEPT !.pc = "loop", !.todo = @ \ {call[c].name}, !.name = None,
                                  !.taken = TRUE, !.asOf = 0]
  <2>1. /\ call[c] # None /\ call[c].pc = "leaseOld"
        /\ call' = [call EXCEPT ![c].pc = "loop", ![c].todo = @ \ {call[c].name},
                                ![c].name = None, ![c].taken = TRUE, ![c].asOf = 0]
    BY <1>9 DEF TryNext, At
  <2>2. call[c] \in Call /\ CallOK(call[c])
    BY <2>1, CallAt
  <2>4. /\ k \in Call /\ k.asOf = 0 /\ k.fam = call[c].fam /\ k.pc = "loop"
        /\ k.todo \subseteq call[c].todo /\ k.calm = call[c].calm
    BY <1>n, <2>1, <2>2 DEF Call
  <2>5. call' = [call EXCEPT ![c] = k]
    BY <2>1 DEF Shapes, TypeOK
  <2> HIDE DEF k
  <2>6. CallOK(k)
    BY <1>n, <2>1, <2>2, <2>4 DEF CallOK, NamedPc, DropPc, LoopPc
  <2>7. FollowsOn(c, k)
    BY <2>1, <2>4 DEF FollowsOn, LoopPc
  <2> QED BY <1>0, <2>1, <2>4, <2>5, <2>6, <2>7, GoesOn
<1>10. CASE MissCounter(c) \/ LookupFails(c)
  <2>1. PICK pc \in {"upsert", "unlease"} :
          /\ call[c] # None /\ call[c].pc = (IF pc = "upsert" THEN "loop" ELSE "lookup")
          /\ call' = [call EXCEPT ![c].pc = pc]
    BY <1>10 DEF MissCounter, LookupFails, LoopEnds, At, Goes
  <2> DEFINE k == [call[c] EXCEPT !.pc = pc]
  <2>2. call[c] \in Call /\ CallOK(call[c])
    BY <2>1, CallAt
  <2>4. /\ k \in Call /\ k.pc = pc /\ k.asOf = call[c].asOf /\ k.name = call[c].name
        /\ k.fam = call[c].fam
    BY <2>2 DEF Call
  <2>5. call' = [call EXCEPT ![c] = k]
    BY <2>1 DEF Shapes, TypeOK
  <2> HIDE DEF k
  <2>6. CallOK(k)
    BY <2>1, <2>2, <2>4 DEF CallOK, NamedPc, DropPc, LoopPc
  <2> QED BY <1>0, <2>1, <2>4, <2>5, <2>6, GoesOn DEF FollowsOn
<1>11. CASE LeaseNewTaken(c) \/ RefuseInUse(c) \/ Fail(c)
  <2>1. call[c] # None /\ Moves(c, None)
    BY <1>11 DEF LeaseNewTaken, RefuseInUse, Fail, At, Ends, Moves
  <2> QED BY <1>0, <2>1 DEF Follows, Keeps
<1> QED BY <1>1, <1>2, <1>3, <1>4, <1>5, <1>6, <1>7, <1>8, <1>9, <1>10, <1>11 DEF Goings

LEMMA GoingsShapes ==
  ASSUME Shapes, NEW c \in Client, Goings(c)
  PROVE  Shapes'
<1>1. UNCHANGED <<now, data, lease, counter, hold, misreleased>>
  BY GoingsAre
<1>2. PICK k : Follows(c, k)
  BY GoingsAre
<1>3. call' \in [Client -> Call \cup {None}] /\ CallShape' /\ HoldShape'
  BY <1>1, <1>2, MovesShape DEF Follows
<1> QED BY <1>1, <1>3 DEF Shapes, TypeOK

\* What the grant of n to c changes; the call it ends may just have registered the name.
Grants(c, n, calm) ==
  /\ Granted(c, n, calm) /\ Ends(c)
  /\ UNCHANGED <<now, misreleased>>
  /\ \A g \in Family : data[g] \subseteq data'[g]

LEMMA GrantShape ==
  ASSUME Shapes, NEW c \in Client, call[c] # None, NEW n \in Name \cup {None},
         NEW calm \in BOOLEAN, Grants(c, n, calm), ~CounterFaults => n # None
  PROVE  /\ hold' \in [Client -> Hold \cup {None}]
         /\ call' \in [Client -> Call \cup {None}]
         /\ CallShape' /\ HoldShape'
<1> DEFINE h == [fam |-> call[c].fam, name |-> n, seen |-> call[c].asOf, calm |-> calm]
<1>1. h \in Hold /\ h.seen = call[c].asOf /\ h.name = n
  BY CallAt DEF Hold
<1>2. hold' = [hold EXCEPT ![c] = h] /\ now' = now /\ call' = [call EXCEPT ![c] = None]
  BY DEF Grants, Granted, Ends
<1> HIDE DEF h
<1>3. hold' \in [Client -> Hold \cup {None}]
  BY <1>1, <1>2 DEF Shapes, TypeOK
<1>4. call' \in [Client -> Call \cup {None}]
  BY <1>2 DEF Shapes, TypeOK
<1>5. \A d \in Client : call'[d] = IF d = c THEN None ELSE call[d]
  BY <1>2 DEF Shapes, TypeOK
<1>6. \A d \in Client : hold'[d] = IF d = c THEN h ELSE hold[d]
  BY <1>2 DEF Shapes, TypeOK
<1>7. CallShape'
  <2>1. SUFFICES ASSUME NEW d \in Client, call'[d] # None PROVE CallOK(call[d])'
    BY DEF CallShape
  <2>2. call'[d] = call[d] /\ call[d] # None
    BY <1>5, <2>1
  <2>3. CallOK(call[d]) /\ call[d].fam \in Family
    BY <2>2, CallAt
  <2>4. data[call[d].fam] \subseteq data'[call[d].fam]
    BY <2>3 DEF Grants
  <2> QED BY <1>2, <2>2, <2>3, <2>4 DEF CallOK
<1>8. HoldShape'
  <2>1. h.seen <= now
    BY <1>1, CallAt DEF CallOK
  <2> QED BY <1>1, <1>2, <1>5, <1>6, <2>1 DEF Shapes, HoldShape, Keeps, Holds
<1> QED BY <1>3, <1>4, <1>7, <1>8

\* The grants of the code.
LEMMA GrantsAre ==
  ASSUME Shapes, NEW c \in Client
  PROVE  /\ CounterFails(c) =>
              /\ call[c] # None /\ call[c].pc = "loop" /\ CounterFaults
              /\ Grants(c, None, TRUE)
              /\ UNCHANGED <<data, lease, counter>>
         /\ LeaseOld(c) =>
              /\ call[c] # None /\ call[c].pc = "leaseOld"
              /\ call[c].name \in Name /\ call[c].name \in call[c].todo
              /\ UNCHANGED <<data, counter>>
              /\ InsertLease(c)
              /\ Grants(c, call[c].name, call[c].calm /\ Calm(Target(c)))
         /\ Register(c) \/ FoundName(c) =>
              /\ call[c] # None /\ call[c].pc \in {"register", "lookup"}
              /\ call[c].name \in Name
              /\ UNCHANGED <<lease, counter>>
              /\ data' \in [Family -> SUBSET Name]
              /\ call[c].name \in data'[call[c].fam]
              /\ Grants(c, call[c].name, call[c].calm)
<1>1. CounterFails(c) =>
        /\ call[c] # None /\ call[c].pc = "loop" /\ CounterFaults
        /\ Grants(c, None, TRUE)
        /\ UNCHANGED <<data, lease, counter>>
  BY DEF CounterFails, LoopEnds, At, Grants
<1>2. CASE LeaseOld(c)
  <2>1. /\ call[c] # None /\ call[c].pc = "leaseOld"
        /\ UNCHANGED <<data, counter>>
        /\ InsertLease(c)
        /\ Grants(c, call[c].name, call[c].calm /\ Calm(Target(c)))
    BY <1>2 DEF LeaseOld, At, Grants
  <2>2. call[c].name \in Name /\ call[c].name \in call[c].todo
    BY <2>1, CallAt DEF CallOK, NamedPc
  <2>3. ~Register(c) /\ ~FoundName(c)
    BY <2>1 DEF Register, FoundName, At
  <2> QED BY <1>1, <2>1, <2>2, <2>3
<1>3. CASE Register(c)
  <2>1. call[c] # None /\ call[c].pc = "register"
    BY <1>3 DEF Register, At
  <2>2. call[c].fam \in Family /\ call[c].name \in Name
    BY <2>1, CallAt DEF CallOK, NamedPc
  <2>3. /\ data' = [data EXCEPT ![call[c].fam] = @ \cup {call[c].name}]
        /\ data \in [Family -> SUBSET Name]
    BY <1>3 DEF Register, Shapes, TypeOK
  <2>4. /\ data' \in [Family -> SUBSET Name]
        /\ call[c].name \in data'[call[c].fam]
        /\ \A g \in Family : data[g] \subseteq data'[g]
    BY <2>2, <2>3
  <2>5. ~LeaseOld(c)
    BY <2>1 DEF LeaseOld, At
  <2> QED BY <1>1, <1>3, <2>1, <2>2, <2>4, <2>5 DEF Register, Grants
<1>4. CASE FoundName(c)
  <2>1. /\ call[c] # None /\ call[c].pc = "lookup"
        /\ data' = data /\ call[c].name \in data[call[c].fam]
    BY <1>4 DEF FoundName, At, Found
  <2>2. call[c].name \in Name
    BY <2>1, CallAt DEF CallOK, NamedPc
  <2>3. ~LeaseOld(c)
    BY <2>1 DEF LeaseOld, At
  <2> QED BY <1>1, <1>4, <2>1, <2>2, <2>3 DEF FoundName, Grants, Shapes, TypeOK
<1> QED BY <1>1, <1>2, <1>3, <1>4

LEMMA InsertIs ==
  ASSUME Shapes, NEW c \in Client, call[c] # None, call[c].name \in Name, InsertLease(c)
  PROVE  /\ Target(c) \in LeaseIds /\ lease[Target(c)] = None
         /\ lease'[Target(c)] # None /\ lease'[Target(c)].beat = call[c].asOf
         /\ \A id \in LeaseIds : id # Target(c) => lease'[id] = lease[id]
         /\ lease' \in [LeaseIds -> Lease \cup {None}]
<1> DEFINE i == Target(c)
           l == [fam |-> call[c].fam, beat |-> call[c].asOf]
<1>1. i \in LeaseIds
  BY IdIn, CallAt DEF Target
<1>2. l \in Lease /\ l.beat = call[c].asOf
  BY CallAt DEF Lease
<1>3. lease' = [lease EXCEPT ![i] = l] /\ lease[i] = None
  BY DEF InsertLease
<1>4. l # None
  BY <1>2, NotNone
<1> HIDE DEF i, l
<1>5. /\ lease[i] = None /\ lease'[i] # None /\ lease'[i].beat = call[c].asOf
      /\ \A id \in LeaseIds : id # i => lease'[id] = lease[id]
      /\ lease' \in [LeaseIds -> Lease \cup {None}]
  BY <1>1, <1>2, <1>3, <1>4 DEF Shapes, TypeOK
<1> QED BY <1>1, <1>5 DEF i

LEMMA GrantsShapes ==
  ASSUME Shapes, NEW c \in Client,
         LeaseOld(c) \/ CounterFails(c) \/ Register(c) \/ FoundName(c)
  PROVE  Shapes'
<1>0. call[c] # None /\ now' = now /\ counter' = counter /\ misreleased' = misreleased
  BY DEF LeaseOld, CounterFails, LoopEnds, Register, FoundName, At, Shapes
<1>1. CASE CounterFails(c)
  <2> DEFINE b == TRUE
  <2>1. CounterFaults /\ Grants(c, None, b) /\ b \in BOOLEAN /\ data' = data /\ lease' = lease
    BY <1>1, GrantsAre
  <2> HIDE DEF b
  <2>2. /\ hold' \in [Client -> Hold \cup {None}] /\ call' \in [Client -> Call \cup {None}]
        /\ CallShape' /\ HoldShape'
    BY <1>0, <2>1, GrantShape
  <2> QED BY <1>0, <2>1, <2>2 DEF Shapes, TypeOK
<1>2. CASE LeaseOld(c)
  <2> DEFINE n == call[c].name
             b == call[c].calm /\ Calm(Target(c))
  <2>1. n \in Name /\ data' = data /\ InsertLease(c) /\ Grants(c, n, b)
    BY <1>2, GrantsAre
  <2>2. b \in BOOLEAN
    BY Zenon
  <2>3. lease' \in [LeaseIds -> Lease \cup {None}]
    BY <1>0, <2>1, InsertIs
  <2> HIDE DEF n, b
  <2>4. /\ hold' \in [Client -> Hold \cup {None}] /\ call' \in [Client -> Call \cup {None}]
        /\ CallShape' /\ HoldShape'
    BY <1>0, <2>1, <2>2, GrantShape, NotNone
  <2> QED BY <1>0, <2>1, <2>3, <2>4 DEF Shapes, TypeOK
<1>3. CASE Register(c) \/ FoundName(c)
  <2> DEFINE n == call[c].name
             b == call[c].calm
  <2>1. /\ n \in Name /\ lease' = lease /\ data' \in [Family -> SUBSET Name]
        /\ Grants(c, n, b) /\ b \in BOOLEAN
    BY <1>0, <1>3, GrantsAre, CallAt
  <2> HIDE DEF n, b
  <2>2. /\ hold' \in [Client -> Hold \cup {None}] /\ call' \in [Client -> Call \cup {None}]
        /\ CallShape' /\ HoldShape'
    BY <1>0, <2>1, GrantShape, NotNone
  <2> QED BY <1>0, <2>1, <2>2 DEF Shapes, TypeOK
<1> QED BY <1>1, <1>2, <1>3

\* A call gets the lease of its name.
LEMMA LeasesAre ==
  ASSUME Shapes, NEW c \in Client, LeaseNew(c) \/ TryLease(c)
  PROVE  /\ call[c] # None /\ call[c].pc \in {"lease", "tryLease"}
         /\ call[c].name \in Name /\ hold[c] = None
         /\ UNCHANGED <<now, data, counter, hold, misreleased>>
         /\ InsertLease(c)
         /\ \E k \in Call :
              /\ Moves(c, k) /\ CallOK(k)
              /\ k.pc = (IF call[c].pc = "lease" THEN "register" ELSE "lookup")
              /\ k.fam = call[c].fam /\ k.name = call[c].name /\ k.asOf = call[c].asOf
              /\ k.calm <=> call[c].calm /\ Calm(Target(c))
<1>1. /\ call[c] # None /\ call[c].pc \in {"lease", "tryLease"}
      /\ UNCHANGED <<now, data, counter, hold, misreleased>>
      /\ InsertLease(c)
      /\ GoesLeased(c, IF call[c].pc = "lease" THEN "register" ELSE "lookup")
  BY DEF LeaseNew, TryLease, At
<1>2. call[c] \in Call /\ CallOK(call[c]) /\ hold[c] = None
  BY <1>1, CallAt
<1>3. call[c].name \in Name
  BY <1>1, <1>2 DEF CallOK, NamedPc
<1> DEFINE pc == IF call[c].pc = "lease" THEN "register" ELSE "lookup"
           b == call[c].calm /\ Calm(Target(c))
           k == [call[c] EXCEPT !.pc = pc, !.calm = b]
<1>4. b \in BOOLEAN
  BY Zenon
<1>5. pc \in {"register", "lookup"}
  OBVIOUS
<1>6. call' = [call EXCEPT ![c].pc = pc, ![c].calm = b]
  BY <1>1 DEF GoesLeased
<1> HIDE DEF b
<1>7. call' = [call EXCEPT ![c] = k]
  BY <1>6 DEF Shapes, TypeOK
<1>8. /\ k \in Call /\ k.pc = pc /\ k.fam = call[c].fam /\ k.name = call[c].name
      /\ k.asOf = call[c].asOf /\ k.calm = b
  <2> HIDE DEF pc
  <2> QED BY <1>2, <1>4, <1>5 DEF Call
<1> HIDE DEF k
<1>9. CallOK(k)
  BY <1>2, <1>3, <1>8 DEF CallOK, NamedPc, DropPc, LoopPc
<1>10. k.calm <=> call[c].calm /\ Calm(Target(c))
  BY <1>8 DEF b
<1> QED BY <1>1, <1>2, <1>3, <1>7, <1>8, <1>9, <1>10 DEF Moves

LEMMA LeasesShapes ==
  ASSUME Shapes, NEW c \in Client, LeaseNew(c) \/ TryLease(c)
  PROVE  Shapes'
<1>1. /\ call[c] # None /\ hold[c] = None /\ call[c].name \in Name
      /\ UNCHANGED <<now, data, counter, hold, misreleased>>
      /\ InsertLease(c)
  BY LeasesAre
<1>2. PICK k \in Call : Moves(c, k) /\ CallOK(k)
  BY LeasesAre
<1>3. call' \in [Client -> Call \cup {None}] /\ CallShape' /\ HoldShape'
  BY <1>1, <1>2, MovesShape
<1>4. lease' \in [LeaseIds -> Lease \cup {None}]
  BY <1>1, InsertIs
<1> QED BY <1>1, <1>3, <1>4 DEF Shapes, TypeOK

\* A counter gives c a name: the value of a document, or 0 with a new document.
LEMMA CountsAre ==
  ASSUME Shapes, NEW c \in Client, CountName(c) \/ InsertCounter(c)
  PROVE  /\ call[c] # None /\ call[c].pc \in {"loop", "upsert"} /\ hold[c] = None
         /\ call[c].fam \in Family
         /\ UNCHANGED <<now, data, lease, hold, misreleased>>
         /\ \E k \in Call :
              /\ Moves(c, k) /\ CallOK(k)
              /\ k.pc = "counted" /\ k.fam = call[c].fam
              /\ \/ k.name = 0 /\ counter' = [counter EXCEPT ![k.fam] = Append(@, 1)]
                 \/ \E i \in DOMAIN counter[k.fam] :
                      k.name = counter[k.fam][i] /\ counter' = [counter EXCEPT ![k.fam][i] = @ + 1]
<1>1. /\ call[c] # None /\ call[c].pc \in {"loop", "upsert"}
      /\ UNCHANGED <<now, data, lease, hold, misreleased>>
  BY DEF CountName, LoopEnds, InsertCounter, At
<1>2. call[c] \in Call /\ CallOK(call[c]) /\ hold[c] = None /\ call[c].fam \in Family
  BY <1>1, CallAt
<1> DEFINE f == call[c].fam
<1>3. PICK n \in Name :
        /\ call' = [call EXCEPT ![c].pc = "counted", ![c].name = n]
        /\ \/ /\ n = 0
              /\ counter' = [counter EXCEPT ![f] = Append(@, 1)]
           \/ \E i \in DOMAIN counter[f] :
                /\ n = counter[f][i]
                /\ counter' = [counter EXCEPT ![f][i] = @ + 1]
  BY DEF CountName, InsertCounter, NextCounter, Counted
<1> DEFINE k == [call[c] EXCEPT !.pc = "counted", !.name = n]
<1>4. call' = [call EXCEPT ![c] = k]
  BY <1>3 DEF Shapes, TypeOK
<1>5. k \in Call /\ k.pc = "counted" /\ k.name = n /\ k.fam = f /\ k.asOf = call[c].asOf
  BY <1>2 DEF Call
<1>6. f = call[c].fam
  OBVIOUS
<1> HIDE DEF k, f
<1>7. CallOK(k)
  BY <1>2, <1>5 DEF CallOK, NamedPc, DropPc, LoopPc
<1>8. \/ k.name = 0 /\ counter' = [counter EXCEPT ![k.fam] = Append(@, 1)]
      \/ \E i \in DOMAIN counter[k.fam] :
           k.name = counter[k.fam][i] /\ counter' = [counter EXCEPT ![k.fam][i] = @ + 1]
  <2>1. k.fam = f /\ k.name = n
    BY <1>5
  <2>2. CASE n = 0 /\ counter' = [counter EXCEPT ![f] = Append(@, 1)]
    BY <2>1, <2>2
  <2>3. CASE \E i \in DOMAIN counter[f] :
               n = counter[f][i] /\ counter' = [counter EXCEPT ![f][i] = @ + 1]
    BY <2>1, <2>3
  <2> QED BY <1>3, <2>2, <2>3
<1>9. Moves(c, k)
  BY <1>4, <1>5 DEF Moves
<1> QED BY <1>1, <1>2, <1>5, <1>6, <1>7, <1>8, <1>9

LEMMA CountsShapes ==
  ASSUME Shapes, NEW c \in Client, CountName(c) \/ InsertCounter(c)
  PROVE  Shapes'
<1>1. UNCHANGED <<now, data, lease, hold, misreleased>> /\ hold[c] = None
  BY CountsAre
<1>2. PICK k \in Call :
        /\ Moves(c, k) /\ CallOK(k)
        /\ k.pc = "counted" /\ k.fam = call[c].fam
        /\ \/ k.name = 0 /\ counter' = [counter EXCEPT ![k.fam] = Append(@, 1)]
           \/ \E i \in DOMAIN counter[k.fam] :
                k.name = counter[k.fam][i] /\ counter' = [counter EXCEPT ![k.fam][i] = @ + 1]
  BY CountsAre, Zenon
<1>3. call' \in [Client -> Call \cup {None}] /\ CallShape' /\ HoldShape'
  <2>1. /\ Moves(c, k) /\ CallOK(k) /\ (hold[c] # None => Keeps(c, k))
        /\ hold' = hold /\ now' = now /\ data' = data
    BY <1>1, <1>2
  <2> QED BY <2>1, MovesShape
<1>4. counter' \in [Family -> Seq(Nat)]
  <2> DEFINE f == k.fam
             s == counter[f]
  <2>1. s \in Seq(Nat) /\ counter \in [Family -> Seq(Nat)] /\ f \in Family
    BY <1>2, CountsAre DEF Shapes, TypeOK
  <2>2. CASE counter' = [counter EXCEPT ![f] = Append(@, 1)]
    <3>1. Append(s, 1) \in Seq(Nat) /\ counter' = [counter EXCEPT ![f] = Append(s, 1)]
      BY <2>1, <2>2
    <3> HIDE DEF f, s
    <3> QED BY <2>1, <3>1
  <2>3. CASE \E i \in DOMAIN s : counter' = [counter EXCEPT ![f][i] = @ + 1]
    <3>1. PICK i \in DOMAIN s : counter' = [counter EXCEPT ![f][i] = @ + 1]
      BY <2>3
    <3> DEFINE t == [s EXCEPT ![i] = @ + 1]
    <3>2. counter' = [counter EXCEPT ![f] = t]
      BY <3>1
    <3>3. t \in Seq(Nat)
      <4> HIDE DEF s
      <4>1. s[i] + 1 \in Nat
        BY <2>1
      <4> QED BY <2>1, <4>1
    <3> HIDE DEF f, s, t
    <3> QED BY <2>1, <3>2, <3>3
  <2> QED BY <1>2, <2>2, <2>3
<1> QED BY <1>1, <1>3, <1>4 DEF Shapes, TypeOK

\* A step after which c may have no call and no name any more.
LEMMA EndsShape ==
  ASSUME Shapes, NEW c \in Client, call' = call \/ Ends(c),
         hold' = hold \/ hold' = [hold EXCEPT ![c] = None], now' = now, data' = data
  PROVE  /\ call' \in [Client -> Call \cup {None}] /\ hold' \in [Client -> Hold \cup {None}]
         /\ CallShape' /\ HoldShape'
<1>1. call' \in [Client -> Call \cup {None}] /\ hold' \in [Client -> Hold \cup {None}]
  BY DEF Shapes, TypeOK, Ends
<1>2. \A d \in Client : call'[d] = call[d] \/ call'[d] = None
  BY DEF Shapes, TypeOK, Ends
<1>3. \A d \in Client : hold'[d] = hold[d] \/ hold'[d] = None
  BY DEF Shapes, TypeOK
<1>4. CallShape'
  BY <1>2 DEF Shapes, CallShape, CallOK
<1>5. HoldShape'
  BY <1>2, <1>3 DEF Shapes, HoldShape, Keeps, Holds
<1> QED BY <1>1, <1>4, <1>5

LEMMA RemovalsShapes ==
  ASSUME Shapes, NEW c \in Client,
         \/ Sweep(c) \/ Unlease(c) \/ Crash(c)
         \/ \E f \in Family, n \in Name : Release(c, f, n)
  PROVE  Shapes'
<1>1. /\ call' = call \/ Ends(c)
      /\ hold' = hold \/ hold' = [hold EXCEPT ![c] = None]
      /\ now' = now /\ data' = data /\ counter' = counter
      /\ lease' = lease \/ \E id : lease' = [lease EXCEPT ![id] = None]
  BY DEF Sweep, Unlease, Crash, Release, DeleteLease
<1>2. misreleased' \in BOOLEAN
  BY DEF Sweep, Unlease, Crash, Release, Shapes, TypeOK
<1>3. lease' \in [LeaseIds -> Lease \cup {None}]
  BY <1>1 DEF Shapes, TypeOK
<1> QED BY <1>1, <1>2, <1>3, EndsShape DEF Shapes, TypeOK

\* The call of d is as it was, but that it may not be calm any more.
CallLike(d) ==
  /\ call[d] # None <=> call'[d] # None
  /\ call[d] # None =>
       /\ call'[d] \in Call
       /\ call'[d].kind = call[d].kind /\ call'[d].fam = call[d].fam
       /\ call'[d].name = call[d].name /\ call'[d].pc = call[d].pc
       /\ call'[d].todo = call[d].todo /\ call'[d].asOf = call[d].asOf
       /\ call'[d].calm => call[d].calm

LEMMA CallLikeOK ==
  ASSUME Shapes, NEW d \in Client, call'[d] # None, CallLike(d), now' = now,
         call'[d].calm => data' = data
  PROVE  CallOK(call[d])'
<1>1. CallOK(call[d])
  BY CallAt DEF CallLike
<1> QED BY <1>1 DEF CallOK, CallLike

\* A beat renews the lease, or sets it back, if there is one.
LEMMA BeatIs ==
  ASSUME Shapes, NEW c \in Client, KeepAlive(c)
  PROVE  /\ call[c] # None /\ call[c].pc = "beat" /\ call[c].name \in Name
         /\ Target(c) \in LeaseIds
         /\ UNCHANGED <<now, data, counter, misreleased>>
         /\ lease' \in [LeaseIds -> Lease \cup {None}]
         /\ \A id \in LeaseIds :
              IF id = Target(c) /\ lease[id] # None
              THEN lease'[id] # None /\ lease'[id].beat = call[c].asOf
              ELSE lease'[id] = lease[id]
<1>1. /\ call[c] # None /\ call[c].pc = "beat" /\ UNCHANGED <<now, data, counter, misreleased>>
      /\ Beat(c)
  BY DEF KeepAlive, At
<1>2. call[c].name \in Name /\ call[c].fam \in Family /\ call[c].asOf \in Time
  BY <1>1, CallAt DEF CallOK, NamedPc
<1> DEFINE i == Target(c)
           l == [lease[i] EXCEPT !.beat = call[c].asOf]
<1>3. i \in LeaseIds
  BY <1>2, IdIn DEF Target
<1>4. lease' = [lease EXCEPT ![i] = IF lease[i] = None THEN None ELSE l]
  BY <1>1, <1>3 DEF Beat, Shapes, TypeOK
<1>5. ASSUME lease[i] # None PROVE l \in Lease /\ l.beat = call[c].asOf /\ l # None
  <2>1. lease[i] \in Lease
    BY <1>3, <1>5 DEF Shapes, TypeOK
  <2> HIDE DEF i
  <2>2. l \in Lease /\ l.beat = call[c].asOf
    BY <1>2, <2>1 DEF Lease
  <2> QED BY <2>2, NotNone
<1> HIDE DEF l
<1>6. lease' \in [LeaseIds -> Lease \cup {None}]
  <2> DEFINE m == IF lease[i] = None THEN None ELSE l
  <2>1. m \in Lease \cup {None}
    BY <1>5
  <2>2. lease \in [LeaseIds -> Lease \cup {None}] /\ lease' = [lease EXCEPT ![i] = m]
    BY <1>4 DEF Shapes, TypeOK
  <2> HIDE DEF m
  <2> QED BY <1>3, <2>1, <2>2
<1> HIDE DEF i
<1>7. \A id \in LeaseIds :
        IF id = i /\ lease[id] # None
        THEN lease'[id] # None /\ lease'[id].beat = call[c].asOf
        ELSE lease'[id] = lease[id]
  BY <1>3, <1>4, <1>5 DEF Shapes, TypeOK
<1> QED BY <1>1, <1>2, <1>3, <1>6, <1>7 DEF i

\* The hold of d is of the same name.
HoldLike(d) ==
  /\ hold[d] # None <=> hold'[d] # None
  /\ hold[d] # None =>
       /\ hold'[d] \in Hold
       /\ hold'[d].fam = hold[d].fam /\ hold'[d].name = hold[d].name
       /\ hold'[d].calm => hold[d].calm

\* What a KeepAlive of c makes of the holds.
LEMMA KeepAliveHolds ==
  ASSUME Shapes, NEW c \in Client, KeepAlive(c), NEW d \in Client
  PROVE  /\ HoldLike(d)
         /\ hold[d] # None =>
              \/ hold'[d].seen = hold[d].seen
              \/ /\ d = c /\ InTime(c) /\ HoldId(c) = Target(c)
                 /\ hold'[d].seen = call[c].asOf
         /\ hold[d] # None /\ d # c /\ SetBack(d, c) => ~hold'[d].calm
<1> DEFINE own == d = c /\ Holds(c, call[c].fam, call[c].name) /\ InTime(c)
           back == d # c /\ hold[d] # None /\ SetBack(d, c)
           h == [hold[c] EXCEPT !.seen = call[c].asOf]
           u == [hold[d] EXCEPT !.calm = FALSE]
<1>1. hold'[d] = IF own THEN h ELSE IF back THEN u ELSE hold[d]
  BY DEF KeepAlive
<1>2. call[c].asOf \in Time
  BY CallAt DEF KeepAlive, At
<1>3. hold[d] # None => hold[d] \in Hold /\ hold[d].calm \in BOOLEAN
  BY HoldAt DEF Hold
<1>4. hold[d] # None =>
        /\ u \in Hold /\ u # None /\ ~u.calm
        /\ u.fam = hold[d].fam /\ u.name = hold[d].name /\ u.seen = hold[d].seen
  BY <1>3, NotNone DEF Hold
<1>5. own => /\ d = c /\ hold[c] # None /\ h \in Hold /\ h # None /\ h.fam = hold[c].fam
             /\ h.name = hold[c].name /\ h.calm = hold[c].calm /\ h.seen = call[c].asOf
             /\ InTime(c) /\ HoldId(c) = Target(c)
  <2> SUFFICES ASSUME own
               PROVE  /\ d = c /\ hold[c] # None /\ h \in Hold /\ h # None /\ h.fam = hold[c].fam
                      /\ h.name = hold[c].name /\ h.calm = hold[c].calm /\ h.seen = call[c].asOf
                      /\ InTime(c) /\ HoldId(c) = Target(c)
    OBVIOUS
  <2>1. d = c /\ hold[c] # None /\ InTime(c) /\ HoldId(c) = Target(c)
    BY DEF Holds, HoldId, Target
  <2>2. /\ h \in Hold /\ h.fam = hold[c].fam
        /\ h.name = hold[c].name /\ h.calm = hold[c].calm /\ h.seen = call[c].asOf
    BY <1>2, <1>3, <2>1 DEF Hold
  <2> QED BY <2>1, <2>2, NotNone
<1>6. own => d = c
  OBVIOUS
<1>7. hold[d] # None /\ d # c /\ SetBack(d, c) => back
  OBVIOUS
<1>8. back => hold[d] # None
  OBVIOUS
<1> HIDE DEF own, back, h, u
<1>9. HoldLike(d)
  BY <1>1, <1>3, <1>4, <1>5, <1>8 DEF HoldLike
<1>10. hold[d] # None =>
         \/ hold'[d].seen = hold[d].seen
         \/ d = c /\ InTime(c) /\ HoldId(c) = Target(c) /\ hold'[d].seen = call[c].asOf
  BY <1>1, <1>4, <1>5
<1>11. hold[d] # None /\ d # c /\ SetBack(d, c) => ~hold'[d].calm
  BY <1>1, <1>4, <1>6, <1>7
<1> QED BY <1>9, <1>10, <1>11

\* What a KeepAlive of c makes of the calls.
LEMMA KeepAliveCalls ==
  ASSUME Shapes, NEW c \in Client, KeepAlive(c), NEW d \in Client
  PROVE  /\ d = c => call'[d] = None
         /\ d # c => CallLike(d)
         /\ d # c /\ call[d] # None /\ SetBack(d, c) => ~call'[d].calm
<1> DEFINE back == call[d] # None /\ SetBack(d, c)
           u == [call[d] EXCEPT !.calm = FALSE]
<1>1. call'[d] = IF d = c THEN None ELSE IF back THEN u ELSE call[d]
  BY DEF KeepAlive
<1>2. call[d] # None => call[d] \in Call /\ call[d].calm \in BOOLEAN
  BY CallAt
<1>3. call[d] # None =>
        /\ u \in Call /\ u # None /\ ~u.calm /\ u.kind = call[d].kind /\ u.fam = call[d].fam
        /\ u.name = call[d].name /\ u.pc = call[d].pc /\ u.todo = call[d].todo
        /\ u.asOf = call[d].asOf
  BY <1>2, NotNone DEF Call
<1> HIDE DEF u
<1>4. d # c => CallLike(d)
  BY <1>1, <1>2, <1>3 DEF CallLike
<1>5. d # c /\ call[d] # None /\ SetBack(d, c) => ~call'[d].calm
  BY <1>1, <1>3
<1> QED BY <1>1, <1>4, <1>5

LEMMA KeepAliveShapes ==
  ASSUME Shapes, NEW c \in Client, KeepAlive(c)
  PROVE  Shapes'
<1>1. /\ lease' \in [LeaseIds -> Lease \cup {None}]
      /\ UNCHANGED <<now, data, counter, misreleased>>
      /\ call[c].asOf <= now
  BY BeatIs, CallAt DEF CallOK
<1>2. call' \in [Client -> Call \cup {None}]
  <2>1. call' = [d \in Client |-> call'[d]]
    BY DEF KeepAlive
  <2>2. \A d \in Client : call'[d] \in Call \cup {None}
    BY KeepAliveCalls DEF CallLike
  <2> QED BY <2>1, <2>2
<1>3. hold' \in [Client -> Hold \cup {None}]
  <2>1. hold' = [d \in Client |-> hold'[d]]
    BY DEF KeepAlive
  <2>2. \A d \in Client : hold'[d] \in Hold \cup {None}
    BY KeepAliveHolds DEF HoldLike
  <2> QED BY <2>1, <2>2
<1>4. CallShape'
  <2>1. SUFFICES ASSUME NEW d \in Client, call'[d] # None PROVE CallOK(call[d])'
    BY DEF CallShape
  <2> QED BY <1>1, <2>1, KeepAliveCalls, CallLikeOK
<1>5. HoldShape'
  <2>1. SUFFICES ASSUME NEW d \in Client, hold'[d] # None
                 PROVE  /\ \/ call'[d] = None
                           \/ /\ call'[d].pc = "beat" /\ hold'[d].fam = call'[d].fam
                              /\ hold'[d].name = call'[d].name
                        /\ hold'[d].seen <= now
                        /\ ~CounterFaults => hold'[d].name # None
    BY <1>1 DEF HoldShape, Keeps, Holds
  <2>2. hold[d] # None /\ hold'[d].name = hold[d].name /\ hold'[d].fam = hold[d].fam
    BY <2>1, KeepAliveHolds DEF HoldLike
  <2>3. /\ \/ call[d] = None
           \/ /\ call[d].pc = "beat" /\ hold[d].fam = call[d].fam
              /\ hold[d].name = call[d].name
        /\ hold[d].seen <= now
        /\ ~CounterFaults => hold[d].name # None
    BY <2>2 DEF Shapes, HoldShape, Keeps, Holds
  <2>4. hold'[d].seen <= now
    BY <1>1, <2>2, <2>3, KeepAliveHolds
  <2>5. \/ call'[d] = None
        \/ /\ call'[d].pc = "beat" /\ hold'[d].fam = call'[d].fam
           /\ hold'[d].name = call'[d].name
    BY <2>2, <2>3, KeepAliveCalls DEF CallLike
  <2> QED BY <2>2, <2>3, <2>4, <2>5
<1> QED BY <1>1, <1>2, <1>3, <1>4, <1>5 DEF Shapes, TypeOK

Reset(c) == StartReset(c) \/ DropData(c) \/ DropLeases(c) \/ DropCounters(c)

LEMMA ResetIs ==
  ASSUME Shapes, NEW c \in Client, Reset(c)
  PROVE  /\ Resets /\ now' = now /\ misreleased' = misreleased
         /\ \E k \in Call \cup {None} :
              Disturb(c, k) /\ (k # None => k.pc \in DropPc /\ k.asOf <= now)
<1>1. now' = now /\ misreleased' = misreleased /\ now \in Time /\ now <= now
  BY DEF Reset, StartReset, DropData, DropLeases, DropCounters, Shapes, TypeOK, Time
<1>2. CASE StartReset(c)
  <2>1. PICK f \in Family :
          Disturb(c, [kind |-> "reset", fam |-> f, name |-> None, pc |-> "dropData",
                      todo |-> {}, taken |-> FALSE, asOf |-> now, calm |-> TRUE])
    BY <1>2 DEF StartReset
  <2> DEFINE k == [kind |-> "reset", fam |-> f, name |-> None, pc |-> "dropData",
                   todo |-> {}, taken |-> FALSE, asOf |-> now, calm |-> TRUE]
  <2>2. k \in Call /\ k.pc = "dropData" /\ k.asOf = now /\ Disturb(c, k)
    BY <1>1, <2>1 DEF Call
  <2> HIDE DEF k
  <2> QED BY <1>1, <1>2, <2>2 DEF StartReset, DropPc
<1>3. CASE DropData(c) \/ DropLeases(c)
  <2>1. call[c] # None /\ call[c].pc \in DropPc
        /\ \E pc \in DropPc : Disturb(c, ResetAt(c, pc))
    BY <1>3 DEF DropData, DropLeases, At, DropPc
  <2>2. PICK pc \in DropPc : Disturb(c, ResetAt(c, pc))
    BY <2>1
  <2>3. call[c] \in Call /\ CallOK(call[c])
    BY <2>1, CallAt
  <2> DEFINE k == ResetAt(c, pc)
  <2>4. k \in Call /\ k.pc \in DropPc /\ k.asOf <= now /\ Disturb(c, k)
    BY <2>2, <2>3 DEF ResetAt, Call, DropPc, CallOK
  <2> HIDE DEF k
  <2> QED BY <1>1, <2>1, <2>3, <2>4 DEF CallOK
<1>4. CASE DropCounters(c)
  <2>1. call[c] # None /\ call[c].pc \in DropPc /\ Disturb(c, None)
    BY <1>4 DEF DropCounters, At, DropPc
  <2> QED BY <1>1, <2>1, CallAt DEF CallOK
<1> QED BY <1>2, <1>3, <1>4 DEF Reset

LEMMA DisturbIs ==
  ASSUME Shapes, NEW c \in Client, NEW k \in Call \cup {None}, Disturb(c, k)
  PROVE  /\ hold' \in [Client -> Hold \cup {None}] /\ \A d \in Client : hold'[d] = None
         /\ call' \in [Client -> Call \cup {None}]
         /\ \A d \in Client :
              \/ call'[d] = None
              \/ d = c /\ call'[d] = k
              \/ CallLike(d) /\ ~call'[d].calm
<1>1. hold' \in [Client -> Hold \cup {None}] /\ \A d \in Client : hold'[d] = None
  BY DEF Disturb
<1> DEFINE b == FALSE
           u(d) == [call[d] EXCEPT !.calm = b]
<1>b. b \in BOOLEAN /\ ~b
  OBVIOUS
<1>2. call' = [d \in Client |-> IF d = c THEN k ELSE IF call[d] = None THEN None ELSE u(d)]
  BY DEF Disturb
<1> HIDE DEF b
<1>3. ASSUME NEW d \in Client, call[d] # None
      PROVE  /\ u(d) \in Call /\ ~u(d).calm /\ u(d).pc = call[d].pc /\ u(d).kind = call[d].kind
             /\ u(d).fam = call[d].fam /\ u(d).name = call[d].name /\ u(d).asOf = call[d].asOf
             /\ u(d).todo = call[d].todo /\ u(d) # None
  <2>1. call[d] \in Call
    BY <1>3, CallAt
  <2> QED BY <1>b, <2>1, NotNone DEF Call
<1> HIDE DEF u
<1>4. call' \in [Client -> Call \cup {None}]
  BY <1>2, <1>3
<1>5. ASSUME NEW d \in Client, d # c, call'[d] # None PROVE CallLike(d) /\ ~call'[d].calm
  <2>1. call[d] # None /\ call'[d] = u(d)
    BY <1>2, <1>5
  <2> QED BY <1>3, <2>1 DEF CallLike
<1>6. call'[c] = k
  BY <1>2
<1> QED BY <1>1, <1>4, <1>5, <1>6

LEMMA ResetShapes ==
  ASSUME Shapes, NEW c \in Client, Reset(c)
  PROVE  Shapes'
<1>1. Resets /\ now' = now /\ misreleased' = misreleased
  BY ResetIs
<1>2. PICK k \in Call \cup {None} :
        Disturb(c, k) /\ (k # None => k.pc \in DropPc /\ k.asOf <= now)
  BY ResetIs
<1>3. /\ hold' \in [Client -> Hold \cup {None}] /\ \A d \in Client : hold'[d] = None
      /\ call' \in [Client -> Call \cup {None}]
  BY <1>2, DisturbIs
<1>4. HoldShape'
  BY <1>3 DEF HoldShape
<1>5. CallShape'
  <2>1. SUFFICES ASSUME NEW d \in Client, call'[d] # None PROVE CallOK(call[d])'
    BY DEF CallShape
  <2>2. CASE d = c /\ call'[d] = k
    BY <1>1, <1>2, <2>1, <2>2 DEF CallOK, DropPc, NamedPc, LoopPc
  <2>3. CASE CallLike(d) /\ ~call'[d].calm
    BY <1>1, <2>1, <2>3, CallLikeOK
  <2> QED BY <1>2, <2>1, <2>2, <2>3, DisturbIs
<1>6. /\ data' \in [Family -> SUBSET Name]
      /\ lease' \in [LeaseIds -> Lease \cup {None}]
  BY DEF Reset, StartReset, DropData, DropLeases, DropCounters, Shapes, TypeOK
<1>7. counter' \in [Family -> Seq(Nat)]
  <2>1. <<>> \in Seq(Nat)
    OBVIOUS
  <2>2. [f \in Family |-> <<>>] \in [Family -> Seq(Nat)]
    BY <2>1
  <2>3. counter' = counter \/ counter' = [f \in Family |-> <<>>]
    BY DEF Reset, StartReset, DropData, DropLeases, DropCounters
  <2> QED BY <2>2, <2>3 DEF Shapes, TypeOK
<1> QED BY <1>1, <1>3, <1>4, <1>5, <1>6, <1>7 DEF Shapes, TypeOK

LEMMA TickShapes == ASSUME Shapes, Tick PROVE Shapes'
<1>1. /\ now' \in Time /\ now <= now' /\ now \in Nat /\ now' \in Nat
      /\ UNCHANGED <<data, lease, counter, call, hold, misreleased>>
  BY DEF Tick, Shapes, TypeOK, Time
<1>2. CallShape'
  <2>1. \A c \in Client : call[c] # None => call[c].asOf \in Nat /\ CallOK(call[c])
    BY CallAt
  <2> QED BY <1>1, <2>1 DEF CallShape, CallOK
<1>3. HoldShape'
  <2>1. \A c \in Client : hold[c] # None => hold[c].seen \in Nat
    BY HoldAt
  <2> QED BY <1>1, <2>1 DEF Shapes, HoldShape, Keeps, Holds
<1> QED BY <1>1, <1>2, <1>3 DEF Shapes, TypeOK

\* The disjuncts of Next, put together by what they do.
Step ==
  \/ \E c \in Client :
       \/ Goings(c)
       \/ CountName(c) \/ InsertCounter(c)
       \/ LeaseNew(c) \/ TryLease(c)
       \/ LeaseOld(c) \/ CounterFails(c) \/ Register(c) \/ FoundName(c)
       \/ KeepAlive(c)
       \/ \/ Sweep(c) \/ Unlease(c) \/ Crash(c)
          \/ \E f \in Family, n \in Name : Release(c, f, n)
       \/ Reset(c)
  \/ Tick
  \/ UNCHANGED vars

LEMMA NextIsStep == [Next]_vars => Step
BY DEF Next, Step, Goings, Reset

LEMMA ShapesStep == Shapes /\ [Next]_vars => Shapes'
<1> SUFFICES ASSUME Shapes, Step PROVE Shapes'
  BY NextIsStep
<1>1. CASE UNCHANGED vars
  BY <1>1 DEF vars, Shapes, TypeOK, CallShape, CallOK, HoldShape, Keeps, Holds
<1> QED BY <1>1, GoingsShapes, CountsShapes, LeasesShapes, GrantsShapes, KeepAliveShapes,
           RemovalsShapes, ResetShapes, TickShapes DEF Step

LEMMA ShapesInvariant == Spec => []Shapes
<1> QED BY ShapesInit, ShapesStep, PTL DEF Spec

\* The collections, the calls in progress and the holds keep their types.
THEOREM MongoTypeCorrect == Spec => []TypeOK
<1>1. Shapes => TypeOK
  BY DEF Shapes
<1> QED BY <1>1, ShapesInvariant, PTL

-----------------------------------------------------------------------------
(* New names, when nobody resets.                                            *)

\* What a counter gives next.
Bound(f) == IF counter[f] = <<>> THEN 0 ELSE counter[f][1]

\* The inductive form of SingleCounterUnique: the counter is ahead of every name that is
\* registered or being made.
CounterAhead(f) ==
  /\ \A n \in data[f] : n < Bound(f)
  /\ \A c \in Client : Making(c) /\ call[c].fam = f => call[c].name < Bound(f)
  /\ UniqueIn(f)

CountersAhead == \A f \in Family : Len(counter[f]) <= 1 => CounterAhead(f)

LEMMA MakingAt ==
  ASSUME Shapes, NEW c \in Client, Making(c)
  PROVE  call[c] # None /\ call[c].fam \in Family /\ call[c].name \in Name
BY CallAt DEF Making, CallOK, NamedPc

\* A step that gives nobody a name to make.
LEMMA NobodyMakes ==
  ASSUME CountersAhead, data' = data, counter' = counter,
         \A d \in Client : Making(d)' =>
           Making(d) /\ call'[d].fam = call[d].fam /\ call'[d].name = call[d].name
  PROVE  CountersAhead'
<1> SUFFICES ASSUME NEW f \in Family, Len(counter[f]) <= 1 PROVE CounterAhead(f)'
  BY DEF CountersAhead
<1>1. CounterAhead(f)
  BY DEF CountersAhead
<1>2. Bound(f)' = Bound(f)
  BY DEF Bound
<1>3. UniqueIn(f)'
  BY <1>1 DEF CounterAhead, UniqueIn
<1> QED BY <1>1, <1>2, <1>3 DEF CounterAhead

\* The counter of a family with one entry gives a name and goes on by one.
LEMMA CountsBound ==
  ASSUME Shapes, NEW c \in Client, CountName(c) \/ InsertCounter(c)
  PROVE  /\ call[c] # None /\ call[c].fam \in Family /\ data' = data
         /\ \A g \in Family : g # call[c].fam => counter'[g] = counter[g]
         /\ \E k \in Call :
              /\ Moves(c, k) /\ k.pc = "counted" /\ k.fam = call[c].fam
              /\ Len(counter'[k.fam]) <= 1 =>
                   /\ Len(counter[k.fam]) <= 1
                   /\ k.name = Bound(k.fam) /\ Bound(k.fam) \in Nat
                   /\ Bound(k.fam)' = Bound(k.fam) + 1
<1>1. call[c] # None /\ call[c].fam \in Family /\ data' = data
  BY CountsAre
<1>2. PICK k \in Call :
        /\ Moves(c, k) /\ k.pc = "counted" /\ k.fam = call[c].fam
        /\ \/ k.name = 0 /\ counter' = [counter EXCEPT ![k.fam] = Append(@, 1)]
           \/ \E i \in DOMAIN counter[k.fam] :
                k.name = counter[k.fam][i] /\ counter' = [counter EXCEPT ![k.fam][i] = @ + 1]
  BY CountsAre
<1> DEFINE f == k.fam
           s == counter[f]
           t == counter'[f]
<1>3. f \in Family /\ s \in Seq(Nat) /\ counter \in [Family -> Seq(Nat)]
  BY <1>1, <1>2 DEF Shapes, TypeOK
<1>4. CASE k.name = 0 /\ counter' = [counter EXCEPT ![f] = Append(@, 1)]
  <2>1. t = Append(s, 1) /\ \A g \in Family : g # f => counter'[g] = counter[g]
    BY <1>3, <1>4
  <2>2. ASSUME Len(t) <= 1
        PROVE  Len(s) <= 1 /\ s = <<>> /\ t # <<>> /\ t[1] = 1
    <3> HIDE DEF f, s, t
    <3>1. Len(t) = Len(s) + 1 /\ Len(s) \in Nat
      BY <1>3, <2>1
    <3>2. Len(s) = 0
      BY <2>2, <3>1
    <3>3. s = <<>>
      BY <1>3, <3>2
    <3>4. t[1] = 1 /\ Len(t) = 1
      BY <2>1, <3>1, <3>2, <3>3
    <3>5. t # <<>>
      BY <3>4
    <3> QED BY <3>2, <3>3, <3>4, <3>5
  <2>3. Bound(f) = (IF s = <<>> THEN 0 ELSE s[1]) /\ Bound(f)' = IF t = <<>> THEN 0 ELSE t[1]
    BY DEF Bound
  <2>4. ASSUME Len(t) <= 1
        PROVE  Len(s) <= 1 /\ k.name = Bound(f) /\ Bound(f) \in Nat /\ Bound(f)' = Bound(f) + 1
    BY <1>4, <2>2, <2>3, <2>4
  <2> QED BY <1>1, <1>2, <2>1, <2>4
<1>5. CASE \E i \in DOMAIN s :
             k.name = counter[f][i] /\ counter' = [counter EXCEPT ![f][i] = @ + 1]
  <2>1. PICK i \in DOMAIN s :
          k.name = counter[f][i] /\ counter' = [counter EXCEPT ![f][i] = @ + 1]
    BY <1>5
  <2>2. t = [s EXCEPT ![i] = s[i] + 1] /\ \A g \in Family : g # f => counter'[g] = counter[g]
    BY <1>3, <2>1
  <2>3. k.name = s[i]
    BY <2>1
  <2>4. /\ Len(t) = Len(s) /\ s # <<>> /\ t # <<>>
        /\ Len(t) <= 1 => i = 1 /\ s[1] \in Nat /\ t[1] = s[1] + 1
    <3> HIDE DEF f, s, t
    <3>1. i \in 1 .. Len(s) /\ Len(s) \in Nat /\ s[i] \in Nat
      BY <1>3, <2>1
    <3>2. t \in Seq(Nat) /\ Len(t) = Len(s) /\ t[i] = s[i] + 1
      BY <1>3, <2>2, <3>1
    <3>3. s # <<>> /\ t # <<>>
      BY <3>1, <3>2
    <3>4. Len(t) <= 1 => i = 1
      BY <3>1, <3>2
    <3> QED BY <3>1, <3>2, <3>3, <3>4
  <2>5. Bound(f) = s[1] /\ Bound(f)' = t[1]
    BY <2>4 DEF Bound
  <2>6. ASSUME Len(t) <= 1
        PROVE  Len(s) <= 1 /\ k.name = Bound(f) /\ Bound(f) \in Nat /\ Bound(f)' = Bound(f) + 1
    <3> HIDE DEF f, s, t
    <3> QED BY <2>3, <2>4, <2>5, <2>6
  <2> QED BY <1>1, <1>2, <2>2, <2>6
<1> QED BY <1>2, <1>4, <1>5

LEMMA CountsAhead ==
  ASSUME Shapes, CountersAhead, NEW c \in Client, CountName(c) \/ InsertCounter(c)
  PROVE  CountersAhead'
<1>1. /\ call[c] # None /\ call[c].fam \in Family /\ data' = data
      /\ \A g \in Family : g # call[c].fam => counter'[g] = counter[g]
  BY CountsBound
<1>2. PICK k \in Call :
        /\ Moves(c, k) /\ k.pc = "counted" /\ k.fam = call[c].fam
        /\ Len(counter'[k.fam]) <= 1 =>
             /\ Len(counter[k.fam]) <= 1
             /\ k.name = Bound(k.fam) /\ Bound(k.fam) \in Nat
             /\ Bound(k.fam)' = Bound(k.fam) + 1
  BY CountsBound
<1>3. \A d \in Client : call'[d] = IF d = c THEN k ELSE call[d]
  BY <1>2, MovesAt
<1>4. \A d \in Client \ {c} : Making(d)' => Making(d) /\ call'[d] = call[d]
  BY <1>3 DEF Making
<1> SUFFICES ASSUME NEW f \in Family, Len(counter'[f]) <= 1 PROVE CounterAhead(f)'
  BY DEF CountersAhead
<1>5. CASE f # k.fam
  <2>1. counter'[f] = counter[f]
    BY <1>1, <1>2, <1>5
  <2>2. CounterAhead(f) /\ Bound(f)' = Bound(f)
    BY <2>1 DEF CountersAhead, Bound
  <2>3. \A d \in Client : Making(d)' /\ call'[d].fam = f =>
          d # c /\ Making(d) /\ call'[d] = call[d]
    BY <1>3, <1>4, <1>5
  <2>4. UniqueIn(f)'
    BY <1>1, <2>2, <2>3 DEF CounterAhead, UniqueIn
  <2> QED BY <1>1, <2>2, <2>3, <2>4 DEF CounterAhead
<1>6. CASE f = k.fam
  <2> DEFINE n == Bound(f)
  <2>1. k.name = n /\ n \in Nat /\ Bound(f)' = n + 1 /\ CounterAhead(f)
    BY <1>2, <1>6 DEF CountersAhead
  <2> HIDE DEF n
  <2>2. \A m \in data[f] : m \in Nat /\ m < n
    BY <2>1 DEF CounterAhead, Shapes, TypeOK, n
  <2>3. \A d \in Client \ {c} : Making(d)' /\ call'[d].fam = f =>
          Making(d) /\ call'[d] = call[d] /\ call[d].name \in Nat /\ call[d].name < n
    BY <1>4, <2>1, MakingAt DEF CounterAhead, n
  <2>4. call'[c].name = n
    BY <1>3, <2>1
  <2>5. \A m \in data'[f] : m < n + 1
    BY <1>1, <2>1, <2>2
  <2>6. \A d \in Client : Making(d)' /\ call'[d].fam = f => call'[d].name < n + 1
    BY <2>1, <2>3, <2>4
  <2>7. UniqueIn(f)'
    <3>1. SUFFICES ASSUME NEW d \in Client, Making(d)', call'[d].fam = f
                   PROVE  /\ call'[d].name \notin data[f]
                          /\ \A e \in Client \ {d} : Making(e)' /\ call'[e].fam = f =>
                               call'[e].name # call'[d].name
      BY <1>1 DEF UniqueIn
    <3>2. CASE d = c
      BY <2>1, <2>2, <2>3, <2>4, <3>2
    <3>3. CASE d # c
      <4>1. /\ Making(d) /\ call'[d] = call[d] /\ call[d].name \in Nat /\ call[d].name < n
            /\ call[d].fam = f
        BY <2>3, <3>1, <3>3
      <4>2. /\ call[d].name \notin data[f]
            /\ \A e \in Client \ {d} : Making(e) /\ call[e].fam = f => call[e].name # call[d].name
        BY <2>1, <4>1 DEF CounterAhead, UniqueIn
      <4>3. ASSUME NEW e \in Client \ {d}, Making(e)', call'[e].fam = f
            PROVE  call'[e].name # call'[d].name
        <5>1. CASE e = c
          BY <2>1, <2>4, <4>1, <5>1
        <5>2. CASE e # c
          BY <2>3, <4>1, <4>2, <4>3, <5>2
        <5> QED BY <5>1, <5>2
      <4> QED BY <4>1, <4>2, <4>3
    <3> QED BY <3>2, <3>3
  <2> QED BY <2>1, <2>5, <2>6, <2>7 DEF CounterAhead
<1> QED BY <1>5, <1>6

LEMMA RegisterAhead ==
  ASSUME Shapes, CountersAhead, NEW c \in Client, Register(c)
  PROVE  CountersAhead'
<1> DEFINE f == call[c].fam
           n == call[c].name
<1>1. Making(c) /\ f \in Family /\ counter' = counter
  BY CallAt DEF Register, At, Making
<1>2. \A g \in Family : data'[g] = IF g = f THEN data[f] \cup {n} ELSE data[g]
  BY <1>1 DEF Register, Shapes, TypeOK
<1>3. \A d \in Client : call'[d] = IF d = c THEN None ELSE call[d]
  BY DEF Register, Ends, Shapes, TypeOK
<1>4. \A d \in Client : Making(d)' => d # c /\ Making(d) /\ call'[d] = call[d]
  BY <1>3 DEF Making
<1> SUFFICES ASSUME NEW g \in Family, Len(counter[g]) <= 1 PROVE CounterAhead(g)'
  BY <1>1 DEF CountersAhead
<1>5. CounterAhead(g) /\ Bound(g)' = Bound(g)
  BY <1>1 DEF CountersAhead, Bound
<1>6. g = f =>
        /\ n < Bound(g)
        /\ \A d \in Client \ {c} : Making(d) /\ call[d].fam = f => call[d].name # n
  BY <1>1, <1>5 DEF CounterAhead, UniqueIn
<1>7. \A m \in data'[g] : m < Bound(g)
  BY <1>2, <1>5, <1>6 DEF CounterAhead
<1>8. \A d \in Client : Making(d)' /\ call'[d].fam = g =>
        call'[d].name < Bound(g) /\ call'[d].name \notin data'[g]
  BY <1>2, <1>4, <1>5, <1>6 DEF CounterAhead, UniqueIn
<1>9. \A d \in Client : \A e \in Client \ {d} :
        Making(d)' /\ call'[d].fam = g /\ Making(e)' /\ call'[e].fam = g
        => call'[e].name # call'[d].name
  BY <1>4, <1>5 DEF CounterAhead, UniqueIn
<1> HIDE DEF f, n
<1>10. UniqueIn(g)'
  BY <1>8, <1>9 DEF UniqueIn
<1> QED BY <1>5, <1>7, <1>8, <1>10 DEF CounterAhead

LEMMA AheadStep ==
  ASSUME ~Resets, Shapes, CountersAhead, Step
  PROVE  CountersAhead'
<1>1. ASSUME NEW c \in Client, Goings(c) PROVE CountersAhead'
  <2>1. data' = data /\ counter' = counter
    BY <1>1, GoingsAre
  <2>2. PICK k : Follows(c, k)
    BY <1>1, GoingsAre
  <2>3. \A d \in Client : call'[d] = IF d = c THEN k ELSE call[d]
    BY <2>2, MovesAt DEF Follows
  <2>4. ASSUME NEW d \in Client, Making(d)'
        PROVE  Making(d) /\ call'[d].fam = call[d].fam /\ call'[d].name = call[d].name
    <3>1. CASE d = c
      <4>1. k # None /\ k.pc \in {"counted", "lease", "register"} /\ call'[c] = k
        BY <2>3, <2>4, <3>1 DEF Making
      <4>2. FollowsOn(c, k)
        BY <2>2, <4>1 DEF Follows
      <4> QED BY <3>1, <4>1, <4>2 DEF FollowsOn, LoopPc, Making
    <3>2. CASE d # c
      BY <2>3, <2>4, <3>2 DEF Making
    <3> QED BY <3>1, <3>2
  <2> QED BY <2>1, <2>4, NobodyMakes
<1>2. ASSUME NEW c \in Client, LeaseNew(c) \/ TryLease(c) PROVE CountersAhead'
  <2>1. data' = data /\ counter' = counter /\ call[c] # None
    BY <1>2, LeasesAre
  <2>2. PICK k \in Call : /\ Moves(c, k) /\ k.fam = call[c].fam /\ k.name = call[c].name
                          /\ k.pc = IF call[c].pc = "lease" THEN "register" ELSE "lookup"
    BY <1>2, LeasesAre
  <2>3. \A d \in Client : call'[d] = IF d = c THEN k ELSE call[d]
    BY <2>2, MovesAt
  <2>4. \A d \in Client : Making(d)' =>
          Making(d) /\ call'[d].fam = call[d].fam /\ call'[d].name = call[d].name
    BY <2>1, <2>2, <2>3 DEF Making
  <2> QED BY <2>1, <2>4, NobodyMakes
<1>3. ASSUME NEW c \in Client, data' = data, counter' = counter, call' = call \/ Ends(c)
      PROVE  CountersAhead'
  <2>1. \A d \in Client : call'[d] = call[d] \/ call'[d] = None
    BY <1>3 DEF Ends, Shapes, TypeOK
  <2>2. \A d \in Client : Making(d)' =>
          Making(d) /\ call'[d].fam = call[d].fam /\ call'[d].name = call[d].name
    BY <2>1 DEF Making
  <2> QED BY <1>3, <2>2, NobodyMakes
<1>4. ASSUME NEW c \in Client, LeaseOld(c) \/ CounterFails(c) \/ FoundName(c)
      PROVE  CountersAhead'
  BY <1>3, <1>4 DEF LeaseOld, CounterFails, FoundName
<1>5. ASSUME NEW c \in Client, KeepAlive(c) PROVE CountersAhead'
  <2>1. data' = data /\ counter' = counter
    BY <1>5, BeatIs
  <2>2. \A d \in Client : Making(d)' =>
          Making(d) /\ call'[d].fam = call[d].fam /\ call'[d].name = call[d].name
    BY <1>5, KeepAliveCalls DEF Making, CallLike
  <2> QED BY <2>1, <2>2, NobodyMakes
<1>6. ASSUME NEW c \in Client,
             \/ Sweep(c) \/ Unlease(c) \/ Crash(c)
             \/ \E f \in Family, n \in Name : Release(c, f, n)
      PROVE  CountersAhead'
  BY <1>3, <1>6 DEF Sweep, Unlease, Crash, Release
<1>7. ASSUME NEW c \in Client, Reset(c) PROVE FALSE
  BY <1>7, ResetIs
<1>8. CASE Tick \/ UNCHANGED vars
  BY <1>8, NobodyMakes DEF Tick, vars, Making
<1> QED BY <1>1, <1>2, <1>4, <1>5, <1>6, <1>7, <1>8, CountsAhead, RegisterAhead DEF Step

\* Without resets, as long as a family has one counter document, no interleaving, failure
\* or death lets its counter give an Acquire a name that is registered or that another
\* Acquire is making.  Once two first Acquires inserted two documents, nothing is said.
THEOREM SingleCounterUniqueCorrect ==
  ASSUME ~Resets
  PROVE  Spec => []SingleCounterUnique
<1>1. Init => CountersAhead
  <2> SUFFICES ASSUME Init, NEW f \in Family PROVE CounterAhead(f)
    BY DEF CountersAhead
  <2>1. data[f] = {} /\ \A c \in Client : ~Making(c)
    BY DEF Init, Making
  <2> QED BY <2>1 DEF CounterAhead, UniqueIn
<1>2. CountersAhead /\ Shapes /\ [Next]_vars => CountersAhead'
  BY AheadStep, NextIsStep
<1>3. CountersAhead => SingleCounterUnique
  BY DEF CountersAhead, CounterAhead, SingleCounterUnique
<1> QED BY <1>1, <1>2, <1>3, ShapesInvariant, PTL DEF Spec
-----------------------------------------------------------------------------
(* What a client in time can rely on.                                        *)

\* A sign of life at t is not too old.
Live(t) == t <= now /\ (AutoReleaseAfter = 0 \/ now - t <= AutoReleaseAfter)

\* The lease is there, is not older than t, and no TryAcquire of another client than c
\* can still delete it.
Safe(c, id, t) ==
  /\ lease[id] # None
  /\ lease[id].beat >= t
  /\ \A d \in Client \ {c} : ~MayUnlease(d, id)

CallClaims(c) ==
  /\ call[c] # None
  /\ call[c].pc \in {"register", "lookup"}
  /\ call[c].calm
  /\ Live(call[c].asOf)

HoldClaims(c) == InTime(c) /\ hold[c].calm /\ hold[c].name # None

CallKept(c) == CallClaims(c) => Safe(c, Target(c), call[c].asOf)

HoldKept(c) ==
  HoldClaims(c) => hold[c].name \in data[hold[c].fam] /\ Safe(c, HoldId(c), hold[c].seen)

\* The inductive form of CalmLeaseBacked: the lease of a calm client is safe from the
\* moment the client has it, while its call still registers or looks up the name.
CalmHolds == ~misreleased => \A c \in Client : CallKept(c) /\ HoldKept(c)

LEMMA SafeIs ==
  ASSUME NEW c \in Client, NEW id, NEW t
  PROVE  Safe(c, id, t)' <=> /\ lease'[id] # None
                             /\ lease'[id].beat >= t
                             /\ \A d \in Client \ {c} : ~MayUnlease(d, id)'
BY DEF Safe

LEMMA MayUnleaseIs ==
  ASSUME NEW d \in Client, NEW id
  PROVE  MayUnlease(d, id)' <=> /\ call'[d] # None
                                /\ call'[d].pc \in {"lookup", "unlease"}
                                /\ leaseId(call'[d].fam, call'[d].name) = id
BY DEF MayUnlease, Target

LEMMA CallClaimsAt ==
  ASSUME Shapes, NEW c \in Client, CallClaims(c)
  PROVE  /\ Target(c) \in LeaseIds /\ Uses(c, Target(c))
         /\ call[c].asOf \in Nat
<1>1. call[c] # None /\ call[c].pc \in {"register", "lookup"}
  BY DEF CallClaims
<1>2. call[c].fam \in Family /\ call[c].name \in Name /\ call[c].asOf \in Nat
  BY <1>1, CallAt DEF CallOK, NamedPc
<1>3. Target(c) \in LeaseIds
  BY <1>2, IdIn DEF Target
<1> QED BY <1>1, <1>2, <1>3 DEF Uses, At, MayUnlease

LEMMA HoldClaimsAt ==
  ASSUME Shapes, NEW c \in Client, HoldClaims(c)
  PROVE  /\ HoldId(c) \in LeaseIds /\ Uses(c, HoldId(c))
         /\ hold[c].seen \in Nat /\ hold[c].seen <= now /\ now \in Nat
         /\ Live(hold[c].seen) /\ Keeps(c, call[c])
         /\ hold[c].fam \in Family /\ hold[c].name \in Name
<1>1. hold[c] # None /\ hold[c].name # None
  BY DEF HoldClaims, InTime
<1>2. /\ hold[c].fam \in Family /\ hold[c].name \in Name
      /\ hold[c].seen \in Nat /\ hold[c].seen <= now /\ now \in Nat /\ Keeps(c, call[c])
  BY <1>1, HoldAt
<1>3. HoldId(c) \in LeaseIds
  BY <1>2, IdIn DEF HoldId
<1> QED BY <1>1, <1>2, <1>3 DEF Uses, HoldId, HoldClaims, InTime, Live

\* What c is sure of in a step: the leases it uses stay safe.
Sure(c) ==
  \A id \in LeaseIds, t \in Nat : Live(t) /\ Uses(c, id) /\ Safe(c, id, t) => Safe(c, id, t)'

LEMMA CallStays ==
  ASSUME Shapes, NEW c \in Client, call'[c] = call[c], now' \in Nat, now' >= now,
         CallKept(c), Sure(c)
  PROVE  CallKept(c)' /\ (CallClaims(c)' => CallClaims(c))
<1>1. ASSUME CallClaims(c)' PROVE CallClaims(c)
  <2>1. call[c] # None
    BY <1>1 DEF CallClaims
  <2>2. call[c].asOf <= now /\ call[c].asOf \in Nat /\ now \in Nat
    BY <2>1, CallAt DEF CallOK
  <2> QED BY <1>1, <2>2 DEF CallClaims, Live
<1>2. ASSUME CallClaims(c)' PROVE Safe(c, Target(c), call[c].asOf)'
  <2>1. CallClaims(c)
    BY <1>1, <1>2
  <2> DEFINE id == Target(c)
             t == call[c].asOf
  <2>2. id \in LeaseIds /\ t \in Nat /\ Uses(c, id) /\ Live(t) /\ Safe(c, id, t)
    BY <2>1, CallClaimsAt DEF CallKept, CallClaims
  <2>3. \A i \in LeaseIds, u \in Nat : i = id /\ u = t => Safe(c, i, u)'
    BY <2>2 DEF Sure
  <2>4. \A i \in LeaseIds, u \in Nat : i = id /\ u = t =>
          /\ lease'[i] # None /\ lease'[i].beat >= u
          /\ \A d \in Client \ {c} : ~MayUnlease(d, i)'
    BY <2>3, SafeIs
  <2>5. leaseId(call'[c].fam, call'[c].name) = id /\ call'[c].asOf = t
    BY DEF Target
  <2> HIDE DEF id, t
  <2>6. /\ lease'[id] # None /\ lease'[id].beat >= t
        /\ \A i \in LeaseIds : i = id => \A d \in Client \ {c} : ~MayUnlease(d, i)'
    BY <2>2, <2>4
  <2>7. \A d \in Client \ {c} :
          ~(call'[d] # None /\ call'[d].pc \in {"lookup", "unlease"}
            /\ leaseId(call'[d].fam, call'[d].name) = id)
    BY <2>2, <2>6, MayUnleaseIs
  <2> QED BY <2>5, <2>6, <2>7 DEF Safe, MayUnlease, Target
<1> QED BY <1>1, <1>2 DEF CallKept

LEMMA HoldStays ==
  ASSUME Shapes, NEW c \in Client, hold'[c] = hold[c], now' \in Nat, now' >= now,
         HoldKept(c), Sure(c), \A f \in Family : data[f] \subseteq data'[f]
  PROVE  HoldKept(c)' /\ (HoldClaims(c)' => HoldClaims(c))
<1>1. ASSUME HoldClaims(c)' PROVE HoldClaims(c)
  <2>1. hold[c] # None
    BY <1>1 DEF HoldClaims, InTime
  <2>2. hold[c].seen \in Nat /\ now \in Nat
    BY <2>1, HoldAt
  <2> QED BY <1>1, <2>2 DEF HoldClaims, InTime
<1>2. ASSUME HoldClaims(c)'
      PROVE  hold'[c].name \in data'[hold'[c].fam] /\ Safe(c, HoldId(c), hold[c].seen)'
  <2>1. HoldClaims(c)
    BY <1>1, <1>2
  <2> DEFINE id == HoldId(c)
             t == hold[c].seen
  <2>2. /\ id \in LeaseIds /\ t \in Nat /\ Uses(c, id) /\ Live(t) /\ Safe(c, id, t)
        /\ hold[c].fam \in Family /\ hold[c].name \in data[hold[c].fam]
    BY <2>1, HoldClaimsAt DEF HoldKept
  <2>3. \A i \in LeaseIds, u \in Nat : i = id /\ u = t => Safe(c, i, u)'
    BY <2>2 DEF Sure
  <2>4. \A i \in LeaseIds, u \in Nat : i = id /\ u = t =>
          /\ lease'[i] # None /\ lease'[i].beat >= u
          /\ \A d \in Client \ {c} : ~MayUnlease(d, i)'
    BY <2>3, SafeIs
  <2>5. leaseId(hold'[c].fam, hold'[c].name) = id /\ hold'[c].seen = t
    BY DEF HoldId
  <2>6. hold'[c].name \in data'[hold'[c].fam]
    BY <2>2
  <2> HIDE DEF id, t
  <2>7. /\ lease'[id] # None /\ lease'[id].beat >= t
        /\ \A i \in LeaseIds : i = id => \A d \in Client \ {c} : ~MayUnlease(d, i)'
    BY <2>2, <2>4
  <2>8. \A d \in Client \ {c} :
          ~(call'[d] # None /\ call'[d].pc \in {"lookup", "unlease"}
            /\ leaseId(call'[d].fam, call'[d].name) = id)
    BY <2>2, <2>7, MayUnleaseIs
  <2> QED BY <2>5, <2>6, <2>7, <2>8 DEF Safe, MayUnlease, Target, HoldId
<1> QED BY <1>1, <1>2 DEF HoldKept

Claims(c, id) ==
  \/ CallClaims(c) /\ Target(c) = id
  \/ HoldClaims(c) /\ HoldId(c) = id

\* c keeps what it can rely on and lays claim to nothing new.
KeptOn(c) ==
  /\ CallKept(c)' /\ HoldKept(c)'
  /\ \A id \in LeaseIds : Claims(c, id)' => Claims(c, id)

LEMMA Stays ==
  ASSUME Shapes, NEW c \in Client, call'[c] = call[c], hold'[c] = hold[c],
         now' \in Nat, now' >= now, CallKept(c), HoldKept(c), Sure(c),
         \A f \in Family : data[f] \subseteq data'[f]
  PROVE  KeptOn(c)
<1>1. CallKept(c)' /\ (CallClaims(c)' => CallClaims(c))
  BY CallStays
<1>2. HoldKept(c)' /\ (HoldClaims(c)' => HoldClaims(c))
  BY HoldStays
<1>3. \A id \in LeaseIds : Claims(c, id)' => Claims(c, id)
  BY <1>1, <1>2 DEF Claims, Target, HoldId
<1> QED BY <1>1, <1>2, <1>3 DEF KeptOn

\* A client whose call is not about to get a name relies on its hold alone.
LEMMA QuietCall ==
  ASSUME Shapes, NEW c \in Client, hold'[c] = hold[c], now' \in Nat, now' >= now,
         call'[c] = None \/ call'[c].pc \notin {"register", "lookup"} \/ ~call'[c].calm,
         HoldKept(c), Sure(c), \A f \in Family : data[f] \subseteq data'[f]
  PROVE  KeptOn(c)
<1>1. ~CallClaims(c)'
  BY DEF CallClaims
<1>2. HoldKept(c)' /\ (HoldClaims(c)' => HoldClaims(c))
  BY HoldStays
<1>3. \A id \in LeaseIds : Claims(c, id)' => Claims(c, id)
  BY <1>1, <1>2 DEF Claims, HoldId
<1> QED BY <1>1, <1>2, <1>3 DEF KeptOn, CallKept

\* A client without a name whose call is not about to get one claims nothing.
LEMMA NoClaim ==
  ASSUME NEW c \in Client,
         hold'[c] = None \/ hold'[c].name = None,
         call'[c] = None \/ call'[c].pc \notin {"register", "lookup"} \/ ~call'[c].calm
  PROVE  KeptOn(c)
<1>1. ~CallClaims(c)' /\ ~HoldClaims(c)'
  BY DEF CallClaims, HoldClaims, InTime
<1> QED BY <1>1 DEF KeptOn, CallKept, HoldKept, Claims

LEMMA SureWhen ==
  ASSUME Shapes, NEW c \in Client,
         \A id \in LeaseIds : lease[id] # None => lease'[id] = lease[id],
         \A d \in Client \ {c}, id \in LeaseIds :
           MayUnlease(d, id)' => MayUnlease(d, id) \/ lease[id] = None
  PROVE  Sure(c)
<1> SUFFICES ASSUME NEW id \in LeaseIds, NEW t \in Nat, Live(t), Safe(c, id, t)
             PROVE  Safe(c, id, t)'
  BY DEF Sure
<1>1. now \in Nat /\ t <= now
  BY DEF Live, Shapes, TypeOK, Time
<1>2. lease[id] # None /\ lease[id].beat >= t /\ \A d \in Client \ {c} : ~MayUnlease(d, id)
  BY DEF Safe
<1>3. lease'[id] # None /\ lease'[id].beat >= t
  BY <1>1, <1>2
<1>4. \A d \in Client \ {c} : ~MayUnlease(d, id)'
  BY <1>2
<1> QED BY <1>3, <1>4, SafeIs

\* Calls that stay or end threaten no more leases.
LEMMA UnleaseLess ==
  ASSUME NEW d \in Client, call'[d] = call[d] \/ call'[d] = None, NEW id
  PROVE  MayUnlease(d, id)' => MayUnlease(d, id)
BY MayUnleaseIs DEF MayUnlease, Target

LEMMA CallsLess ==
  ASSUME Shapes, NEW c \in Client, call' = call \/ Ends(c)
  PROVE  /\ \A d \in Client : call'[d] = call[d] \/ (d = c /\ call'[d] = None)
         /\ \A d \in Client, id \in LeaseIds : MayUnlease(d, id)' => MayUnlease(d, id)
<1>1. \A d \in Client : call'[d] = call[d] \/ (d = c /\ call'[d] = None)
  BY DEF Ends, Shapes, TypeOK
<1> QED BY <1>1, UnleaseLess

\* The call of c neither gets nor uses a lease with k, but for the one it will delete.
GoesQuiet(c, k) ==
  k # None =>
    \/ k.pc \notin {"register", "lookup", "unlease"}
    \/ /\ k.pc = "unlease" /\ call[c] # None /\ call[c].pc = "lookup"
       /\ k.fam = call[c].fam /\ k.name = call[c].name

LEMMA QuietGoings ==
  ASSUME Shapes, NEW c \in Client, Goings(c) \/ CountName(c) \/ InsertCounter(c)
  PROVE  \E k : Moves(c, k) /\ GoesQuiet(c, k)
<1>1. CASE Goings(c)
  <2>1. PICK k : Follows(c, k)
    BY <1>1, GoingsAre
  <2> QED BY <2>1 DEF Follows, FollowsOn, LoopPc, GoesQuiet
<1>2. CASE CountName(c) \/ InsertCounter(c)
  <2>1. PICK k \in Call : Moves(c, k) /\ k.pc = "counted"
    BY <1>2, CountsAre
  <2> QED BY <2>1 DEF GoesQuiet
<1> QED BY <1>1, <1>2

LEMMA GoingsKeep ==
  ASSUME Shapes, NEW c \in Client, Goings(c) \/ CountName(c) \/ InsertCounter(c),
         NEW d \in Client, CallKept(d), HoldKept(d)
  PROVE  KeptOn(d)
<1>1. UNCHANGED <<now, data, lease, hold, misreleased>>
  BY GoingsAre, CountsAre
<1>2. PICK k : Moves(c, k) /\ GoesQuiet(c, k)
  BY QuietGoings
<1>3. \A e \in Client : call'[e] = IF e = c THEN k ELSE call[e]
  BY <1>2, MovesAt
<1>4. \A e \in Client, id \in LeaseIds : MayUnlease(e, id)' => MayUnlease(e, id)
  <2>1. SUFFICES ASSUME NEW e \in Client, NEW id \in LeaseIds, MayUnlease(e, id)'
                 PROVE  MayUnlease(e, id)
    OBVIOUS
  <2>2. CASE e = c
    <3>1. k # None /\ k.pc \in {"lookup", "unlease"} /\ leaseId(k.fam, k.name) = id
      BY <1>3, <2>1, <2>2, MayUnleaseIs
    <3> QED BY <1>2, <2>2, <3>1 DEF MayUnlease, Target, GoesQuiet
  <2>3. CASE e # c
    <3>1. call'[e] = call[e]
      BY <1>3, <2>3
    <3> QED BY <2>1, <3>1, UnleaseLess
  <2> QED BY <2>2, <2>3
<1>5. Sure(d)
  BY <1>1, <1>4, SureWhen
<1>6. hold'[d] = hold[d] /\ now' \in Nat /\ now' >= now
  BY <1>1 DEF Shapes, TypeOK, Time
<1>7. CASE d = c
  <2>1. call'[c] = None \/ call'[c].pc \notin {"register", "lookup"}
    BY <1>2, <1>3 DEF GoesQuiet
  <2> QED BY <1>1, <1>5, <1>6, <1>7, <2>1, QuietCall
<1>8. CASE d # c
  <2>1. call'[d] = call[d]
    BY <1>3, <1>8
  <2> QED BY <1>1, <1>5, <1>6, <2>1, Stays
<1> QED BY <1>7, <1>8

\* What the other clients do not notice.
LEMMA OthersKeep ==
  ASSUME Shapes, NEW c \in Client, NEW d \in Client, d # c, call' = call \/ Ends(c),
         hold'[d] = hold[d], now' \in Nat, now' >= now, CallKept(d), HoldKept(d),
         \A id \in LeaseIds : lease[id] # None => lease'[id] = lease[id],
         \A f \in Family : data[f] \subseteq data'[f]
  PROVE  KeptOn(d)
<1>1. /\ call'[d] = call[d]
      /\ \A e \in Client, id \in LeaseIds : MayUnlease(e, id)' => MayUnlease(e, id)
  BY CallsLess
<1>2. Sure(d)
  BY <1>1, SureWhen
<1> QED BY <1>1, <1>2, Stays

\* A lease is taken: c claims it, and it was nobody's.
Takes(c) ==
  /\ CallKept(c)' /\ HoldKept(c)'
  /\ \E id \in LeaseIds :
       /\ lease[id] = None
       /\ \A i \in LeaseIds : Claims(c, i)' => i = id

LEMMA LeasesKeep ==
  ASSUME Shapes, NEW c \in Client, LeaseNew(c) \/ TryLease(c)
  PROVE  /\ Takes(c)
         /\ \A d \in Client \ {c} : CallKept(d) /\ HoldKept(d) => KeptOn(d)
<1> DEFINE i == Target(c)
           t == call[c].asOf
<1>1. /\ call[c] # None /\ call[c].name \in Name /\ hold[c] = None /\ InsertLease(c)
      /\ UNCHANGED <<now, data, counter, hold, misreleased>>
  BY LeasesAre
<1>2. PICK k \in Call :
        /\ Moves(c, k)
        /\ k.pc \in {"register", "lookup"} /\ k.fam = call[c].fam /\ k.name = call[c].name
        /\ k.asOf = t
        /\ k.calm => Calm(i)
  BY LeasesAre
<1>3. /\ i \in LeaseIds /\ lease[i] = None /\ lease'[i] # None /\ lease'[i].beat = t
      /\ \A id \in LeaseIds : id # i => lease'[id] = lease[id]
  BY <1>1, InsertIs
<1>4. \A e \in Client : call'[e] = IF e = c THEN k ELSE call[e]
  BY <1>2, MovesAt
<1>5. now \in Nat /\ now' = now /\ now' >= now /\ t \in Nat
  BY <1>1, CallAt DEF Shapes, TypeOK, Time
<1>6. leaseId(call'[c].fam, call'[c].name) = i
  BY <1>2, <1>4 DEF Target
<1> HIDE DEF i, t
<1>7. \A e \in Client \ {c}, id \in LeaseIds : MayUnlease(e, id)' => MayUnlease(e, id)
  BY <1>4, UnleaseLess
<1>8. \A id \in LeaseIds : MayUnlease(c, id)' => id = i
  BY <1>6, MayUnleaseIs
<1>9. Takes(c)
  <2>1. ~HoldClaims(c)'
    BY <1>1 DEF HoldClaims, InTime
  <2>2. \A id \in LeaseIds : Claims(c, id)' => id = i
    BY <1>6, <2>1 DEF Claims, Target
  <2>3. ASSUME CallClaims(c)' PROVE Safe(c, Target(c), call[c].asOf)'
    <3>1. k.calm
      BY <1>4, <2>3 DEF CallClaims
    <3>2. \A e \in Client \ {c} : ~MayUnlease(e, i)
      BY <1>2, <3>1 DEF Calm
    <3>3. \A e \in Client \ {c} :
            ~(call'[e] # None /\ call'[e].pc \in {"lookup", "unlease"}
              /\ leaseId(call'[e].fam, call'[e].name) = i)
      BY <1>4, <3>2 DEF MayUnlease, Target
    <3>4. call'[c].asOf = t /\ lease'[i].beat >= t /\ lease'[i] # None
      BY <1>2, <1>3, <1>4, <1>5
    <3> QED BY <1>6, <3>3, <3>4 DEF Safe, MayUnlease, Target
  <2> QED BY <1>3, <2>1, <2>2, <2>3 DEF Takes, CallKept, HoldKept
<1>10. ASSUME NEW d \in Client \ {c}, CallKept(d), HoldKept(d) PROVE KeptOn(d)
  <2>1. \A e \in Client \ {d}, id \in LeaseIds :
          MayUnlease(e, id)' => MayUnlease(e, id) \/ lease[id] = None
    BY <1>3, <1>7, <1>8
  <2>2. \A id \in LeaseIds : lease[id] # None => lease'[id] = lease[id]
    BY <1>3
  <2>3. Sure(d)
    BY <2>1, <2>2, SureWhen
  <2>4. call'[d] = call[d] /\ hold'[d] = hold[d] /\ \A g \in Family : data[g] \subseteq data'[g]
    BY <1>1, <1>4
  <2> QED BY <1>5, <1>10, <2>3, <2>4, Stays
<1> QED BY <1>9, <1>10

\* What a grant leaves behind.
LEMMA GrantedIs ==
  ASSUME Shapes, NEW c \in Client, NEW n, NEW calm, Grants(c, n, calm)
  PROVE  /\ hold'[c].fam = call[c].fam /\ hold'[c].name = n /\ hold'[c].seen = call[c].asOf
         /\ (hold'[c].calm <=> calm)
         /\ call'[c] = None /\ (call' = call \/ Ends(c)) /\ now' = now
         /\ misreleased' = misreleased
         /\ \A g \in Family : data[g] \subseteq data'[g]
         /\ \A d \in Client \ {c} : hold'[d] = hold[d] /\ call'[d] = call[d]
<1> DEFINE h == [fam |-> call[c].fam, name |-> n, seen |-> call[c].asOf, calm |-> calm]
<1>1. /\ hold' = [hold EXCEPT ![c] = h] /\ Ends(c) /\ now' = now /\ misreleased' = misreleased
      /\ \A g \in Family : data[g] \subseteq data'[g]
  BY DEF Grants, Granted
<1>2. h.fam = call[c].fam /\ h.name = n /\ h.seen = call[c].asOf /\ (h.calm <=> calm)
  OBVIOUS
<1> HIDE DEF h
<1> QED BY <1>1, <1>2 DEF Ends, Shapes, TypeOK

LEMMA GrantsKeep ==
  ASSUME Shapes, NEW c \in Client,
         LeaseOld(c) \/ CounterFails(c) \/ Register(c) \/ FoundName(c), CallKept(c)
  PROVE  /\ Takes(c) \/ KeptOn(c)
         /\ \A d \in Client \ {c} : CallKept(d) /\ HoldKept(d) => KeptOn(d)
<1>0. call[c] # None /\ now \in Nat
  <2>1. now \in Nat
    BY DEF Shapes, TypeOK, Time
  <2> QED BY <2>1 DEF LeaseOld, CounterFails, LoopEnds, Register, FoundName, At
<1>1. call[c].fam \in Family /\ CallOK(call[c]) /\ call[c].asOf \in Nat
  BY <1>0, CallAt
<1>2. CASE CounterFails(c)
  <2> DEFINE b == TRUE
  <2>1. Grants(c, None, b) /\ lease' = lease
    BY <1>2, GrantsAre
  <2> HIDE DEF b
  <2>2. hold'[c].name = None /\ call'[c] = None /\ (call' = call \/ Ends(c)) /\ now' = now
    BY <2>1, GrantedIs
  <2>3. \A g \in Family : data[g] \subseteq data'[g]
    BY <2>1, GrantedIs
  <2>4. \A d \in Client \ {c} : hold'[d] = hold[d]
    BY <2>1, GrantedIs
  <2>5. KeptOn(c)
    BY <2>2, NoClaim
  <2> QED BY <1>0, <2>1, <2>2, <2>3, <2>4, <2>5, OthersKeep
<1>3. CASE LeaseOld(c)
  <2> DEFINE f == call[c].fam
             n == call[c].name
             t == call[c].asOf
             i == Target(c)
             b == call[c].calm /\ Calm(i)
  <2>1. n \in Name /\ n \in call[c].todo /\ InsertLease(c) /\ Grants(c, n, b)
    BY <1>3, GrantsAre
  <2>2. /\ i \in LeaseIds /\ lease[i] = None /\ lease'[i] # None /\ lease'[i].beat = t
        /\ \A id \in LeaseIds : id # i => lease'[id] = lease[id]
    BY <1>0, <2>1, InsertIs
  <2>4. b => call[c].calm /\ \A d \in Client : ~MayUnlease(d, i)
    BY DEF Calm
  <2>5. call[c].calm => n \in data[f]
    BY <1>1, <1>3, <2>1, GrantsAre DEF CallOK, LoopPc
  <2> HIDE DEF b
  <2>6. /\ hold'[c].fam = f /\ hold'[c].name = n /\ hold'[c].seen = t /\ (hold'[c].calm <=> b)
        /\ call'[c] = None /\ (call' = call \/ Ends(c)) /\ now' = now
        /\ \A g \in Family : data[g] \subseteq data'[g]
        /\ \A d \in Client \ {c} : hold'[d] = hold[d] /\ call'[d] = call[d]
    BY <2>1, GrantedIs
  <2>7. leaseId(hold'[c].fam, hold'[c].name) = i
    BY <2>6 DEF Target
  <2>8. f \in Family /\ t \in Nat
    BY <1>1
  <2> HIDE DEF f, i, n, t
  <2>10. Takes(c)
    <3>1. ~CallClaims(c)'
      BY <2>6 DEF CallClaims
    <3>2. \A id \in LeaseIds : Claims(c, id)' => id = i
      BY <2>7, <3>1 DEF Claims, HoldId
    <3>3. ASSUME HoldClaims(c)'
          PROVE  hold'[c].name \in data'[hold'[c].fam] /\ Safe(c, HoldId(c), hold[c].seen)'
      <4>1. b
        BY <2>6, <3>3 DEF HoldClaims
      <4>2. hold'[c].name \in data'[hold'[c].fam]
        BY <2>4, <2>5, <2>6, <2>8, <4>1
      <4>3. \A d \in Client : ~MayUnlease(d, i)
        BY <2>4, <4>1
      <4>4. \A d \in Client \ {c} :
              ~(call'[d] # None /\ call'[d].pc \in {"lookup", "unlease"}
                /\ leaseId(call'[d].fam, call'[d].name) = i)
        BY <2>6, <4>3 DEF MayUnlease, Target
      <4>5. lease'[i] # None /\ lease'[i].beat >= hold'[c].seen
        BY <2>2, <2>6, <2>8
      <4> QED BY <2>7, <4>2, <4>4, <4>5 DEF Safe, MayUnlease, Target, HoldId
    <3> QED BY <2>2, <3>1, <3>2, <3>3 DEF Takes, CallKept, HoldKept
  <2>11. \A id \in LeaseIds : lease[id] # None => lease'[id] = lease[id]
    BY <2>2
  <2>12. now' \in Nat /\ now' >= now
    BY <1>0, <2>6
  <2> QED BY <2>6, <2>10, <2>11, <2>12, OthersKeep
<1>4. CASE Register(c) \/ FoundName(c)
  <2> DEFINE f == call[c].fam
             n == call[c].name
             i == Target(c)
             t == call[c].asOf
             b == call[c].calm
  <2>1. /\ call[c].pc \in {"register", "lookup"} /\ lease' = lease /\ n \in data'[f]
        /\ Grants(c, n, b)
    BY <1>4, GrantsAre
  <2>2. i \in LeaseIds /\ t \in Nat
    BY <1>0, <1>1, <2>1, IdIn DEF CallOK, NamedPc, Target
  <2>3. /\ hold'[c].fam = f /\ hold'[c].name = n /\ hold'[c].seen = t /\ (hold'[c].calm <=> b)
        /\ call'[c] = None /\ (call' = call \/ Ends(c)) /\ now' = now
        /\ \A g \in Family : data[g] \subseteq data'[g]
        /\ \A d \in Client \ {c} : hold'[d] = hold[d] /\ call'[d] = call[d]
    BY <2>1, GrantedIs
  <2>4. leaseId(hold'[c].fam, hold'[c].name) = i
    BY <2>3 DEF Target
  <2>6. KeptOn(c)
    <3>1. ~CallClaims(c)'
      BY <2>3 DEF CallClaims
    <3>2. ASSUME HoldClaims(c)' PROVE CallClaims(c)
      <4>1. AutoReleaseAfter = 0 \/ now - t <= AutoReleaseAfter
        BY <2>3, <3>2 DEF HoldClaims, InTime
      <4>2. t <= now
        BY <1>1 DEF CallOK
      <4>3. b
        BY <2>3, <3>2 DEF HoldClaims
      <4> QED BY <1>0, <2>1, <4>1, <4>2, <4>3 DEF CallClaims, Live
    <3>3. \A id \in LeaseIds : Claims(c, id)' => Claims(c, id)
      BY <2>4, <3>1, <3>2 DEF Claims, HoldId, Target
    <3>4. ASSUME HoldClaims(c)'
          PROVE  hold'[c].name \in data'[hold'[c].fam] /\ Safe(c, HoldId(c), hold[c].seen)'
      <4>1. Safe(c, i, t)
        BY <3>2, <3>4 DEF CallKept, Target
      <4>2. \A d \in Client \ {c} :
              ~(call'[d] # None /\ call'[d].pc \in {"lookup", "unlease"}
                /\ leaseId(call'[d].fam, call'[d].name) = i)
        <5> HIDE DEF i
        <5> QED BY <2>3, <4>1 DEF Safe, MayUnlease, Target
      <4>3. lease'[i] # None /\ lease'[i].beat >= hold'[c].seen
        BY <2>1, <2>3, <4>1 DEF Safe
      <4>4. hold'[c].name \in data'[hold'[c].fam]
        BY <2>1, <2>3
      <4> HIDE DEF i
      <4> QED BY <2>4, <4>2, <4>3, <4>4 DEF Safe, MayUnlease, Target, HoldId
    <3> QED BY <3>1, <3>3, <3>4 DEF KeptOn, CallKept, HoldKept
  <2>7. now' \in Nat /\ now' >= now
    BY <1>0, <2>3
  <2> QED BY <2>1, <2>3, <2>6, <2>7, OthersKeep
<1> QED BY <1>2, <1>3, <1>4

\* A KeepAlive of c leaves the lease of d safe, unless d saw a later sign of life.
LEMMA BeatSafe ==
  ASSUME Shapes, NEW c \in Client, KeepAlive(c), NEW d \in Client, NEW id \in LeaseIds,
         NEW t \in Nat, Safe(d, id, t), id = Target(c) => call[c].asOf >= t
  PROVE  /\ lease'[id] # None /\ lease'[id].beat >= t
         /\ \A e \in Client \ {d} : ~MayUnlease(e, id)'
<1>1. lease'[id] # None /\ lease'[id].beat >= t
  BY BeatIs DEF Safe
<1>2. \A e \in Client : MayUnlease(e, id)' => MayUnlease(e, id)
  BY KeepAliveCalls, MayUnleaseIs DEF CallLike, MayUnlease, Target
<1> QED BY <1>1, <1>2 DEF Safe

LEMMA KeepAliveKeeps ==
  ASSUME Shapes, NEW c \in Client, KeepAlive(c),
         NEW d \in Client, CallKept(d), HoldKept(d)
  PROVE  KeptOn(d)
<1>1. /\ call[c] # None /\ call[c].pc = "beat" /\ now' = now /\ data' = data
      /\ call[c].asOf \in Nat /\ now \in Nat
  BY BeatIs, CallAt
<1>2. ASSUME CallClaims(d)'
      PROVE  /\ CallClaims(d) /\ d # c /\ Target(d)' = Target(d)
             /\ Safe(d, Target(d), call[d].asOf)'
  <2>1. d # c /\ CallLike(d) /\ call[d] # None
    BY <1>2, KeepAliveCalls DEF CallClaims, CallLike
  <2>2. CallClaims(d)
    BY <1>1, <1>2, <2>1 DEF CallClaims, CallLike, Live
  <2>3. ~SetBack(d, c)
    BY <1>2, <2>1, KeepAliveCalls DEF CallClaims
  <2> DEFINE id == Target(d)
             t == call[d].asOf
  <2>4. id \in LeaseIds /\ t \in Nat /\ Safe(d, id, t)
    BY <2>2, CallClaimsAt DEF CallKept
  <2>5. id = Target(c) => call[c].asOf >= t
    BY <1>1, <2>2, <2>3, <2>4 DEF SetBack, CallClaims, At
  <2>6. leaseId(call'[d].fam, call'[d].name) = id /\ call'[d].asOf = t
    BY <2>1 DEF Target, CallLike
  <2> HIDE DEF id, t
  <2>7. /\ lease'[id] # None /\ lease'[id].beat >= t
        /\ \A i \in LeaseIds : i = id => \A e \in Client \ {d} : ~MayUnlease(e, i)'
    BY <2>4, <2>5, BeatSafe
  <2>8. \A e \in Client \ {d} :
          ~(call'[e] # None /\ call'[e].pc \in {"lookup", "unlease"}
            /\ leaseId(call'[e].fam, call'[e].name) = id)
    BY <2>4, <2>7, MayUnleaseIs
  <2> QED BY <2>1, <2>2, <2>6, <2>7, <2>8 DEF Safe, MayUnlease, Target, id
<1>3. ASSUME HoldClaims(d)'
      PROVE  /\ HoldClaims(d) /\ HoldId(d)' = HoldId(d)
             /\ hold'[d].name \in data'[hold'[d].fam] /\ Safe(d, HoldId(d), hold[d].seen)'
  <2>1. HoldLike(d) /\ hold[d] # None /\ hold'[d].calm /\ hold[d].calm /\ hold[d].name # None
    BY <1>3, KeepAliveHolds DEF HoldClaims, InTime, HoldLike
  <2>2. \/ hold'[d].seen = hold[d].seen
        \/ d = c /\ InTime(c) /\ HoldId(c) = Target(c) /\ hold'[d].seen = call[c].asOf
    BY <2>1, KeepAliveHolds
  <2>3. InTime(d)
    BY <1>1, <1>3, <2>1, <2>2 DEF HoldClaims, InTime
  <2>4. HoldClaims(d)
    BY <2>1, <2>3 DEF HoldClaims
  <2> DEFINE id == HoldId(d)
             t == hold'[d].seen
             s == hold[d].seen
  <2>5. id \in LeaseIds /\ s \in Nat /\ Safe(d, id, s) /\ hold[d].name \in data[hold[d].fam]
    BY <2>4, HoldClaimsAt DEF HoldKept
  <2>6. leaseId(hold'[d].fam, hold'[d].name) = id /\ hold'[d].name \in data'[hold'[d].fam]
    BY <1>1, <2>1, <2>5 DEF HoldLike, HoldId
  <2>7. CASE d = c
    <3>1. id = Target(c) /\ t = call[c].asOf
      <4>1. Holds(c, call[c].fam, call[c].name)
        BY <1>1, <2>1, <2>7, HoldAt DEF Keeps
      <4>2. hold'[c] = [hold[c] EXCEPT !.seen = call[c].asOf]
        BY <2>3, <2>7, <4>1 DEF KeepAlive
      <4>3. hold'[c].seen = call[c].asOf
        BY <2>1, <2>7, <4>2, HoldAt DEF Hold
      <4> QED BY <2>7, <4>1, <4>3 DEF Holds, HoldId, Target
    <3> HIDE DEF id, t, s
    <3>2. lease'[id] # None /\ lease'[id].beat >= t
      BY <1>1, <2>5, <3>1, BeatIs DEF Safe
    <3>3. \A i \in LeaseIds : i = id => \A e \in Client \ {d} : ~MayUnlease(e, i)'
      <4>1. \A e \in Client, i \in LeaseIds : MayUnlease(e, i)' => MayUnlease(e, i)
        BY KeepAliveCalls, MayUnleaseIs DEF CallLike, MayUnlease, Target
      <4> QED BY <2>5, <4>1 DEF Safe
    <3>4. \A e \in Client \ {d} :
            ~(call'[e] # None /\ call'[e].pc \in {"lookup", "unlease"}
              /\ leaseId(call'[e].fam, call'[e].name) = id)
      BY <2>5, <3>3, MayUnleaseIs
    <3> QED BY <2>4, <2>6, <3>2, <3>4 DEF Safe, MayUnlease, Target, HoldId, id, t
  <2>8. CASE d # c
    <3>1. t = s
      BY <2>2, <2>8
    <3>2. ~SetBack(d, c)
      BY <2>1, <2>8, KeepAliveHolds
    <3>3. id = Target(c) => call[c].asOf >= s
      BY <1>1, <2>1, <2>5, <3>2 DEF SetBack
    <3> HIDE DEF id, t, s
    <3>4. /\ lease'[id] # None /\ lease'[id].beat >= s
          /\ \A i \in LeaseIds : i = id => \A e \in Client \ {d} : ~MayUnlease(e, i)'
      BY <2>5, <3>3, BeatSafe
    <3>5. \A e \in Client \ {d} :
            ~(call'[e] # None /\ call'[e].pc \in {"lookup", "unlease"}
              /\ leaseId(call'[e].fam, call'[e].name) = id)
      BY <2>5, <3>4, MayUnleaseIs
    <3> QED BY <2>4, <2>6, <3>1, <3>4, <3>5 DEF Safe, MayUnlease, Target, HoldId, id, t
  <2> QED BY <2>7, <2>8
<1> QED BY <1>2, <1>3 DEF KeptOn, CallKept, HoldKept, Claims

\* The deadline of a sweep spares the leases of clients in time.
LEMMA SweepKeeps ==
  ASSUME Shapes, NEW c \in Client, Sweep(c), NEW d \in Client, CallKept(d), HoldKept(d)
  PROVE  KeptOn(d)
<1>1. /\ call[c] # None /\ AutoReleaseAfter > 0 /\ AutoReleaseAfter # 0
      /\ UNCHANGED <<now, data, counter, call, hold, misreleased>>
      /\ now \in Nat /\ now' \in Nat /\ now' >= now
  BY DEF Sweep, At, Shapes, TypeOK, Time
<1>2. PICK i \in Zombies(c) : lease' = [lease EXCEPT ![i] = None]
  BY DEF Sweep
<1>3. call[c].asOf <= now /\ call[c].asOf \in Nat
  BY <1>1, CallAt DEF CallOK
<1>4. i \in LeaseIds /\ lease[i] # None /\ call[c].asOf - lease[i].beat > AutoReleaseAfter
  BY <1>2 DEF Zombies
<1>5. lease[i].beat \in Nat
  BY <1>4 DEF Shapes, TypeOK, Lease, Time
<1>6. Sure(d)
  <2> SUFFICES ASSUME NEW id \in LeaseIds, NEW t \in Nat, Live(t), Safe(d, id, t)
               PROVE  Safe(d, id, t)'
    BY DEF Sure
  <2>1. t <= now /\ now - t <= AutoReleaseAfter
    BY <1>1 DEF Live
  <2>2. /\ lease[id] # None /\ lease[id].beat >= t
        /\ \A e \in Client \ {d} : ~MayUnlease(e, id)
    BY DEF Safe
  <2>3. id # i
    BY <1>1, <1>3, <1>4, <1>5, <2>1, <2>2
  <2>4. lease'[id] = lease[id]
    BY <1>2, <2>3 DEF Shapes, TypeOK
  <2>5. \A e \in Client \ {d} : ~MayUnlease(e, id)'
    BY <1>1, <2>2, UnleaseLess
  <2> QED BY <2>2, <2>4, <2>5, SafeIs
<1> QED BY <1>1, <1>6, Stays

\* Deleting a lease harms nobody else whose use of it is not disregarded.
LEMMA DeleteKeeps ==
  ASSUME Shapes, NEW c \in Client, NEW f \in Family, NEW n \in Name, DeleteLease(f, n),
         call' = call \/ Ends(c), now' = now, data' = data,
         NEW d \in Client, d # c, hold'[d] = hold[d], CallKept(d), HoldKept(d),
         \A t \in Nat : ~(Uses(d, leaseId(f, n)) /\ Safe(d, leaseId(f, n), t))
  PROVE  KeptOn(d)
<1>1. /\ call'[d] = call[d]
      /\ \A e \in Client, id \in LeaseIds : MayUnlease(e, id)' => MayUnlease(e, id)
  BY CallsLess
<1>2. Sure(d)
  <2> SUFFICES ASSUME NEW id \in LeaseIds, NEW t \in Nat, Uses(d, id), Safe(d, id, t)
               PROVE  Safe(d, id, t)'
    BY DEF Sure
  <2>1. id # leaseId(f, n)
    OBVIOUS
  <2>2. lease'[id] = lease[id]
    BY <2>1 DEF DeleteLease, Shapes, TypeOK
  <2>3. \A e \in Client \ {d} : ~MayUnlease(e, id)'
    BY <1>1 DEF Safe
  <2>4. lease[id] # None /\ lease[id].beat >= t
    BY DEF Safe
  <2> QED BY <2>2, <2>3, <2>4, SafeIs
<1>3. now' \in Nat /\ now' >= now
  BY DEF Shapes, TypeOK, Time
<1> QED BY <1>1, <1>2, <1>3, Stays

LEMMA UnleaseKeeps ==
  ASSUME Shapes, NEW c \in Client, Unlease(c), NEW d \in Client, CallKept(d), HoldKept(d)
  PROVE  KeptOn(d)
<1>1. /\ call[c] # None /\ call[c].pc = "unlease" /\ Ends(c)
      /\ DeleteLease(call[c].fam, call[c].name) /\ now' = now /\ data' = data /\ hold' = hold
  BY DEF Unlease, At
<1>2. call[c].fam \in Family /\ call[c].name \in Name /\ hold[c] = None
  BY <1>1, CallAt DEF CallOK, NamedPc
<1>3. CASE d = c
  <2>1. call'[c] = None /\ hold'[c] = None
    BY <1>1, <1>2 DEF Ends, Shapes, TypeOK
  <2> QED BY <1>3, <2>1, NoClaim
<1>4. CASE d # c
  <2>1. MayUnlease(c, leaseId(call[c].fam, call[c].name))
    BY <1>1 DEF MayUnlease, Target
  <2>2. \A t \in Nat : ~Safe(d, leaseId(call[c].fam, call[c].name), t)
    BY <1>4, <2>1 DEF Safe
  <2> QED BY <1>1, <1>2, <1>4, <2>2, DeleteKeeps
<1> QED BY <1>3, <1>4

LEMMA ReleaseKeeps ==
  ASSUME Shapes, NEW c \in Client, NEW f \in Family, NEW n \in Name, Release(c, f, n),
         ~misreleased', NEW d \in Client, CallKept(d), HoldKept(d)
  PROVE  KeptOn(d)
<1>1. /\ call[c] = None /\ call' = call /\ DeleteLease(f, n) /\ now' = now /\ data' = data
      /\ hold' = [hold EXCEPT ![c] = None]
  BY DEF Release, Idle
<1>2. CASE d = c
  <2>1. call'[c] = None /\ hold'[c] = None
    BY <1>1 DEF Shapes, TypeOK
  <2> QED BY <1>2, <2>1, NoClaim
<1>3. CASE d # c
  <2>1. ~Uses(d, leaseId(f, n))
    BY <1>3 DEF Release
  <2>2. hold'[d] = hold[d]
    BY <1>1, <1>3 DEF Shapes, TypeOK
  <2> QED BY <1>1, <1>3, <2>1, <2>2, DeleteKeeps
<1> QED BY <1>2, <1>3

LEMMA CrashKeeps ==
  ASSUME Shapes, NEW c \in Client, Crash(c), NEW d \in Client, CallKept(d), HoldKept(d)
  PROVE  KeptOn(d)
<1>1. /\ Ends(c) /\ hold' = [hold EXCEPT ![c] = None]
      /\ now' = now /\ data' = data /\ lease' = lease
      /\ now' \in Nat /\ now' >= now
  BY DEF Crash, Shapes, TypeOK, Time
<1>2. CASE d = c
  <2>1. call'[c] = None /\ hold'[c] = None
    BY <1>1 DEF Ends, Shapes, TypeOK
  <2> QED BY <1>2, <2>1, NoClaim
<1>3. CASE d # c
  <2>1. hold'[d] = hold[d]
    BY <1>1, <1>3 DEF Shapes, TypeOK
  <2> QED BY <1>1, <1>3, <2>1, OthersKeep
<1> QED BY <1>2, <1>3

LEMMA ResetKeeps ==
  ASSUME Shapes, NEW c \in Client, Reset(c), NEW d \in Client
  PROVE  KeptOn(d)
<1>1. PICK k \in Call \cup {None} : Disturb(c, k) /\ (k # None => k.pc \in DropPc)
  BY ResetIs
<1>2. hold'[d] = None
  BY <1>1, DisturbIs
<1>3. call'[d] = None \/ call'[d].pc \notin {"register", "lookup"} \/ ~call'[d].calm
  BY <1>1, DisturbIs DEF DropPc
<1> QED BY <1>2, <1>3, NoClaim

\* No lease is claimed by two clients.
ClaimsExclusive ==
  ~misreleased =>
    \A c, d \in Client, id \in LeaseIds : c # d /\ Claims(c, id) => ~Claims(d, id)

LEMMA ClaimedIsThere ==
  ASSUME NEW c \in Client, CallKept(c), HoldKept(c), NEW id, Claims(c, id)
  PROVE  lease[id] # None
BY DEF CallKept, HoldKept, Claims, Safe

\* Every step lets all clients keep what they can rely on, but for one that takes a lease.
LEMMA StepKeeps ==
  ASSUME Shapes, CalmHolds, Step, ~misreleased'
  PROVE  /\ ~misreleased
         /\ \/ \A d \in Client : KeptOn(d)
            \/ \E c \in Client : Takes(c) /\ \A d \in Client \ {c} : KeptOn(d)
<1>1. ~misreleased
  <2>1. ASSUME NEW c \in Client,
               \/ Goings(c) \/ CountName(c) \/ InsertCounter(c)
               \/ LeaseNew(c) \/ TryLease(c) \/ KeepAlive(c) \/ Reset(c)
        PROVE  ~misreleased
    BY <2>1, GoingsAre, CountsAre, LeasesAre, BeatIs, ResetIs
  <2>2. ASSUME NEW c \in Client, LeaseOld(c) \/ CounterFails(c) \/ Register(c) \/ FoundName(c)
        PROVE  ~misreleased
    BY <2>2 DEF LeaseOld, CounterFails, Register, FoundName
  <2>3. ASSUME NEW c \in Client, NEW f \in Family, NEW n \in Name,
               Release(c, f, n)
        PROVE  ~misreleased
    BY <2>3 DEF Release
  <2>4. ASSUME NEW c \in Client, Sweep(c) \/ Unlease(c) \/ Crash(c) PROVE ~misreleased
    BY <2>4 DEF Sweep, Unlease, Crash
  <2>5. CASE Tick \/ UNCHANGED vars
    BY <2>5 DEF Tick, vars
  <2> QED BY <2>1, <2>2, <2>3, <2>4, <2>5 DEF Step
<1>2. \A d \in Client : CallKept(d) /\ HoldKept(d)
  BY <1>1 DEF CalmHolds
<1>3. ASSUME NEW c \in Client, Goings(c) \/ CountName(c) \/ InsertCounter(c)
      PROVE  \A d \in Client : KeptOn(d)
  BY <1>2, <1>3, GoingsKeep
<1>4. ASSUME NEW c \in Client,
             \/ LeaseNew(c) \/ TryLease(c)
             \/ LeaseOld(c) \/ CounterFails(c) \/ Register(c) \/ FoundName(c)
      PROVE  Takes(c) \/ KeptOn(c)
  BY <1>2, <1>4, LeasesKeep, GrantsKeep
<1>5. ASSUME NEW c \in Client,
             \/ LeaseNew(c) \/ TryLease(c)
             \/ LeaseOld(c) \/ CounterFails(c) \/ Register(c) \/ FoundName(c)
      PROVE  \A d \in Client \ {c} : KeptOn(d)
  BY <1>2, <1>5, LeasesKeep, GrantsKeep
<1>6. ASSUME NEW c \in Client,
             KeepAlive(c) \/ \E f \in Family, n \in Name : Release(c, f, n)
      PROVE  \A d \in Client : KeptOn(d)
  BY <1>2, <1>6, KeepAliveKeeps, ReleaseKeeps
<1>7. ASSUME NEW c \in Client, Sweep(c) \/ Unlease(c) \/ Crash(c) \/ Reset(c)
      PROVE  \A d \in Client : KeptOn(d)
  BY <1>2, <1>7, SweepKeeps, UnleaseKeeps, CrashKeeps, ResetKeeps
<1>8. ASSUME Tick \/ UNCHANGED vars PROVE \A d \in Client : KeptOn(d)
  <2>1. now' \in Nat /\ now' >= now /\ UNCHANGED <<data, lease, call, hold>>
    BY <1>8 DEF Tick, vars, Shapes, TypeOK, Time
  <2>2. \A d, e \in Client, id \in LeaseIds : MayUnlease(e, id)' => MayUnlease(e, id)
    BY <2>1, UnleaseLess
  <2>3. \A d \in Client : Sure(d)
    BY <2>1, <2>2, SureWhen
  <2> QED BY <1>2, <2>1, <2>3, Stays
<1> QED BY <1>1, <1>3, <1>4, <1>5, <1>6, <1>7, <1>8 DEF Step

LEMMA CalmStep ==
  ASSUME Shapes, CalmHolds, ClaimsExclusive, Step
  PROVE  CalmHolds' /\ ClaimsExclusive'
<1>1. SUFFICES ASSUME ~misreleased'
               PROVE  /\ \A c \in Client : CallKept(c)' /\ HoldKept(c)'
                      /\ \A c, d \in Client, id \in LeaseIds :
                           c # d /\ Claims(c, id)' => ~Claims(d, id)'
  BY DEF CalmHolds, ClaimsExclusive
<1>2. ~misreleased
  BY <1>1, StepKeeps
<1>3. \A c, d \in Client, id \in LeaseIds : c # d /\ Claims(c, id) => ~Claims(d, id)
  BY <1>2 DEF ClaimsExclusive
<1>4. CASE \A d \in Client : KeptOn(d)
  BY <1>3, <1>4 DEF KeptOn
<1>5. CASE \E c \in Client : Takes(c) /\ \A d \in Client \ {c} : KeptOn(d)
  <2>1. PICK c \in Client : Takes(c) /\ \A d \in Client \ {c} : KeptOn(d)
    BY <1>5
  <2>2. PICK i \in LeaseIds : lease[i] = None /\ \A id \in LeaseIds : Claims(c, id)' => id = i
    BY <2>1 DEF Takes
  <2>3. \A d \in Client : ~Claims(d, i)
    BY <1>2, <2>2, ClaimedIsThere DEF CalmHolds
  <2>4. \A d \in Client \ {c}, id \in LeaseIds : Claims(d, id)' => Claims(d, id) /\ id # i
    BY <2>1, <2>3 DEF KeptOn
  <2> QED BY <1>3, <2>1, <2>2, <2>4 DEF KeptOn, Takes
<1> QED BY <1>1, <1>4, <1>5, StepKeeps

LEMMA CalmInvariant == Spec => [](CalmHolds /\ ClaimsExclusive)
<1>1. Init => CalmHolds /\ ClaimsExclusive
  BY DEF Init, CalmHolds, ClaimsExclusive, CallKept, HoldKept, Claims, CallClaims, HoldClaims,
         InTime
<1>2. Shapes /\ (CalmHolds /\ ClaimsExclusive) /\ [Next]_vars
      => (CalmHolds /\ ClaimsExclusive)'
  BY CalmStep, NextIsStep
<1> QED BY <1>1, <1>2, ShapesInvariant, PTL DEF Spec

\* The name of a client in time is registered and leased, and the lease is not older than
\* its last sign of life, unless a TryAcquire was about to delete it when it was taken, a
\* Reset ran through the acquisition, an older KeepAlive of another client was applied
\* after that sign of life, or the name is empty: whatever the ids, the number of clients,
\* the delays, the failures and the resets.
THEOREM MongoCalmLeaseBackedCorrect == Spec => []CalmLeaseBacked
<1>1. CalmHolds => CalmLeaseBacked
  BY DEF CalmHolds, CalmLeaseBacked, HoldKept, HoldClaims, Safe, HoldId, Backed
<1> QED BY <1>1, CalmInvariant, PTL

\* Two clients none of whose leases met one of these exceptions never have the same lease.
THEOREM MongoCalmLeaseExclusiveCorrect == Spec => []CalmLeaseExclusive
<1>1. Shapes /\ ClaimsExclusive => CalmLeaseExclusive
  <2> SUFFICES ASSUME Shapes, ClaimsExclusive, ~misreleased,
                      NEW c \in Client, NEW d \in Client, c # d, HoldClaims(c), HoldClaims(d)
               PROVE  HoldId(c) # HoldId(d)
    BY DEF CalmLeaseExclusive, HoldClaims, HoldId
  <2> QED BY HoldClaimsAt DEF ClaimsExclusive, Claims
<1> QED BY <1>1, CalmInvariant, ShapesInvariant, PTL

-----------------------------------------------------------------------------
(* Exclusion without auto-release, resets and failing counters.              *)

\* Who uses a lease is alone with it and it is there.  This covers the TryAcquires that
\* have taken a lease of a name that does not exist, and will delete it.
Owned ==
  ~misreleased =>
    \A c \in Client, id \in LeaseIds :
      Uses(c, id) => lease[id] # None /\ \A d \in Client \ {c} : ~Uses(d, id)

LEMMA UsesIs ==
  ASSUME AutoReleaseAfter = 0, NEW c \in Client, NEW id
  PROVE  /\ Uses(c, id) <=>
              \/ hold[c] # None /\ leaseId(hold[c].fam, hold[c].name) = id
              \/ /\ call[c] # None /\ call[c].pc \in {"register", "lookup", "unlease"}
                 /\ leaseId(call[c].fam, call[c].name) = id
         /\ Uses(c, id)' <=>
              \/ hold'[c] # None /\ leaseId(hold'[c].fam, hold'[c].name) = id
              \/ /\ call'[c] # None /\ call'[c].pc \in {"register", "lookup", "unlease"}
                 /\ leaseId(call'[c].fam, call'[c].name) = id
BY DEF Uses, InTime, MayUnlease, At, Target, HoldId

\* Clients whose call and name stay or end use no more leases.
LEMMA UsesLess ==
  ASSUME AutoReleaseAfter = 0, NEW c \in Client, call'[c] = call[c] \/ call'[c] = None,
         hold'[c] = hold[c] \/ hold'[c] = None, NEW id
  PROVE  Uses(c, id)' => Uses(c, id)
BY UsesIs

\* A step that at most takes the lease id for c, which was nobody's, or deletes it, which
\* is nobody's after the step.
LEMMA OwnedWhen ==
  ASSUME Owned, ~misreleased, NEW c \in Client, NEW id,
         \A i \in LeaseIds : i # id /\ lease[i] # None => lease'[i] # None,
         \A d \in Client, i \in LeaseIds : i # id \/ d # c => (Uses(d, i)' => Uses(d, i)),
         \/ lease[id] = None /\ lease'[id] # None
         \/ \A d \in Client, i \in LeaseIds : i = id => ~Uses(d, i)'
  PROVE  Owned'
<1>1. SUFFICES ASSUME NEW a \in Client, NEW i \in LeaseIds, Uses(a, i)'
               PROVE  lease'[i] # None /\ \A d \in Client \ {a} : ~Uses(d, i)'
  BY DEF Owned
<1>2. \A b \in Client, j \in LeaseIds :
        Uses(b, j) => lease[j] # None /\ \A d \in Client \ {b} : ~Uses(d, j)
  BY DEF Owned
<1>3. CASE i # id
  BY <1>1, <1>2, <1>3
<1>4. CASE i = id
  <2>1. lease[id] = None /\ lease'[id] # None
    BY <1>1, <1>4
  <2>2. \A d \in Client : ~Uses(d, i)
    BY <1>2, <1>4, <2>1
  <2>3. \A d \in Client : d # c => ~Uses(d, i)'
    BY <2>2
  <2> QED BY <1>1, <1>4, <2>1, <2>3
<1> QED BY <1>3, <1>4

LEMMA OwnedStays ==
  ASSUME Owned, ~misreleased,
         \A i \in LeaseIds : lease[i] # None => lease'[i] # None,
         \A d \in Client, i \in LeaseIds : Uses(d, i)' => Uses(d, i)
  PROVE  Owned'
BY DEF Owned

LEMMA OwnedStep ==
  ASSUME AutoReleaseAfter = 0, ~Resets, ~CounterFaults, Shapes, CalmHolds, Owned, Step
  PROVE  Owned'
<1>0. SUFFICES ASSUME ~misreleased' PROVE Owned'
  BY DEF Owned
<1>m. ~misreleased
  BY <1>0, StepKeeps
<1>1. ASSUME NEW c \in Client, Goings(c) \/ CountName(c) \/ InsertCounter(c) PROVE Owned'
  <2>1. lease' = lease /\ hold' = hold
    BY <1>1, GoingsAre, CountsAre
  <2>2. PICK k : Moves(c, k) /\ GoesQuiet(c, k)
    BY <1>1, QuietGoings
  <2>3. \A d \in Client : call'[d] = IF d = c THEN k ELSE call[d]
    BY <2>2, MovesAt
  <2>4. ASSUME NEW d \in Client, d # c, NEW i \in LeaseIds PROVE Uses(d, i)' => Uses(d, i)
    BY <2>1, <2>3, <2>4, UsesLess
  <2>5. ASSUME NEW i \in LeaseIds PROVE Uses(c, i)' => Uses(c, i)
    BY <2>1, <2>2, <2>3, UsesIs DEF GoesQuiet
  <2> QED BY <1>m, <2>1, <2>4, <2>5, OwnedStays
<1>2. ASSUME NEW c \in Client, LeaseNew(c) \/ TryLease(c) PROVE Owned'
  <2> DEFINE i == Target(c)
  <2>1. call[c] # None /\ call[c].name \in Name /\ InsertLease(c) /\ hold' = hold /\ hold[c] = None
    BY <1>2, LeasesAre
  <2>2. PICK k \in Call : Moves(c, k) /\ k.fam = call[c].fam /\ k.name = call[c].name
    BY <1>2, LeasesAre
  <2>3. /\ lease[i] = None /\ lease'[i] # None
        /\ \A id \in LeaseIds : id # i => lease'[id] = lease[id]
    BY <2>1, InsertIs
  <2>4. \A d \in Client : call'[d] = IF d = c THEN k ELSE call[d]
    BY <2>2, MovesAt
  <2>5. leaseId(call'[c].fam, call'[c].name) = i
    BY <2>2, <2>4 DEF Target
  <2> HIDE DEF i
  <2>6. ASSUME NEW d \in Client, d # c, NEW id \in LeaseIds PROVE Uses(d, id)' => Uses(d, id)
    BY <2>1, <2>4, <2>6, UsesLess
  <2>7. ASSUME NEW id \in LeaseIds, id # i PROVE ~Uses(c, id)'
    BY <2>1, <2>5, <2>7, UsesIs
  <2> QED BY <1>m, <2>3, <2>6, <2>7, OwnedWhen
<1>3. ASSUME NEW c \in Client, LeaseOld(c) PROVE Owned'
  <2> DEFINE n == call[c].name
             i == Target(c)
             b == call[c].calm /\ Calm(i)
  <2>1. call[c] # None /\ n \in Name /\ InsertLease(c) /\ Grants(c, n, b)
    BY <1>3, GrantsAre
  <2>2. /\ lease[i] = None /\ lease'[i] # None
        /\ \A id \in LeaseIds : id # i => lease'[id] = lease[id]
    BY <2>1, InsertIs
  <2> HIDE DEF b
  <2>3. /\ hold'[c].fam = call[c].fam /\ hold'[c].name = n /\ call'[c] = None
        /\ \A d \in Client \ {c} : hold'[d] = hold[d] /\ call'[d] = call[d]
    BY <2>1, GrantedIs
  <2>4. leaseId(hold'[c].fam, hold'[c].name) = i
    BY <2>3 DEF Target
  <2> HIDE DEF i
  <2>5. ASSUME NEW d \in Client, d # c, NEW id \in LeaseIds PROVE Uses(d, id)' => Uses(d, id)
    BY <2>3, <2>5, UsesLess
  <2>6. ASSUME NEW id \in LeaseIds, id # i PROVE ~Uses(c, id)'
    BY <2>3, <2>4, <2>6, UsesIs
  <2> QED BY <1>m, <2>2, <2>5, <2>6, OwnedWhen
<1>4. ASSUME NEW c \in Client, Register(c) \/ FoundName(c) PROVE Owned'
  <2> DEFINE f == call[c].fam
             n == call[c].name
             b == call[c].calm
  <2>1. /\ call[c] # None /\ call[c].pc \in {"register", "lookup"} /\ lease' = lease
        /\ Grants(c, n, b)
    BY <1>4, GrantsAre
  <2>2. /\ hold'[c].fam = f /\ hold'[c].name = n /\ call'[c] = None
        /\ \A d \in Client \ {c} : hold'[d] = hold[d] /\ call'[d] = call[d]
    BY <2>1, GrantedIs
  <2>3. ASSUME NEW d \in Client, d # c, NEW id \in LeaseIds PROVE Uses(d, id)' => Uses(d, id)
    BY <2>2, <2>3, UsesLess
  <2>4. ASSUME NEW id \in LeaseIds PROVE Uses(c, id)' => Uses(c, id)
    BY <2>1, <2>2, UsesIs
  <2> QED BY <1>m, <2>1, <2>3, <2>4, OwnedStays
<1>5. ASSUME NEW c \in Client, CounterFails(c) PROVE FALSE
  BY <1>5 DEF CounterFails
<1>6. ASSUME NEW c \in Client, KeepAlive(c) PROVE Owned'
  <2>1. \A i \in LeaseIds : lease[i] # None => lease'[i] # None
    BY <1>6, BeatIs
  <2>2. ASSUME NEW d \in Client, NEW i \in LeaseIds PROVE Uses(d, i)' => Uses(d, i)
    BY <1>6, KeepAliveHolds, KeepAliveCalls, UsesIs DEF HoldLike, CallLike
  <2> QED BY <1>m, <2>1, <2>2, OwnedStays
<1>7. ASSUME NEW c \in Client, Sweep(c) PROVE FALSE
  BY <1>7 DEF Sweep
<1>8. ASSUME NEW c \in Client, NEW f \in Family, NEW n \in Name, DeleteLease(f, n),
             \A d \in Client : /\ call'[d] = call[d] \/ call'[d] = None
                               /\ hold'[d] = hold[d] \/ hold'[d] = None,
             call'[c] = None, hold'[c] = None,
             \A d \in Client \ {c} : ~Uses(d, leaseId(f, n))
      PROVE  Owned'
  <2>1. \A i \in LeaseIds : i # leaseId(f, n) => lease'[i] = lease[i]
    BY <1>8 DEF DeleteLease, Shapes, TypeOK
  <2>2. ASSUME NEW d \in Client, NEW i \in LeaseIds PROVE Uses(d, i)' => Uses(d, i)
    BY <1>8, UsesLess
  <2>3. ASSUME NEW i \in LeaseIds PROVE ~Uses(c, i)'
    BY <1>8, UsesIs
  <2>4. \A d \in Client, i \in LeaseIds : i = leaseId(f, n) => ~Uses(d, i)'
    BY <1>8, <2>2, <2>3
  <2> QED BY <1>m, <2>1, <2>2, <2>4, OwnedWhen
<1>9. ASSUME NEW c \in Client, Unlease(c) PROVE Owned'
  <2>1. /\ call[c] # None /\ call[c].pc = "unlease" /\ Ends(c)
        /\ DeleteLease(call[c].fam, call[c].name) /\ hold' = hold
    BY <1>9 DEF Unlease, At
  <2>2. call[c].fam \in Family /\ call[c].name \in Name /\ hold[c] = None
    BY <2>1, CallAt DEF CallOK, NamedPc
  <2>3. leaseId(call[c].fam, call[c].name) \in LeaseIds
    BY <2>2, IdIn
  <2>4. Uses(c, leaseId(call[c].fam, call[c].name))
    BY <2>1, UsesIs
  <2>5. \A d \in Client \ {c} : ~Uses(d, leaseId(call[c].fam, call[c].name))
    BY <1>m, <2>3, <2>4 DEF Owned
  <2>6. \A d \in Client : call'[d] = IF d = c THEN None ELSE call[d]
    BY <2>1 DEF Ends, Shapes, TypeOK
  <2> QED BY <1>8, <2>1, <2>2, <2>5, <2>6
<1>10. ASSUME NEW c \in Client, NEW f \in Family, NEW n \in Name, Release(c, f, n)
       PROVE  Owned'
  <2>1. /\ DeleteLease(f, n) /\ call' = call /\ call[c] = None
        /\ hold' = [hold EXCEPT ![c] = None]
        /\ \A d \in Client \ {c} : ~Uses(d, leaseId(f, n))
    BY <1>0, <1>10 DEF Release, Idle
  <2>2. \A d \in Client : hold'[d] = IF d = c THEN None ELSE hold[d]
    BY <2>1 DEF Shapes, TypeOK
  <2> QED BY <1>8, <2>1, <2>2
<1>11. ASSUME NEW c \in Client, Crash(c) PROVE Owned'
  <2>1. /\ lease' = lease
        /\ \A d \in Client : /\ call'[d] = call[d] \/ call'[d] = None
                             /\ hold'[d] = hold[d] \/ hold'[d] = None
    BY <1>11 DEF Crash, Ends, Shapes, TypeOK
  <2>2. ASSUME NEW d \in Client, NEW i \in LeaseIds PROVE Uses(d, i)' => Uses(d, i)
    BY <2>1, UsesLess
  <2> QED BY <1>m, <2>1, <2>2, OwnedStays
<1>12. ASSUME NEW c \in Client, Reset(c) PROVE FALSE
  BY <1>12, ResetIs
<1>13. CASE Tick \/ UNCHANGED vars
  <2>1. UNCHANGED <<lease, call, hold>>
    BY <1>13 DEF Tick, vars
  <2>2. ASSUME NEW d \in Client, NEW i \in LeaseIds PROVE Uses(d, i)' => Uses(d, i)
    BY <2>1, UsesLess
  <2> QED BY <1>m, <2>1, <2>2, OwnedStays
<1> QED BY <1>1, <1>2, <1>3, <1>4, <1>5, <1>6, <1>7, <1>9, <1>10, <1>11, <1>12, <1>13 DEF Step

\* Without auto-release, resets and failing counters no two clients hold the same name, as
\* long as nobody releases what another one uses: the unique _id of the leases is enough,
\* between any two operations of any calls, and also of a TryAcquire that takes its lease
\* back.
THEOREM MongoLeaseExclusiveCorrect ==
  ASSUME AutoReleaseAfter = 0, ~Resets, ~CounterFaults
  PROVE  Spec => []LeaseExclusive
<1>1. Init => Owned
  BY UsesIs DEF Init, Owned
<1>2. Shapes /\ (CalmHolds /\ ClaimsExclusive) /\ Owned /\ [Next]_vars => Owned'
  BY OwnedStep, NextIsStep
<1>3. Shapes /\ Owned => LeaseExclusive
  <2>1. SUFFICES ASSUME Shapes, Owned, ~misreleased, NEW c \in Client, NEW d \in Client,
                        c # d, InTime(c), InTime(d), SameName(c, d)
                 PROVE  FALSE
    BY DEF LeaseExclusive
  <2> DEFINE i == leaseId(hold[c].fam, hold[c].name)
  <2>2. hold[c] # None /\ hold[d] # None
    BY <2>1 DEF InTime
  <2>3. hold[c].fam \in Family /\ hold[c].name \in Name
    BY <2>1, <2>2, HoldAt DEF Shapes, HoldShape
  <2>4. i \in LeaseIds
    BY <2>3, IdIn
  <2>5. Uses(c, i)
    BY <2>2, UsesIs
  <2>6. leaseId(hold[d].fam, hold[d].name) = i
    BY <2>1 DEF SameName
  <2> HIDE DEF i
  <2>7. Uses(d, i)
    BY <2>2, <2>6, UsesIs
  <2> QED BY <2>1, <2>4, <2>5, <2>7 DEF Owned
<1> QED BY <1>1, <1>2, <1>3, ShapesInvariant, CalmInvariant, PTL DEF Spec

-----------------------------------------------------------------------------
(* Where leases come from.                                                   *)

\* The lease of id comes into being in a step.
Appears(id) == lease[id] = None /\ lease'[id] # None

LEMMA GrantedHolds ==
  ASSUME Shapes, NEW c \in Client, call[c] # None, NEW n \in Name, NEW calm \in BOOLEAN,
         Grants(c, n, calm)
  PROVE  hold'[c] # None /\ hold'[c].fam = call[c].fam /\ hold'[c].name = n
<1> DEFINE h == [fam |-> call[c].fam, name |-> n, seen |-> call[c].asOf, calm |-> calm]
<1>1. h \in Hold /\ h.fam = call[c].fam /\ h.name = n
  BY CallAt DEF Hold
<1>2. hold' = [hold EXCEPT ![c] = h]
  BY DEF Grants, Granted
<1> HIDE DEF h
<1> QED BY <1>1, <1>2, NotNone DEF Shapes, TypeOK

LEMMA OnlyGrantsStep ==
  ASSUME Shapes, Step, NEW id \in LeaseIds, Appears(id)
  PROVE  \E c \in Client : TakenBy(c, id)
<1>1. ASSUME lease' = lease PROVE FALSE
  BY <1>1 DEF Appears
<1>2. ASSUME NEW i, lease' = [lease EXCEPT ![i] = None] PROVE FALSE
  BY <1>2 DEF Appears, Shapes, TypeOK
<1>3. ASSUME NEW c \in Client, Goings(c) \/ CountName(c) \/ InsertCounter(c) PROVE FALSE
  BY <1>1, <1>3, GoingsAre, CountsAre
<1>4. ASSUME NEW c \in Client, LeaseNew(c) \/ TryLease(c) PROVE TakenBy(c, id)
  <2>1. /\ call[c] # None /\ call[c].pc \in {"lease", "tryLease"} /\ call[c].name \in Name
        /\ InsertLease(c)
    BY <1>4, LeasesAre
  <2>2. PICK k \in Call :
          /\ Moves(c, k)
          /\ k.pc = (IF call[c].pc = "lease" THEN "register" ELSE "lookup")
    BY <1>4, LeasesAre
  <2>3. call'[c] # None /\ call'[c].pc \in {"register", "lookup"}
    BY <2>2, MovesAt, NotNone
  <2>4. \A i \in LeaseIds : i # Target(c) => lease'[i] = lease[i]
    BY <2>1, InsertIs
  <2>5. Target(c) = id
    BY <2>4 DEF Appears
  <2> QED BY <2>1, <2>3, <2>5 DEF TakenBy
<1>5. ASSUME NEW c \in Client, LeaseOld(c) PROVE TakenBy(c, id)
  <2> DEFINE n == call[c].name
             b == call[c].calm /\ Calm(Target(c))
  <2>1. call[c] # None /\ n \in Name /\ InsertLease(c) /\ Grants(c, n, b) /\ hold[c] = None
    BY <1>5, GrantsAre, CallAt
  <2>2. b \in BOOLEAN
    BY Zenon
  <2>3. \A i \in LeaseIds : i # Target(c) => lease'[i] = lease[i]
    BY <2>1, InsertIs
  <2>4. Target(c) = id
    BY <2>3 DEF Appears
  <2> HIDE DEF b
  <2>5. hold'[c] # None /\ hold'[c].fam = call[c].fam /\ hold'[c].name = n
    <3> HIDE DEF n
    <3> QED BY <2>1, <2>2, GrantedHolds
  <2>6. leaseId(hold'[c].fam, hold'[c].name) = id
    BY <2>4, <2>5 DEF Target
  <2> QED BY <2>1, <2>5, <2>6 DEF TakenBy
<1>6. ASSUME NEW c \in Client, CounterFails(c) \/ Register(c) \/ FoundName(c) PROVE FALSE
  BY <1>1, <1>6, GrantsAre
<1>7. ASSUME NEW c \in Client, KeepAlive(c) PROVE FALSE
  BY <1>7, BeatIs DEF Appears
<1>8. ASSUME NEW c \in Client,
             \/ Sweep(c) \/ Unlease(c) \/ Crash(c)
             \/ \E f \in Family, n \in Name : Release(c, f, n)
      PROVE  FALSE
  <2>1. lease' = lease \/ \E i : lease' = [lease EXCEPT ![i] = None]
    BY <1>8 DEF Sweep, Unlease, Crash, Release, DeleteLease
  <2> QED BY <1>1, <1>2, <2>1
<1>9. ASSUME NEW c \in Client, Reset(c) PROVE FALSE
  BY <1>9 DEF Reset, StartReset, DropData, DropLeases, DropCounters, Appears
<1>10. CASE Tick \/ UNCHANGED vars
  BY <1>1, <1>10 DEF Tick, vars
<1> QED BY <1>3, <1>4, <1>5, <1>6, <1>7, <1>8, <1>9, <1>10 DEF Step

\* A lease comes into being only for a client that acquires its name, whatever else goes
\* on: auto-release, resets, strays and failures included.
THEOREM MongoOnlyGrantsCorrect == Spec => OnlyGrants
<1>1. Shapes /\ [Next]_vars =>
        [\A id \in LeaseIds :
           lease[id] = None /\ lease'[id] # None => \E c \in Client : TakenBy(c, id)]_vars
  BY OnlyGrantsStep, NextIsStep DEF Appears
<1> QED BY <1>1, ShapesInvariant, PTL DEF Spec, OnlyGrants

-----------------------------------------------------------------------------
(* The promise of NameManager, without auto-release, resets, failing         *)
(* counters and strays, when no two names share the id of their lease.       *)

\* True when no family ends in a digit, for example.
DistinctIds ==
  \A f, g \in Family, n, m \in Name : leaseId(f, n) = leaseId(g, m) => f = g /\ n = m

\* Nobody releases what another client uses, and every used lease is there.
Faithful == Owned /\ ~misreleased

\* The loop of Acquire goes over registered names.
LoopsOverData ==
  \A c \in Client :
    call[c] # None /\ call[c].pc \in LoopPc => call[c].todo \subseteq data[call[c].fam]

LEMMA FaithfulStep ==
  ASSUME AutoReleaseAfter = 0, ~Resets, ~CounterFaults, ~Strays,
         Shapes, CalmHolds, Faithful, Step
  PROVE  Faithful'
<1>1. ~misreleased'
  <2>1. ASSUME NEW c \in Client, NEW f \in Family, NEW n \in Name, Release(c, f, n)
        PROVE  ~misreleased'
    <3>1. hold[c] # None /\ leaseId(hold[c].fam, hold[c].name) = leaseId(f, n)
      BY <2>1 DEF Release, MayName, Holds
    <3>2. Uses(c, leaseId(f, n))
      BY <3>1, UsesIs
    <3>3. \A d \in Client \ {c} : ~Uses(d, leaseId(f, n))
      BY <3>2, IdIn DEF Faithful, Owned
    <3> QED BY <2>1, <3>3 DEF Release, Faithful
  <2>2. ASSUME NEW c \in Client,
               Goings(c) \/ CountName(c) \/ InsertCounter(c) \/ LeaseNew(c) \/ TryLease(c)
        PROVE  ~misreleased'
    BY <2>2, GoingsAre, CountsAre, LeasesAre DEF Faithful
  <2>3. ASSUME NEW c \in Client, LeaseOld(c) \/ CounterFails(c) \/ Register(c) \/ FoundName(c)
        PROVE  ~misreleased'
    BY <2>3 DEF LeaseOld, CounterFails, Register, FoundName, Faithful
  <2>4. ASSUME NEW c \in Client, KeepAlive(c) PROVE ~misreleased'
    BY <2>4 DEF KeepAlive, Faithful
  <2>5. ASSUME NEW c \in Client, Sweep(c) \/ Unlease(c) \/ Crash(c) PROVE ~misreleased'
    BY <2>5 DEF Sweep, Unlease, Crash, Faithful
  <2>6. ASSUME NEW c \in Client, Reset(c) PROVE FALSE
    BY <2>6, ResetIs
  <2>7. CASE Tick \/ UNCHANGED vars
    BY <2>7 DEF Tick, vars, Faithful
  <2> QED BY <2>1, <2>2, <2>3, <2>4, <2>5, <2>6, <2>7 DEF Step
<1>2. Owned'
  BY OwnedStep DEF Faithful
<1> QED BY <1>1, <1>2 DEF Faithful

LEMMA LoopsStep ==
  ASSUME ~Resets, Shapes, LoopsOverData, Step
  PROVE  LoopsOverData'
<1>1. ASSUME \A g \in Family : data[g] \subseteq data'[g],
             \A d \in Client :
               \/ call'[d] = call[d] \/ call'[d] = None \/ CallLike(d)
               \/ call'[d].pc \notin LoopPc
               \/ /\ call'[d].fam \in Family
                  /\ call'[d].todo \subseteq data[call'[d].fam]
      PROVE  LoopsOverData'
  <2>1. SUFFICES ASSUME NEW d \in Client, call'[d] # None, call'[d].pc \in LoopPc
                 PROVE  call'[d].todo \subseteq data'[call'[d].fam]
    BY DEF LoopsOverData
  <2>2. CASE call'[d] = call[d] \/ CallLike(d)
    <3>1. /\ call[d] # None /\ call[d].pc \in LoopPc
          /\ call'[d].fam = call[d].fam /\ call'[d].todo = call[d].todo
      BY <2>1, <2>2 DEF CallLike
    <3> QED BY <1>1, <3>1, CallAt DEF LoopsOverData
  <2> QED BY <1>1, <2>1, <2>2
<1>2. ASSUME NEW c \in Client, NEW k, Moves(c, k), data' = data,
             \/ k = None
             \/ k.pc \notin LoopPc
             \/ k.fam \in Family /\ k.todo \subseteq data[k.fam]
      PROVE  LoopsOverData'
  <2>1. \A d \in Client : call'[d] = IF d = c THEN k ELSE call[d]
    BY <1>2, MovesAt
  <2> QED BY <1>1, <1>2, <2>1
<1>3. ASSUME NEW c \in Client, Goings(c) PROVE LoopsOverData'
  <2>1. data' = data
    BY <1>3, GoingsAre
  <2>2. PICK k : Follows(c, k)
    BY <1>3, GoingsAre
  <2>3. ASSUME k # None, k.pc \in LoopPc PROVE k.fam \in Family /\ k.todo \subseteq data[k.fam]
    <3>1. k.fam \in Family
      BY <2>2, <2>3 DEF Follows, Moves, Call
    <3>2. k.todo = data[k.fam] \/ FollowsOn(c, k)
      BY <2>2, <2>3 DEF Follows, LoopPc
    <3>3. CASE FollowsOn(c, k)
      <4>1. call[c] # None /\ call[c].pc \in LoopPc
            /\ k.fam = call[c].fam /\ k.todo \subseteq call[c].todo
        BY <2>3, <3>3 DEF FollowsOn, LoopPc
      <4> QED BY <3>1, <4>1 DEF LoopsOverData
    <3> QED BY <3>1, <3>2, <3>3
  <2> QED BY <1>2, <2>1, <2>2, <2>3 DEF Follows
<1>4. ASSUME NEW c \in Client,
             CountName(c) \/ InsertCounter(c) \/ LeaseNew(c) \/ TryLease(c)
      PROVE  LoopsOverData'
  <2>1. data' = data /\ \E k : Moves(c, k) /\ k.pc \notin LoopPc
    BY <1>4, CountsAre, LeasesAre DEF LoopPc
  <2> QED BY <1>2, <2>1
<1>5. ASSUME NEW c \in Client, call' = call \/ Ends(c),
             \A g \in Family : data[g] \subseteq data'[g]
      PROVE  LoopsOverData'
  BY <1>1, <1>5, CallsLess
<1>6. ASSUME NEW c \in Client, LeaseOld(c) \/ CounterFails(c) \/ Register(c) \/ FoundName(c)
      PROVE  LoopsOverData'
  BY <1>5, <1>6, GrantsAre DEF Grants
<1>7. ASSUME NEW c \in Client, KeepAlive(c) PROVE LoopsOverData'
  BY <1>1, <1>7, BeatIs, KeepAliveCalls
<1>8. ASSUME NEW c \in Client, NEW f \in Family, NEW n \in Name, Release(c, f, n)
      PROVE  LoopsOverData'
  BY <1>5, <1>8 DEF Release
<1>9. ASSUME NEW c \in Client, Sweep(c) \/ Unlease(c) \/ Crash(c) PROVE LoopsOverData'
  BY <1>5, <1>9 DEF Sweep, Unlease, Crash
<1>10. ASSUME NEW c \in Client, Reset(c) PROVE FALSE
  BY <1>10, ResetIs
<1>11. CASE Tick \/ UNCHANGED vars
  BY <1>1, <1>11 DEF Tick, vars
<1> QED BY <1>3, <1>4, <1>6, <1>7, <1>8, <1>9, <1>10, <1>11 DEF Step

\* What the mapped tables hold, before and after a step.
LEMMA TableFacts ==
  /\ registeredNames \subseteq Family \X Name
  /\ namesInUse \subseteq Family \X Name
  /\ registeredNames' \subseteq Family \X Name
  /\ namesInUse' \subseteq Family \X Name
  /\ \A g \in Family, m \in Name :
       /\ <<g, m>> \in registeredNames <=> m \in data[g]
       /\ <<g, m>> \in namesInUse <=> (m \in data[g] /\ lease[leaseId(g, m)] # None)
       /\ <<g, m>> \in registeredNames' <=> m \in data'[g]
       /\ <<g, m>> \in namesInUse' <=> (m \in data'[g] /\ lease'[leaseId(g, m)] # None)
BY DEF registeredNames, namesInUse, Leased

LEMMA SamePairs ==
  ASSUME NEW R, NEW S, R \subseteq Family \X Name, S \subseteq Family \X Name,
         \A g \in Family, m \in Name : <<g, m>> \in R <=> <<g, m>> \in S
  PROVE  R = S
<1>1. \A p \in Family \X Name : p \in R <=> p \in S
  <2>1. SUFFICES ASSUME NEW p \in Family \X Name PROVE p \in R <=> p \in S
    OBVIOUS
  <2>2. p[1] \in Family /\ p[2] \in Name /\ p = <<p[1], p[2]>>
    BY <2>1
  <2> QED BY <2>2
<1> QED BY <1>1

\* The steps that neither make nor delete a lease of a registered name.
LEMMA TableFrame ==
  ASSUME data' = data,
         \A g \in Family : \A m \in Name : m \in data[g] =>
           (lease'[leaseId(g, m)] # None <=> lease[leaseId(g, m)] # None)
  PROVE  registeredNames' = registeredNames /\ namesInUse' = namesInUse
<1>1. \A g \in Family, m \in Name :
        /\ <<g, m>> \in registeredNames' <=> <<g, m>> \in registeredNames
        /\ <<g, m>> \in namesInUse' <=> <<g, m>> \in namesInUse
  BY TableFacts
<1> QED BY <1>1, TableFacts, SamePairs

\* The name that client c has, and has after a step.
LEMMA HoldsFacts ==
  ASSUME NEW c \in Client
  PROVE  /\ currentHolds[c] =
              IF hold[c] # None THEN <<hold[c].fam, hold[c].name>>
              ELSE IF /\ call[c] # None /\ call[c].pc \in {"lookup", "register"}
                      /\ call[c].name \in data[call[c].fam]
              THEN <<call[c].fam, call[c].name>>
              ELSE None
         /\ currentHolds'[c] =
              IF hold'[c] # None THEN <<hold'[c].fam, hold'[c].name>>
              ELSE IF /\ call'[c] # None /\ call'[c].pc \in {"lookup", "register"}
                      /\ call'[c].name \in data'[call'[c].fam]
              THEN <<call'[c].fam, call'[c].name>>
              ELSE None
BY DEF currentHolds, At

LEMMA HoldsAre ==
  /\ currentHolds = [c \in Client |-> currentHolds[c]]
  /\ currentHolds' = [c \in Client |-> currentHolds'[c]]
BY DEF currentHolds

\* The other clients keep what they have.
Bystander(d) ==
  /\ call'[d] = call[d] \/ CallLike(d)
  /\ hold'[d] = hold[d] \/ HoldLike(d)

LEMMA BystanderHolds ==
  ASSUME NEW d \in Client, Bystander(d), data' = data
  PROVE  currentHolds'[d] = currentHolds[d]
<1>1. /\ hold'[d] = None <=> hold[d] = None
      /\ hold[d] # None => hold'[d].fam = hold[d].fam /\ hold'[d].name = hold[d].name
  BY DEF Bystander, HoldLike
<1>2. /\ call'[d] = None <=> call[d] = None
      /\ call[d] # None => /\ call'[d].fam = call[d].fam /\ call'[d].name = call[d].name
                           /\ call'[d].pc = call[d].pc
  BY DEF Bystander, CallLike
<1>3. CASE hold[d] # None
  BY <1>1, <1>3, HoldsFacts
<1>4. CASE hold[d] = None /\ call[d] = None
  BY <1>1, <1>2, <1>4, HoldsFacts
<1>5. CASE hold[d] = None /\ call[d] # None
  BY <1>1, <1>2, <1>5, HoldsFacts
<1> QED BY <1>3, <1>4, <1>5

LEMMA HoldsChange ==
  ASSUME NEW c \in Client, NEW v, currentHolds'[c] = v,
         \A d \in Client : d # c => currentHolds'[d] = currentHolds[d]
  PROVE  currentHolds' = [currentHolds EXCEPT ![c] = v]
<1> DEFINE a == currentHolds
           b == currentHolds'
<1>1. a = [d \in Client |-> a[d]] /\ b = [d \in Client |-> b[d]]
  BY HoldsAre
<1>2. b[c] = v /\ \A d \in Client : d # c => b[d] = a[d]
  OBVIOUS
<1> HIDE DEF a, b
<1>3. b = [a EXCEPT ![c] = v]
  BY <1>1, <1>2
<1> QED BY <1>3 DEF a, b

\* c loses its name, if it has one, without a word to the backend.
LEMMA LosesImplements ==
  ASSUME NEW c \in Client, data' = data, lease' = lease, hold'[c] = None,
         call'[c] = None \/ call'[c].pc \notin {"lookup", "register"},
         \A d \in Client : d # c => Bystander(d)
  PROVE  Promise!Crash(c)
<1>1. registeredNames' = registeredNames /\ namesInUse' = namesInUse
  BY TableFrame
<1>2. currentHolds'[c] = None
  BY HoldsFacts
<1>3. currentHolds' = [currentHolds EXCEPT ![c] = None]
  BY <1>2, BystanderHolds, HoldsChange
<1> QED BY <1>1, <1>3 DEF Promise!Crash

\* c gets the name n of f: it has been registered, perhaps just now, and leased, perhaps
\* just now, and was not both before.
LEMMA TakeImplements ==
  ASSUME DistinctIds, NEW c \in Client, NEW f \in Family, NEW n \in Name,
         currentHolds[c] = None, currentHolds'[c] = <<f, n>>,
         \A d \in Client : d # c => currentHolds'[d] = currentHolds[d],
         n \notin data[f] \/ lease[leaseId(f, n)] = None,
         n \in data'[f], lease'[leaseId(f, n)] # None,
         \A g \in Family, m \in Name :
           <<g, m>> # <<f, n>> => (m \in data'[g] <=> m \in data[g]),
         \A id \in LeaseIds : id # leaseId(f, n) => lease'[id] = lease[id]
  PROVE  Promise!Grant(c, <<f, n>>, {})
<1>1. \A g \in Family, m \in Name :
        <<g, m>> # <<f, n>> => lease'[leaseId(g, m)] = lease[leaseId(g, m)]
  BY IdIn DEF DistinctIds
<1>2. \A g \in Family, m \in Name :
        /\ <<g, m>> \in registeredNames' <=> <<g, m>> \in registeredNames \cup {<<f, n>>}
        /\ <<g, m>> \in namesInUse' <=> <<g, m>> \in namesInUse \cup {<<f, n>>}
  <2> SUFFICES ASSUME NEW g \in Family, NEW m \in Name
               PROVE  /\ <<g, m>> \in registeredNames' <=>
                            <<g, m>> \in registeredNames \cup {<<f, n>>}
                      /\ <<g, m>> \in namesInUse' <=> <<g, m>> \in namesInUse \cup {<<f, n>>}
    OBVIOUS
  <2>1. CASE g = f /\ m = n
    BY <2>1, TableFacts
  <2>2. CASE <<g, m>> # <<f, n>>
    BY <1>1, <2>2, TableFacts
  <2> QED BY <2>1, <2>2
<1>3. /\ registeredNames' = registeredNames \cup {<<f, n>>}
      /\ namesInUse' = (namesInUse \ {}) \cup {<<f, n>>}
  <2>1. namesInUse \cup {<<f, n>>} = (namesInUse \ {}) \cup {<<f, n>>}
    OBVIOUS
  <2> DEFINE R == registeredNames'
             S == registeredNames \cup {<<f, n>>}
             U == namesInUse'
             V == namesInUse \cup {<<f, n>>}
  <2>2. /\ R \subseteq Family \X Name /\ S \subseteq Family \X Name
        /\ U \subseteq Family \X Name /\ V \subseteq Family \X Name
    BY TableFacts
  <2> HIDE DEF R, S, U, V
  <2>3. R = S
    <3>1. \A g \in Family, m \in Name : <<g, m>> \in R <=> <<g, m>> \in S
      BY <1>2 DEF R, S
    <3> QED BY <2>2, <3>1, SamePairs
  <2>4. U = V
    <3>1. \A g \in Family, m \in Name : <<g, m>> \in U <=> <<g, m>> \in V
      BY <1>2 DEF U, V
    <3> QED BY <2>2, <3>1, SamePairs
  <2> QED BY <2>1, <2>3, <2>4 DEF R, S, U, V
<1>4. <<f, n>> \notin namesInUse \ {}
  BY TableFacts
<1>5. currentHolds' = [currentHolds EXCEPT ![c] = <<f, n>>]
  BY HoldsChange
<1> QED BY <1>3, <1>4, <1>5 DEF Promise!Grant

\* The lease of n in f is deleted.
LEMMA DropsImplement ==
  ASSUME DistinctIds, Shapes, NEW f \in Family, NEW n \in Name, DeleteLease(f, n), data' = data
  PROVE  registeredNames' = registeredNames /\ namesInUse' = namesInUse \ {<<f, n>>}
<1>1. /\ lease'[leaseId(f, n)] = None
      /\ \A id \in LeaseIds : id # leaseId(f, n) => lease'[id] = lease[id]
  BY IdIn DEF DeleteLease, Shapes, TypeOK
<1>2. \A g \in Family, m \in Name :
        <<g, m>> # <<f, n>> => lease'[leaseId(g, m)] = lease[leaseId(g, m)]
  BY <1>1, IdIn DEF DistinctIds
<1>3. \A g \in Family, m \in Name :
        /\ <<g, m>> \in registeredNames' <=> <<g, m>> \in registeredNames
        /\ <<g, m>> \in namesInUse' <=> <<g, m>> \in namesInUse \ {<<f, n>>}
  BY <1>1, <1>2, TableFacts
<1>4. registeredNames' = registeredNames
  BY <1>3, TableFacts, SamePairs
<1>5. namesInUse' = namesInUse \ {<<f, n>>}
  <2> DEFINE U == namesInUse'
             V == namesInUse \ {<<f, n>>}
  <2>1. /\ U \subseteq Family \X Name /\ V \subseteq Family \X Name
        /\ \A g \in Family, m \in Name : <<g, m>> \in U <=> <<g, m>> \in V
    BY <1>3, TableFacts
  <2> HIDE DEF U, V
  <2>2. U = V
    BY <2>1, SamePairs
  <2> QED BY <2>2 DEF U, V
<1> QED BY <1>4, <1>5

LEMMA HoldsSame ==
  ASSUME \A d \in Client : currentHolds'[d] = currentHolds[d]
  PROVE  currentHolds' = currentHolds
<1> DEFINE a == currentHolds
           b == currentHolds'
<1>1. a = [d \in Client |-> a[d]] /\ b = [d \in Client |-> b[d]]
  BY HoldsAre
<1>2. \A d \in Client : b[d] = a[d]
  OBVIOUS
<1> HIDE DEF a, b
<1>3. b = a
  BY <1>1, <1>2
<1> QED BY <1>3 DEF a, b

\* The lease of a registered name is its grant; one of another name says nothing yet.
LEMMA LeasesImplement ==
  ASSUME DistinctIds, Shapes, NEW c \in Client, LeaseNew(c) \/ TryLease(c)
  PROVE  \/ \E f \in Family, n \in Name : Promise!TryAcquire(c, f, n)
         \/ UNCHANGED Promise!vars
<1> DEFINE f == call[c].fam
           n == call[c].name
<1>1. /\ call[c] # None /\ call[c].pc \in {"lease", "tryLease"} /\ n \in Name /\ hold[c] = None
      /\ hold' = hold /\ data' = data /\ InsertLease(c)
  BY LeasesAre
<1>2. f \in Family
  BY <1>1, CallAt
<1>3. PICK k \in Call :
        /\ Moves(c, k) /\ k.fam = f /\ k.name = n
        /\ k.pc = (IF call[c].pc = "lease" THEN "register" ELSE "lookup")
  BY LeasesAre
<1>4. /\ call'[c] # None /\ call'[c].fam = f /\ call'[c].name = n
      /\ call'[c].pc \in {"lookup", "register"}
      /\ \A d \in Client : d # c => Bystander(d)
  BY <1>1, <1>3, MovesAt, NotNone DEF Bystander
<1>5. Target(c) = leaseId(f, n)
  BY DEF Target
<1>6. /\ lease[leaseId(f, n)] = None /\ lease'[leaseId(f, n)] # None
      /\ \A id \in LeaseIds : id # leaseId(f, n) => lease'[id] = lease[id]
  BY <1>1, <1>5, InsertIs
<1>7. currentHolds[c] = None
  BY <1>1, HoldsFacts
<1>8. \A d \in Client : d # c => currentHolds'[d] = currentHolds[d]
  BY <1>1, <1>4, BystanderHolds
<1>9. CASE n \notin data[f]
  <2>1. currentHolds'[c] = None
    BY <1>1, <1>4, <1>9, HoldsFacts
  <2>2. currentHolds' = currentHolds
    BY <1>7, <1>8, <2>1, HoldsSame
  <2> HIDE DEF f, n
  <2>3. ASSUME NEW g \in Family, NEW m \in Name, m \in data[g]
        PROVE  lease'[leaseId(g, m)] = lease[leaseId(g, m)]
    <3>1. ~(g = f /\ m = n)
      BY <1>9, <2>3
    <3>2. leaseId(g, m) # leaseId(f, n)
      BY <1>1, <1>2, <3>1 DEF DistinctIds
    <3>3. leaseId(g, m) \in LeaseIds
      BY IdIn
    <3> QED BY <1>6, <3>2, <3>3
  <2>4. registeredNames' = registeredNames /\ namesInUse' = namesInUse
    BY <1>1, <2>3, TableFrame
  <2> QED BY <2>2, <2>4 DEF Promise!vars
<1>10. CASE n \in data[f]
  <2>1. currentHolds'[c] = <<f, n>>
    BY <1>1, <1>4, <1>10, HoldsFacts
  <2> HIDE DEF f, n
  <2>2. Promise!Grant(c, <<f, n>>, {})
    BY <1>1, <1>2, <1>6, <1>7, <1>8, <1>10, <2>1, TakeImplements
  <2>3. <<f, n>> \in registeredNames
    BY <1>1, <1>2, <1>10, TableFacts
  <2> QED BY <1>1, <1>2, <2>2, <2>3 DEF Promise!TryAcquire
<1> QED BY <1>9, <1>10

\* A registered name whose lease the loop gets was not in use.
LEMMA LeaseOldImplements ==
  ASSUME DistinctIds, Shapes, LoopsOverData, NEW c \in Client, LeaseOld(c)
  PROVE  \E f \in Family : Promise!Acquire(c, f)
<1> DEFINE f == call[c].fam
           n == call[c].name
           b == call[c].calm /\ Calm(Target(c))
<1>1. /\ call[c] # None /\ call[c].pc = "leaseOld" /\ data' = data
      /\ n \in Name /\ n \in call[c].todo /\ InsertLease(c) /\ Grants(c, n, b)
  BY GrantsAre
<1>2. f \in Family /\ hold[c] = None /\ n \in data[f]
  BY <1>1, CallAt DEF LoopsOverData, LoopPc
<1>3. b \in BOOLEAN
  BY Zenon
<1> HIDE DEF b
<1>4. currentHolds[c] = None
  BY <1>1, <1>2, HoldsFacts
<1>5. Target(c) = leaseId(f, n)
  BY DEF Target
<1>6. hold'[c] # None /\ hold'[c].fam = f /\ hold'[c].name = n
  BY <1>1, <1>3, GrantedHolds
<1>7. /\ lease[leaseId(f, n)] = None /\ lease'[leaseId(f, n)] # None
      /\ \A id \in LeaseIds : id # leaseId(f, n) => lease'[id] = lease[id]
  BY <1>1, <1>5, InsertIs
<1> HIDE DEF f, n
<1>8. currentHolds'[c] = <<f, n>>
  BY <1>6, HoldsFacts
<1>9. \A d \in Client : d # c => Bystander(d)
  BY <1>1, GrantedIs DEF Bystander
<1>10. \A d \in Client : d # c => currentHolds'[d] = currentHolds[d]
  BY <1>1, <1>9, BystanderHolds
<1>11. Promise!Grant(c, <<f, n>>, {})
  BY <1>1, <1>2, <1>4, <1>7, <1>8, <1>10, TakeImplements
<1> QED BY <1>1, <1>2, <1>11 DEF Promise!Acquire

\* A new name is granted when it is registered, not before; one that is registered
\* already was granted with its lease.
LEMMA RegisterImplements ==
  ASSUME AutoReleaseAfter = 0, DistinctIds, Shapes, Faithful, NEW c \in Client, Register(c)
  PROVE  (\E f \in Family : Promise!Acquire(c, f)) \/ UNCHANGED Promise!vars
<1> DEFINE f == call[c].fam
           n == call[c].name
           b == call[c].calm
<1>1. /\ call[c] # None /\ call[c].pc = "register" /\ lease' = lease
      /\ data' = [data EXCEPT ![f] = @ \cup {n}]
      /\ n \in Name /\ Grants(c, n, b)
  BY GrantsAre DEF Register, At
<1>2. f \in Family /\ b \in BOOLEAN /\ hold[c] = None
  BY <1>1, CallAt
<1>3. Uses(c, leaseId(f, n)) /\ leaseId(f, n) \in LeaseIds
  BY <1>1, <1>2, UsesIs, IdIn
<1>4. currentHolds[c] = IF n \in data[f] THEN <<f, n>> ELSE None
  BY <1>1, <1>2, HoldsFacts
<1>5. hold'[c] # None /\ hold'[c].fam = f /\ hold'[c].name = n
  BY <1>1, <1>2, GrantedHolds
<1> HIDE DEF f, n, b
<1>6. lease[leaseId(f, n)] # None /\ \A d \in Client \ {c} : ~Uses(d, leaseId(f, n))
  BY <1>3 DEF Faithful, Owned
<1>7. currentHolds'[c] = <<f, n>>
  BY <1>5, HoldsFacts
<1>8. /\ n \in data'[f]
      /\ \A g \in Family : \A m : ~(g = f /\ m = n) => (m \in data'[g] <=> m \in data[g])
  BY <1>1, <1>2 DEF Shapes, TypeOK
<1>9. ASSUME NEW d \in Client, d # c PROVE currentHolds'[d] = currentHolds[d]
  <2>1. hold'[d] = hold[d] /\ call'[d] = call[d]
    BY <1>1, <1>9, GrantedIs
  <2>2. ASSUME call[d] # None, call[d].pc \in {"lookup", "register"}
        PROVE  call[d].name \in data'[call[d].fam] <=> call[d].name \in data[call[d].fam]
    <3>1. ~(call[d].fam = f /\ call[d].name = n)
      BY <1>6, <1>9, <2>2, UsesIs
    <3>2. call[d].fam \in Family
      BY <2>2, CallAt
    <3> QED BY <1>8, <3>1, <3>2
  <2>3. CASE hold[d] # None \/ call[d] = None
    BY <2>1, <2>3, HoldsFacts
  <2>4. CASE hold[d] = None /\ call[d] # None
    BY <2>1, <2>2, <2>4, HoldsFacts
  <2> QED BY <2>3, <2>4
<1>10. CASE n \notin data[f]
  <2>1. \A g \in Family, m \in Name :
          <<g, m>> # <<f, n>> => (m \in data'[g] <=> m \in data[g])
    BY <1>8
  <2>2. Promise!Grant(c, <<f, n>>, {})
    BY <1>1, <1>2, <1>4, <1>6, <1>7, <1>8, <1>9, <1>10, <2>1, TakeImplements
  <2> QED BY <1>1, <1>2, <2>2 DEF Promise!Acquire
<1>11. CASE n \in data[f]
  <2>1. data[f] \cup {n} = data[f]
    BY <1>11
  <2>2. data' = data
    BY <1>1, <1>2, <2>1 DEF Shapes, TypeOK
  <2>3. registeredNames' = registeredNames /\ namesInUse' = namesInUse
    BY <1>1, <2>2, TableFrame
  <2>4. currentHolds' = currentHolds
    BY <1>4, <1>7, <1>9, <1>11, HoldsSame
  <2> QED BY <2>3, <2>4 DEF Promise!vars
<1> QED BY <1>10, <1>11

\* A TryAcquire that finds the name has it already.
LEMMA FoundImplements ==
  ASSUME Shapes, NEW c \in Client, FoundName(c)
  PROVE  UNCHANGED Promise!vars
<1> DEFINE f == call[c].fam
           n == call[c].name
           b == call[c].calm
<1>1. /\ call[c] # None /\ call[c].pc = "lookup" /\ lease' = lease /\ data' = data
      /\ n \in data[f] /\ n \in Name /\ Grants(c, n, b)
  BY GrantsAre DEF FoundName, At, Found
<1>2. f \in Family /\ b \in BOOLEAN /\ hold[c] = None
  BY <1>1, CallAt
<1>3. currentHolds[c] = <<f, n>>
  BY <1>1, <1>2, HoldsFacts
<1>4. hold'[c] # None /\ hold'[c].fam = f /\ hold'[c].name = n
  BY <1>1, <1>2, GrantedHolds
<1> HIDE DEF f, n, b
<1>5. currentHolds'[c] = <<f, n>>
  BY <1>4, HoldsFacts
<1>6. \A d \in Client : d # c => Bystander(d)
  BY <1>1, GrantedIs DEF Bystander
<1>7. currentHolds' = currentHolds
  BY <1>1, <1>3, <1>5, <1>6, BystanderHolds, HoldsSame
<1>8. registeredNames' = registeredNames /\ namesInUse' = namesInUse
  BY <1>1, TableFrame
<1> QED BY <1>7, <1>8 DEF Promise!vars

LEMMA KeepAliveImplements ==
  ASSUME Shapes, NEW c \in Client, KeepAlive(c)
  PROVE  UNCHANGED Promise!vars
<1>1. data' = data /\ call[c] # None /\ call[c].pc = "beat" /\ call'[c] = None
  BY BeatIs, KeepAliveCalls
<1>2. \A id \in LeaseIds : lease'[id] # None <=> lease[id] # None
  BY BeatIs
<1>3. registeredNames' = registeredNames /\ namesInUse' = namesInUse
  BY <1>1, <1>2, IdIn, TableFrame
<1>4. currentHolds'[c] = currentHolds[c]
  <2>1. HoldLike(c)
    BY KeepAliveHolds
  <2>2. currentHolds[c] = IF hold[c] # None THEN <<hold[c].fam, hold[c].name>> ELSE None
    BY <1>1, HoldsFacts
  <2>3. currentHolds'[c] = IF hold'[c] # None THEN <<hold'[c].fam, hold'[c].name>> ELSE None
    BY <1>1, HoldsFacts
  <2> QED BY <2>1, <2>2, <2>3 DEF HoldLike
<1>5. \A d \in Client : d # c => Bystander(d)
  BY KeepAliveHolds, KeepAliveCalls DEF Bystander
<1>6. currentHolds' = currentHolds
  BY <1>1, <1>4, <1>5, BystanderHolds, HoldsSame
<1> QED BY <1>3, <1>6 DEF Promise!vars

\* A Release, and the Release of a TryAcquire that does not find its name.
LEMMA ReleasesImplement ==
  ASSUME DistinctIds, Shapes, NEW c \in Client, NEW f \in Family, NEW n \in Name,
         DeleteLease(f, n), data' = data, hold'[c] = None, call'[c] = None,
         \A d \in Client : d # c => Bystander(d),
         currentHolds[c] = <<f, n>> \/ currentHolds[c] = None
  PROVE  Promise!Release(c, f, n)
<1>1. registeredNames' = registeredNames /\ namesInUse' = namesInUse \ {<<f, n>>}
  BY DropsImplement
<1>2. currentHolds'[c] = None
  BY HoldsFacts
<1>3. \A d \in Client : d # c => currentHolds'[d] = currentHolds[d]
  BY BystanderHolds
<1>4. currentHolds' = [currentHolds EXCEPT ![c] = None]
  BY <1>2, <1>3, HoldsChange
<1>5. currentHolds[c] = None => currentHolds' = currentHolds
  BY <1>2, <1>3, HoldsSame
<1> QED BY <1>1, <1>4, <1>5 DEF Promise!Release

LEMMA InitImplements == Init => Promise!Init
<1> SUFFICES ASSUME Init PROVE Promise!Init
  OBVIOUS
<1>1. registeredNames = {} /\ namesInUse = {}
  BY DEF Init, registeredNames, namesInUse
<1>2. currentHolds = [c \in Client |-> None]
  BY DEF Init, currentHolds, At
<1> QED BY <1>1, <1>2 DEF Promise!Init

LEMMA StepImplements ==
  ASSUME AutoReleaseAfter = 0, ~Resets, ~CounterFaults, ~Strays, DistinctIds,
         Shapes, Faithful, LoopsOverData, Step
  PROVE  [Promise!Next]_(Promise!vars)
<1>1. ASSUME NEW c \in Client, Goings(c) \/ CountName(c) \/ InsertCounter(c)
      PROVE  Promise!Crash(c) \/ UNCHANGED Promise!vars
  <2>1. lease' = lease /\ data' = data /\ hold' = hold
    BY <1>1, GoingsAre, CountsAre
  <2>2. PICK k : Moves(c, k) /\ GoesQuiet(c, k)
    BY <1>1, QuietGoings
  <2>3. \A d \in Client : call'[d] = IF d = c THEN k ELSE call[d]
    BY <2>2, MovesAt
  <2>4. \A d \in Client : d # c => Bystander(d)
    BY <2>1, <2>3 DEF Bystander
  <2>5. CASE hold[c] = None
    <3>1. hold'[c] = None /\ (call'[c] = None \/ call'[c].pc \notin {"lookup", "register"})
      BY <2>1, <2>2, <2>3, <2>5 DEF GoesQuiet
    <3> QED BY <2>1, <2>4, <3>1, LosesImplements
  <2>6. CASE hold[c] # None
    <3>1. currentHolds'[c] = currentHolds[c]
      BY <2>1, <2>6, HoldsFacts
    <3>2. currentHolds' = currentHolds
      BY <2>1, <2>4, <3>1, BystanderHolds, HoldsSame
    <3>3. registeredNames' = registeredNames /\ namesInUse' = namesInUse
      BY <2>1, TableFrame
    <3> QED BY <3>2, <3>3 DEF Promise!vars
  <2> QED BY <2>5, <2>6
<1>2. ASSUME NEW c \in Client, Crash(c) PROVE Promise!Crash(c)
  <2>1. /\ lease' = lease /\ data' = data /\ hold'[c] = None /\ call'[c] = None
        /\ \A d \in Client : d # c => Bystander(d)
    BY <1>2 DEF Crash, Ends, Bystander, Shapes, TypeOK
  <2> QED BY <2>1, LosesImplements
<1>3. ASSUME NEW c \in Client, NEW f \in Family, NEW n \in Name, Release(c, f, n)
      PROVE  Promise!Release(c, f, n)
  <2>1. /\ DeleteLease(f, n) /\ data' = data /\ call[c] = None
        /\ hold'[c] = None /\ call'[c] = None
        /\ \A d \in Client : d # c => Bystander(d)
    BY <1>3 DEF Release, Idle, Bystander, Shapes, TypeOK
  <2>2. currentHolds[c] = <<f, n>>
    BY <1>3, HoldsFacts DEF Release, MayName, Holds
  <2> QED BY <2>1, <2>2, ReleasesImplement
<1>4. ASSUME NEW c \in Client, Unlease(c)
      PROVE  \E f \in Family, n \in Name : Promise!Release(c, f, n)
  <2>1. /\ call[c] # None /\ call[c].pc = "unlease" /\ Ends(c) /\ data' = data /\ hold' = hold
        /\ DeleteLease(call[c].fam, call[c].name)
    BY <1>4 DEF Unlease, At
  <2>2. call[c].fam \in Family /\ call[c].name \in Name /\ hold[c] = None
    BY <2>1, CallAt DEF CallOK, NamedPc
  <2>3. currentHolds[c] = None
    BY <2>1, <2>2, HoldsFacts
  <2>4. hold'[c] = None /\ call'[c] = None /\ \A d \in Client : d # c => Bystander(d)
    BY <2>1, <2>2 DEF Ends, Bystander, Shapes, TypeOK
  <2> QED BY <2>1, <2>2, <2>3, <2>4, ReleasesImplement
<1>5. ASSUME NEW c \in Client, CounterFails(c) \/ Sweep(c) \/ Reset(c) PROVE FALSE
  <2>1. CASE CounterFails(c)
    BY <2>1 DEF CounterFails
  <2>2. CASE Sweep(c)
    BY <2>2 DEF Sweep
  <2>3. CASE Reset(c)
    BY <2>3, ResetIs
  <2> QED BY <1>5, <2>1, <2>2, <2>3
<1>6. CASE Tick \/ UNCHANGED vars
  <2>1. data' = data /\ lease' = lease /\ \A d \in Client : Bystander(d)
    BY <1>6 DEF Tick, vars, Bystander
  <2> QED BY <2>1, TableFrame, BystanderHolds, HoldsSame DEF Promise!vars
<1> QED BY <1>1, <1>2, <1>3, <1>4, <1>5, <1>6, LeasesImplement, LeaseOldImplements,
           RegisterImplements, FoundImplements, KeepAliveImplements
        DEF Step, Promise!Next

\* Without auto-release, resets, failing counters and strays, every behaviour is one of the
\* abstract table of names, except that a new name may be made though one was released: the
\* operations of a call take effect as one step, the one that gets the lease of a registered
\* name or that registers a new one, although nothing locks them and although counters that
\* were inserted twice may give a name twice.
THEOREM MongoKeepsPromise ==
  ASSUME AutoReleaseAfter = 0, ~Resets, ~CounterFaults, ~Strays, DistinctIds
  PROVE  Spec => ImplementsPromise
<1>1. Init => Faithful /\ LoopsOverData
  BY UsesIs DEF Init, Faithful, Owned, LoopsOverData
<1>2. Shapes /\ (CalmHolds /\ ClaimsExclusive) /\ Faithful /\ [Next]_vars => Faithful'
  BY FaithfulStep, NextIsStep
<1>3. Shapes /\ LoopsOverData /\ [Next]_vars => LoopsOverData'
  BY LoopsStep, NextIsStep
<1>4. Shapes /\ Faithful /\ LoopsOverData /\ [Next]_vars => [Promise!Next]_(Promise!vars)
  BY StepImplements, NextIsStep
<1> QED BY <1>1, <1>2, <1>3, <1>4, InitImplements, ShapesInvariant, CalmInvariant, PTL
        DEF Spec, ImplementsPromise, Promise!Spec
=============================================================================
