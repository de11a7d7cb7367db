-------------------------- MODULE FirestoreProofs --------------------------
(***************************************************************************)
(* The Firestore backend, for any clients, families, names, instants and   *)
(* period: the types, the counts without resets, and that a client in time *)
(* keeps its name for itself, where the walks cannot take it away.         *)
(***************************************************************************)
EXTENDS FirestoreBackend, TLAPS

USE MaxNamesAssumption, MaxTimeAssumption, AutoReleaseAssumption, SwitchesAssumption,
    NoneIsNoRecord

-----------------------------------------------------------------------------
(* Types, and what a call in progress and a hold look like. *)

\* Without auto-release an Acquire does not walk.
CallShape ==
  \A c \in Client : call[c] # None =>
    /\ call[c].kind = "reset" => Resets
    /\ call[c].asOf <= now
    /\ AutoReleaseAfter = 0 /\ call[c].kind = "acquire" =>
         call[c].pc = "tx" /\ call[c].todo = {}

HoldShape ==
  \A c \in Client : hold[c] # None =>
    /\ hold[c].seen <= now
    /\ AutoReleaseAfter = 0 => hold[c].calm

Shapes == TypeOK /\ CallShape /\ HoldShape

LEMMA DocNotNone ==
  /\ \A d \in Doc : d # None
  /\ \A k \in Call : k # None
  /\ \A h \in Hold : h # None
BY Zenon, NoneIsNoRecord

LEMMA SetType ==
  ASSUME TypeOK, NEW f \in Family, NEW n \in Name, NEW free \in BOOLEAN, Set(f, n, free)
  PROVE  doc' \in [Family -> [Name -> Doc \cup {None}]]
<1>1. [free |-> free, updated |-> now] \in Doc
  BY DEF TypeOK, Doc
<1> QED BY <1>1 DEF TypeOK, Set

LEMMA GrantedShape ==
  ASSUME Shapes, NEW c \in Client, NEW f \in Family, NEW n \in Name, Granted(c, f, n)
  PROVE  /\ hold' \in [Client -> Hold \cup {None}]
         /\ HoldShape'
<1>1. now' = now /\ now \in Nat
  BY DEF Granted, Shapes, TypeOK, Time
<1>2. (~Listed(f, n)) \in BOOLEAN
  BY Zenon
<1>3. AutoReleaseAfter = 0 => ~Listed(f, n)
  BY DEF Listed, Shapes, CallShape
<1> DEFINE h == [fam |-> f, name |-> n, seen |-> now, calm |-> ~Listed(f, n)]
<1>4. h \in Hold /\ h.seen = now /\ (AutoReleaseAfter = 0 => h.calm)
  BY <1>2, <1>3 DEF Hold, Shapes, TypeOK
<1>5. hold' = [hold EXCEPT ![c] = h]
  BY DEF Granted
<1> HIDE DEF h
<1>6. hold' \in [Client -> Hold \cup {None}]
  BY <1>4, <1>5 DEF Shapes, TypeOK
<1>7. HoldShape'
  BY <1>1, <1>4, <1>5 DEF Shapes, TypeOK, HoldShape
<1> QED BY <1>6, <1>7

LEMMA ShapesInit == Init => Shapes
<1> SUFFICES ASSUME Init PROVE Shapes
  OBVIOUS
<1>1. TypeOK
  <2>1. misreleased \in BOOLEAN
    BY Zenon DEF Init
  <2> QED BY <2>1 DEF Init, TypeOK, Time
<1>2. CallShape /\ HoldShape
  BY DEF Init, CallShape, HoldShape
<1> QED BY <1>1, <1>2 DEF Shapes

LEMMA TryAcquireShapes ==
  ASSUME Shapes, NEW c \in Client, NEW f \in Family, NEW n \in Name, TryAcquire(c, f, n)
  PROVE  Shapes'
<1>1. /\ Set(f, n, FALSE) /\ Granted(c, f, n) /\ count' = count /\ call' = call
      /\ now' = now /\ misreleased' = misreleased
  BY DEF TryAcquire, Granted
<1>2. doc' \in [Family -> [Name -> Doc \cup {None}]]
  BY <1>1, SetType DEF Shapes
<1>3. hold' \in [Client -> Hold \cup {None}] /\ HoldShape'
  BY <1>1, GrantedShape
<1> QED BY <1>1, <1>2, <1>3 DEF Shapes, TypeOK, CallShape

LEMMA KeepAliveShapes ==
  ASSUME Shapes, NEW c \in Client, NEW f \in Family, NEW n \in Name, KeepAlive(c, f, n)
  PROVE  Shapes'
<1>1. doc' \in [Family -> [Name -> Doc \cup {None}]]
  BY SetType DEF Shapes, KeepAlive, TypeOK
<1>2. /\ now' = now /\ count' = count /\ call' = call /\ misreleased' = misreleased
      /\ now \in Time /\ now <= now
  BY DEF KeepAlive, Shapes, TypeOK, Time
<1>3. CASE InTime(c)
  <2>1. hold' = [hold EXCEPT ![c].seen = now] /\ hold[c] \in Hold
    BY <1>3 DEF KeepAlive, InTime, Shapes, TypeOK
  <2>2. [hold[c] EXCEPT !.seen = now] \in Hold
    BY <1>2, <2>1 DEF Hold
  <2>3. hold' \in [Client -> Hold \cup {None}]
    BY <2>1, <2>2 DEF Shapes, TypeOK
  <2>4. HoldShape'
    BY <1>2, <2>1, DocNotNone DEF Shapes, TypeOK, HoldShape, Hold
  <2> QED BY <1>1, <1>2, <2>3, <2>4 DEF Shapes, TypeOK, CallShape
<1>4. CASE ~InTime(c)
  <2>1. hold' = hold
    BY <1>4 DEF KeepAlive
  <2> QED BY <1>1, <1>2, <2>1 DEF Shapes, TypeOK, CallShape, HoldShape
<1> QED BY <1>3, <1>4

LEMMA ReleaseShapes ==
  ASSUME Shapes, NEW c \in Client, NEW f \in Family, NEW n \in Name, Release(c, f, n)
  PROVE  Shapes'
<1>1. doc' \in [Family -> [Name -> Doc \cup {None}]]
  BY SetType DEF Shapes, Release, release, TypeOK
<1>2. /\ now' = now /\ count' = count /\ call' = call
      /\ hold' = [hold EXCEPT ![c] = None]
  BY DEF Release
<1>3. misreleased' \in BOOLEAN
  BY DEF Release, Shapes, TypeOK
<1>4. hold' \in [Client -> Hold \cup {None}]
  BY <1>2 DEF Shapes, TypeOK
<1>5. HoldShape'
  BY <1>2 DEF Shapes, TypeOK, HoldShape
<1> QED BY <1>1, <1>2, <1>3, <1>4, <1>5 DEF Shapes, TypeOK, CallShape

\* A step that changes nothing but what the call of c is doing.
LEMMA CallMoves ==
  ASSUME Shapes, NEW c \in Client, NEW k \in Call, call' = [call EXCEPT ![c] = k],
         k.kind = "reset" => Resets, k.asOf <= now,
         AutoReleaseAfter = 0 /\ k.kind = "acquire" => k.pc = "tx" /\ k.todo = {},
         now' = now
  PROVE  call' \in [Client -> Call \cup {None}] /\ CallShape'
<1>1. call' \in [Client -> Call \cup {None}]
  BY DEF Shapes, TypeOK
<1>2. CallShape'
  BY DEF Shapes, TypeOK, CallShape
<1> QED BY <1>1, <1>2

LEMMA CallEnds ==
  ASSUME Shapes, NEW c \in Client, call' = [call EXCEPT ![c] = None], now' = now
  PROVE  call' \in [Client -> Call \cup {None}] /\ CallShape'
BY DEF Shapes, TypeOK, CallShape

LEMMA StartedShapes ==
  ASSUME Shapes, NEW c \in Client, NEW f \in Family, NEW kind \in {"acquire", "reset"},
         NEW pc \in {"list", "tx"}, kind = "reset" => Resets,
         AutoReleaseAfter = 0 /\ kind = "acquire" => pc = "tx",
         call' = [call EXCEPT ![c] = StartedCall(kind, f, pc)], now' = now
  PROVE  call' \in [Client -> Call \cup {None}] /\ CallShape'
<1> DEFINE k == StartedCall(kind, f, pc)
<1>1. k \in Call /\ k.kind = kind /\ k.asOf <= now /\ k.pc = pc /\ k.todo = {}
  BY DEF StartedCall, Call, Shapes, TypeOK, Time
<1> HIDE DEF k
<1>2. call' = [call EXCEPT ![c] = k]
  BY DEF k
<1> QED BY <1>1, <1>2, CallMoves

\* The steps of the walks that read.
Looks(c) == ListFamilies(c) \/ ListNames(c) \/ NextFamily(c) \/ EndWalk(c)

LEMMA CallAt ==
  ASSUME Shapes, NEW c \in Client, call[c] # None
  PROVE  /\ call[c] \in Call
         /\ call[c].fam \in Family /\ call[c].at \in Family
         /\ call[c].todo \subseteq Name
         /\ call[c].kind = "reset" => Resets
         /\ call[c].asOf <= now
         /\ AutoReleaseAfter = 0 /\ call[c].kind = "acquire" =>
              call[c].pc = "tx" /\ call[c].todo = {}
BY DEF Shapes, TypeOK, CallShape, Call

LEMMA LooksAre ==
  ASSUME Shapes, NEW c \in Client, Looks(c)
  PROVE  /\ call[c] # None
         /\ now' = now /\ count' = count /\ doc' = doc /\ hold' = hold
         /\ misreleased' = misreleased
         /\ \E k \in Call :
              /\ call' = [call EXCEPT ![c] = k]
              /\ k.kind = call[c].kind /\ k.fam = call[c].fam /\ k.asOf = call[c].asOf
              /\ AutoReleaseAfter = 0 /\ k.kind = "acquire" => k.pc = "tx" /\ k.todo = {}
              /\ \/ k.todo = call[c].todo
                 \/ k.kind = "reset"
                 \/ /\ AutoReleaseAfter > 0
                    /\ \E g \in Family : k.todo = Zombies(c, g)
<1>0. /\ call[c] # None
      /\ now' = now /\ count' = count /\ doc' = doc /\ hold' = hold
      /\ misreleased' = misreleased
  BY DEF Looks, ListFamilies, ListNames, NextFamily, EndWalk, At
<1>1. call[c] \in Call
  BY <1>0, CallAt
<1>2. AutoReleaseAfter = 0 /\ call[c].kind = "acquire" =>
        call[c].pc = "tx" /\ call[c].todo = {}
  BY <1>0, CallAt
<1>3. CASE ListFamilies(c)
  <2> DEFINE k == [call[c] EXCEPT !.pc = "walk", !.families = {f \in Family : count[f] # None}]
  <2>1. k \in Call /\ call' = [call EXCEPT ![c] = k]
    BY <1>1, <1>3 DEF ListFamilies, Call, Shapes, TypeOK
  <2>2. /\ k.kind = call[c].kind /\ k.fam = call[c].fam /\ k.asOf = call[c].asOf
        /\ k.todo = call[c].todo
    BY <1>1 DEF Call
  <2>3. ~(AutoReleaseAfter = 0 /\ call[c].kind = "acquire")
    BY <1>2, <1>3 DEF ListFamilies
  <2> HIDE DEF k
  <2> QED BY <1>0, <2>1, <2>2, <2>3
<1>4. CASE ListNames(c)
  <2>1. ~(AutoReleaseAfter = 0 /\ call[c].kind = "acquire")
    BY <1>2, <1>4 DEF ListNames
  <2>2. PICK g \in call[c].families :
          call' = [call EXCEPT
            ![c].pc = "names", ![c].at = g, ![c].families = @ \ {g},
            ![c].todo = IF call[c].kind = "reset" THEN {n \in Name : Exists(g, n)}
                                                  ELSE Zombies(c, g)]
    BY <1>4 DEF ListNames
  <2> DEFINE T == IF call[c].kind = "reset" THEN {n \in Name : Exists(g, n)} ELSE Zombies(c, g)
             k == [call[c] EXCEPT !.pc = "names", !.at = g, !.families = @ \ {g}, !.todo = T]
  <2>3. g \in Family /\ T \subseteq Name
    BY <1>1 DEF Call, Zombies
  <2>4. call' = [call EXCEPT ![c] = k]
    <3> HIDE DEF T
    <3>1. call' = [call EXCEPT ![c].pc = "names", ![c].at = g, ![c].families = @ \ {g},
                               ![c].todo = T]
      BY <2>2 DEF T
    <3> QED BY <3>1 DEF Shapes, TypeOK
  <2>5. k \in Call /\ k.kind = call[c].kind /\ k.fam = call[c].fam /\ k.asOf = call[c].asOf
        /\ k.todo = T
    <3> HIDE DEF T
    <3> QED BY <1>1, <2>3 DEF Call
  <2>6. k.kind = "reset" \/ (AutoReleaseAfter > 0 /\ k.todo = Zombies(c, g))
    <3>1. call[c].kind \in {"acquire", "reset"}
      BY <1>1 DEF Call
    <3> HIDE DEF k
    <3> QED BY <2>1, <2>5, <3>1
  <2> HIDE DEF k, T
  <2> QED BY <1>0, <2>1, <2>3, <2>4, <2>5, <2>6
<1>5. CASE NextFamily(c) \/ EndWalk(c)
  <2>1. PICK pc \in {"walk", "tx"} : call' = [call EXCEPT ![c].pc = pc]
    BY <1>5 DEF NextFamily, EndWalk, Goes
  <2> DEFINE k == [call[c] EXCEPT !.pc = pc]
  <2>2. k \in Call /\ call' = [call EXCEPT ![c] = k]
    BY <1>1, <2>1 DEF Call, Shapes, TypeOK
  <2>3. /\ k.kind = call[c].kind /\ k.fam = call[c].fam /\ k.asOf = call[c].asOf
        /\ k.todo = call[c].todo
    BY <1>1 DEF Call
  <2>4. ~(AutoReleaseAfter = 0 /\ call[c].kind = "acquire")
    BY <1>2, <1>5 DEF NextFamily, EndWalk, At
  <2> HIDE DEF k
  <2> QED BY <1>0, <2>2, <2>3, <2>4
<1> QED BY <1>3, <1>4, <1>5 DEF Looks

LEMMA LooksShapes ==
  ASSUME Shapes, NEW c \in Client, Looks(c)
  PROVE  Shapes'
<1>1. /\ call[c] # None
      /\ now' = now /\ count' = count /\ doc' = doc /\ hold' = hold
      /\ misreleased' = misreleased
  BY LooksAre
<1>2. PICK k \in Call :
        /\ call' = [call EXCEPT ![c] = k]
        /\ k.kind = call[c].kind /\ k.fam = call[c].fam /\ k.asOf = call[c].asOf
        /\ AutoReleaseAfter = 0 /\ k.kind = "acquire" => k.pc = "tx" /\ k.todo = {}
  BY LooksAre
<1>3. call' \in [Client -> Call \cup {None}] /\ CallShape'
  BY <1>1, <1>2, CallAt, CallMoves
<1> QED BY <1>1, <1>3 DEF Shapes, TypeOK, HoldShape

\* One name less to release or to delete.
LEMMA TodoShrinks ==
  ASSUME Shapes, NEW c \in Client, NEW n, call[c] # None,
         ~(AutoReleaseAfter = 0 /\ call[c].kind = "acquire"),
         call' = [call EXCEPT ![c].todo = @ \ {n}], now' = now
  PROVE  call' \in [Client -> Call \cup {None}] /\ CallShape'
<1> DEFINE k == [call[c] EXCEPT !.todo = @ \ {n}]
<1>1. call[c] \in Call
  BY CallAt
<1>2. k \in Call /\ k.kind = call[c].kind /\ k.asOf = call[c].asOf
  BY <1>1 DEF Call
<1>3. call' = [call EXCEPT ![c] = k]
  BY DEF Shapes, TypeOK
<1> HIDE DEF k
<1> QED BY <1>2, <1>3, CallAt, CallMoves

LEMMA AcquireShapes ==
  ASSUME Shapes, NEW c \in Client, AcquireFree(c) \/ AcquireNew(c)
  PROVE  Shapes'
<1>1. call[c] # None /\ call' = [call EXCEPT ![c] = None]
  BY DEF AcquireFree, AcquireNew, At
<1>2. PICK n \in Name : Set(call[c].fam, n, FALSE) /\ Granted(c, call[c].fam, n)
  BY DEF AcquireFree, AcquireNew
<1>3. call[c].fam \in Family
  BY <1>1, CallAt
<1>4. now' = now /\ misreleased' = misreleased
  BY <1>2 DEF Granted
<1>5. doc' \in [Family -> [Name -> Doc \cup {None}]]
  BY <1>2, <1>3, SetType DEF Shapes
<1>6. hold' \in [Client -> Hold \cup {None}] /\ HoldShape'
  BY <1>2, <1>3, GrantedShape
<1>7. call' \in [Client -> Call \cup {None}] /\ CallShape'
  BY <1>1, <1>4, CallEnds
<1>8. count' \in [Family -> 0 .. MaxNames \cup {None}]
  <2>1. CASE AcquireFree(c)
    BY <2>1 DEF AcquireFree, Shapes, TypeOK
  <2>2. CASE AcquireNew(c)
    <3>1. PICK m \in Name : count' = [count EXCEPT ![call[c].fam] = m + 1]
      BY <2>2 DEF AcquireNew, Count
    <3>2. m + 1 \in 0 .. MaxNames
      BY DEF Name
    <3> QED BY <3>1, <3>2 DEF Shapes, TypeOK
  <2> QED BY <2>1, <2>2
<1> QED BY <1>4, <1>5, <1>6, <1>7, <1>8 DEF Shapes, TypeOK

LEMMA VoidShape == ASSUME VoidHolds PROVE hold' \in [Client -> Hold \cup {None}] /\ HoldShape'
BY DEF VoidHolds, HoldShape

LEMMA ResetShapes ==
  ASSUME Shapes, NEW c \in Client,
         StartReset(c) \/ DeleteName(c) \/ DeleteFamily(c) \/ EndReset(c)
  PROVE  Shapes'
<1>1. VoidHolds /\ now' = now /\ misreleased' = misreleased
  BY DEF StartReset, DeleteName, DeleteFamily, EndReset
<1>2. hold' \in [Client -> Hold \cup {None}] /\ HoldShape'
  BY <1>1, VoidShape
<1>3. CASE StartReset(c)
  <2>1. PICK f \in Family : call' = [call EXCEPT ![c] = StartedCall("reset", f, "list")]
    BY <1>3 DEF StartReset
  <2>2. call' \in [Client -> Call \cup {None}] /\ CallShape'
    BY <1>1, <1>3, <2>1, StartedShapes DEF StartReset
  <2> QED BY <1>1, <1>2, <1>3, <2>2 DEF Shapes, TypeOK, StartReset
<1>4. CASE DeleteName(c)
  <2>1. call[c] # None /\ call[c].kind = "reset"
    BY <1>4 DEF DeleteName, At
  <2>2. PICK n \in call[c].todo :
          /\ doc' = [doc EXCEPT ![call[c].at][n] = None]
          /\ call' = [call EXCEPT ![c].todo = @ \ {n}]
    BY <1>4 DEF DeleteName
  <2>3. call' \in [Client -> Call \cup {None}] /\ CallShape'
    BY <1>1, <2>1, <2>2, TodoShrinks
  <2>4. doc' \in [Family -> [Name -> Doc \cup {None}]]
    BY <2>1, <2>2, CallAt DEF Shapes, TypeOK
  <2> QED BY <1>1, <1>2, <1>4, <2>3, <2>4 DEF Shapes, TypeOK, DeleteName
<1>5. CASE DeleteFamily(c)
  <2>1. call[c] # None /\ call[c].kind = "reset" /\ call' = [call EXCEPT ![c].pc = "walk"]
    BY <1>5 DEF DeleteFamily, At, Goes
  <2> DEFINE k == [call[c] EXCEPT !.pc = "walk"]
  <2>2. call[c] \in Call
    BY <2>1, CallAt
  <2>3. k \in Call /\ k.kind = "reset" /\ k.asOf = call[c].asOf
    BY <2>1, <2>2 DEF Call
  <2>4. call' = [call EXCEPT ![c] = k]
    BY <2>1 DEF Shapes, TypeOK
  <2> HIDE DEF k
  <2>5. call' \in [Client -> Call \cup {None}] /\ CallShape'
    BY <1>1, <2>1, <2>3, <2>4, CallAt, CallMoves
  <2>6. count' \in [Family -> 0 .. MaxNames \cup {None}] /\ doc' = doc
    BY <1>5 DEF DeleteFamily, Shapes, TypeOK
  <2> QED BY <1>1, <1>2, <2>5, <2>6 DEF Shapes, TypeOK
<1>6. CASE EndReset(c)
  <2>1. call' \in [Client -> Call \cup {None}] /\ CallShape'
    BY <1>1, <1>6, CallEnds DEF EndReset
  <2> QED BY <1>1, <1>2, <1>6, <2>1 DEF Shapes, TypeOK, EndReset
<1> QED BY <1>3, <1>4, <1>5, <1>6

LEMMA StartAcquireShapes ==
  ASSUME Shapes, NEW c \in Client, NEW f \in Family, StartAcquire(c, f)
  PROVE  Shapes'
<1> DEFINE pc == IF AutoReleaseAfter > 0 THEN "list" ELSE "tx"
<1>1. /\ call' = [call EXCEPT ![c] = StartedCall("acquire", f, pc)]
      /\ UNCHANGED <<now, count, doc, hold, misreleased>>
  BY DEF StartAcquire
<1>2. pc \in {"list", "tx"} /\ (AutoReleaseAfter = 0 => pc = "tx")
  OBVIOUS
<1> HIDE DEF pc
<1>3. call' \in [Client -> Call \cup {None}] /\ CallShape'
  BY <1>1, <1>2, StartedShapes
<1> QED BY <1>1, <1>3 DEF Shapes, TypeOK, HoldShape

LEMMA ReleaseZombieShapes ==
  ASSUME Shapes, NEW c \in Client, ReleaseZombie(c)
  PROVE  Shapes'
<1>1. call[c] # None /\ call[c].kind = "acquire" /\ call[c].pc = "names"
  BY DEF ReleaseZombie, At
<1>2. PICK n \in call[c].todo :
        release(call[c].fam, n) /\ call' = [call EXCEPT ![c].todo = @ \ {n}]
  BY DEF ReleaseZombie
<1>3. now' = now /\ count' = count /\ hold' = hold /\ misreleased' = misreleased
  BY DEF ReleaseZombie
<1>4. call' \in [Client -> Call \cup {None}] /\ CallShape'
  BY <1>1, <1>2, <1>3, CallAt, TodoShrinks
<1>5. doc' \in [Family -> [Name -> Doc \cup {None}]]
  BY <1>1, <1>2, CallAt, SetType DEF release, Shapes, TypeOK
<1> QED BY <1>3, <1>4, <1>5 DEF Shapes, TypeOK, HoldShape

LEMMA EndShapes ==
  ASSUME Shapes, NEW c \in Client, Fail(c) \/ Crash(c)
  PROVE  Shapes'
<1>1. /\ call' = [call EXCEPT ![c] = None]
      /\ now' = now /\ count' = count /\ doc' = doc /\ misreleased' = misreleased
      /\ hold' = hold \/ hold' = [hold EXCEPT ![c] = None]
  BY DEF Fail, Crash
<1>2. call' \in [Client -> Call \cup {None}] /\ CallShape'
  BY <1>1, CallEnds
<1>3. hold' \in [Client -> Hold \cup {None}] /\ HoldShape'
  BY <1>1 DEF Shapes, TypeOK, HoldShape
<1> QED BY <1>1, <1>2, <1>3 DEF Shapes, TypeOK

LEMMA TickShapes == ASSUME Shapes, Tick PROVE Shapes'
<1>1. /\ now' \in Time /\ now <= now' /\ now \in Nat /\ now' \in Nat
      /\ count' = count /\ doc' = doc /\ call' = call
      /\ hold' = hold /\ misreleased' = misreleased
  BY DEF Tick, Shapes, TypeOK, Time
<1>2. CallShape'
  <2>1. \A c \in Client : call[c] # None => call[c].asOf \in Nat
    BY CallAt DEF Call, Time
  <2> QED BY <1>1, <2>1 DEF Shapes, CallShape
<1>3. HoldShape'
  <2>1. \A c \in Client : hold[c] # None => hold[c].seen \in Nat
    BY DEF Shapes, TypeOK, Hold, Time
  <2> QED BY <1>1, <2>1 DEF Shapes, HoldShape
<1> QED BY <1>1, <1>2, <1>3 DEF Shapes, TypeOK

\* The disjuncts of Next, with those that only look put together.
Step ==
  \/ \E c \in Client :
       \/ \E f \in Family, n \in Name :
            TryAcquire(c, f, n) \/ KeepAlive(c, f, n) \/ Release(c, f, n)
       \/ \E f \in Family : StartAcquire(c, f)
       \/ Looks(c)
       \/ ReleaseZombie(c)
       \/ AcquireFree(c) \/ AcquireNew(c)
       \/ StartReset(c) \/ DeleteName(c) \/ DeleteFamily(c) \/ EndReset(c)
       \/ Fail(c) \/ Crash(c)
  \/ Tick
  \/ UNCHANGED vars

LEMMA NextIsStep == [Next]_vars => Step
BY DEF Next, Step, Looks

LEMMA ShapesStep == Shapes /\ [Next]_vars => Shapes'
<1> SUFFICES ASSUME Shapes, Step PROVE Shapes'
  BY NextIsStep
<1>1. CASE UNCHANGED vars
  BY <1>1 DEF vars, Shapes, TypeOK, CallShape, HoldShape
<1> QED BY <1>1, TryAcquireShapes, KeepAliveShapes, ReleaseShapes, StartAcquireShapes,
           LooksShapes, ReleaseZombieShapes, AcquireShapes, ResetShapes, EndShapes,
           TickShapes DEF Step

LEMMA ShapesInvariant == Spec => []Shapes
<1> QED BY ShapesInit, ShapesStep, PTL DEF Spec

\* The documents, the calls in progress and the holds keep their types.
THEOREM FirestoreTypeCorrect == Spec => []TypeOK
<1>1. Shapes => TypeOK
  BY DEF Shapes
<1> QED BY <1>1, ShapesInvariant, PTL

-----------------------------------------------------------------------------
(* The counts, when nobody resets.                                           *)

LEMMA SetIs ==
  ASSUME TypeOK, NEW f \in Family, NEW n \in Name, NEW free \in BOOLEAN, Set(f, n, free)
  PROVE  \A g \in Family, m \in Name :
           doc'[g][m] = IF g = f /\ m = n THEN [free |-> free, updated |-> now] ELSE doc[g][m]
BY DEF TypeOK, Set

LEMMA SetExists ==
  ASSUME TypeOK, NEW f \in Family, NEW n \in Name, NEW free \in BOOLEAN, Set(f, n, free)
  PROVE  \A g \in Family, m \in Name : Exists(g, m)' <=> Exists(g, m) \/ (g = f /\ m = n)
<1>1. [free |-> free, updated |-> now] \in Doc
  BY DEF Doc, TypeOK
<1> QED BY <1>1, SetIs, DocNotNone DEF Exists

LEMMA ReleaseExists ==
  ASSUME TypeOK, NEW f \in Family, NEW n \in Name, release(f, n)
  PROVE  \A g \in Family, m \in Name : Exists(g, m)' <=> Exists(g, m)
<1>1. CASE Exists(f, n)
  <2>1. Set(f, n, TRUE)
    BY <1>1 DEF release
  <2>2. \A g \in Family, m \in Name : Exists(g, m)' <=> Exists(g, m) \/ (g = f /\ m = n)
    BY <2>1, SetExists
  <2> QED BY <1>1, <2>2
<1>2. CASE ~Exists(f, n)
  BY <1>2 DEF release, Exists
<1> QED BY <1>1, <1>2

LEMMA CountStep ==
  ASSUME ~Resets, Shapes, CountIsNext, Step
  PROVE  CountIsNext'
<1>t. TypeOK
  BY DEF Shapes
<1>0. ASSUME count' = count, \A g \in Family, m \in Name : Exists(g, m)' <=> Exists(g, m)
      PROVE  CountIsNext'
  BY <1>0 DEF CountIsNext, counted
<1>1. ASSUME NEW c \in Client, NEW f \in Family, NEW n \in Name, TryAcquire(c, f, n)
      PROVE  CountIsNext'
  <2>1. Set(f, n, FALSE) /\ Exists(f, n) /\ count' = count
    BY <1>1 DEF TryAcquire, Refused
  <2> QED BY <1>t, <1>0, <2>1, SetExists
<1>2. ASSUME NEW c \in Client, NEW f \in Family, NEW n \in Name, KeepAlive(c, f, n)
      PROVE  CountIsNext'
  <2>1. (Set(f, n, FALSE) /\ Exists(f, n)) \/ UNCHANGED doc
    BY <1>2 DEF KeepAlive, KeepsAlive, InUse
  <2>2. count' = count
    BY <1>2 DEF KeepAlive
  <2>3. CASE UNCHANGED doc
    BY <1>0, <2>2, <2>3 DEF Exists
  <2> QED BY <1>t, <1>0, <2>1, <2>2, <2>3, SetExists
<1>3. ASSUME NEW c \in Client, NEW f \in Family, NEW n \in Name, Release(c, f, n)
      PROVE  CountIsNext'
  BY <1>t, <1>0, <1>3, ReleaseExists DEF Release
<1>4. ASSUME NEW c \in Client, ReleaseZombie(c) PROVE CountIsNext'
  <2>1. call[c] # None /\ count' = count
    BY <1>4 DEF ReleaseZombie, At
  <2>2. PICK n \in call[c].todo : release(call[c].fam, n)
    BY <1>4 DEF ReleaseZombie
  <2>3. call[c].fam \in Family /\ n \in Name
    BY <2>1, CallAt
  <2> QED BY <1>t, <1>0, <2>1, <2>2, <2>3, ReleaseExists
<1>5. ASSUME NEW c \in Client, AcquireFree(c) PROVE CountIsNext'
  <2>1. call[c] # None /\ count' = count
    BY <1>5 DEF AcquireFree, At
  <2>2. PICK n \in Name : Free(call[c].fam, n) /\ Set(call[c].fam, n, FALSE)
    BY <1>5 DEF AcquireFree
  <2>3. call[c].fam \in Family /\ Exists(call[c].fam, n)
    BY <2>1, <2>2, CallAt DEF Free
  <2> QED BY <1>t, <1>0, <2>1, <2>2, <2>3, SetExists, ZenonT(40)
<1>6. ASSUME NEW c \in Client, AcquireNew(c) PROVE CountIsNext'
  <2> DEFINE f == call[c].fam
             n == counted(f)
  <2>1. f \in Family
    BY <1>6, CallAt DEF AcquireNew, At
  <2>2. n \in Name /\ Set(f, n, FALSE) /\ count' = [count EXCEPT ![f] = n + 1]
    BY <1>6 DEF AcquireNew, Count
  <2> HIDE DEF n, f
  <2>3. n = counted(f) /\ n \in Nat
    BY <2>2 DEF n, Name
  <2>4. \A g \in Family, m \in Name : Exists(g, m)' <=> Exists(g, m) \/ (g = f /\ m = n)
    BY <1>t, <2>1, <2>2, SetExists
  <2>5. \A g \in Family : counted(g)' = IF g = f THEN n + 1 ELSE counted(g)
    <3>1. n + 1 # None
      BY <2>3
    <3> QED BY <1>t, <2>1, <2>2, <3>1 DEF counted, TypeOK
  <2>6. \A g \in Family, m \in Name : Exists(g, m) <=> m < counted(g)
    BY DEF CountIsNext
  <2>7. \A g \in Family, m \in Name : Exists(g, m)' <=> m < counted(g)'
    BY <2>3, <2>4, <2>5, <2>6 DEF Name
  <2> QED BY <2>7 DEF CountIsNext
<1>7. ASSUME NEW c \in Client,
             StartReset(c) \/ DeleteName(c) \/ DeleteFamily(c) \/ EndReset(c)
      PROVE  FALSE
  <2>1. call[c] # None /\ call[c].kind = "reset"
    BY <1>7 DEF StartReset, DeleteName, DeleteFamily, EndReset, At
  <2> QED BY <2>1, CallAt
<1>8. ASSUME UNCHANGED <<doc, count>> PROVE CountIsNext'
  BY <1>0, <1>8 DEF Exists
<1>9. ASSUME NEW c \in Client, NEW f \in Family, StartAcquire(c, f) PROVE CountIsNext'
  BY <1>8, <1>9 DEF StartAcquire
<1>10. ASSUME NEW c \in Client, Looks(c) \/ Fail(c) \/ Crash(c) PROVE CountIsNext'
  BY <1>8, <1>10, LooksAre DEF Fail, Crash
<1>11. CASE Tick \/ UNCHANGED vars
  BY <1>8, <1>11 DEF Tick, vars
<1> QED BY <1>1, <1>2, <1>3, <1>4, <1>5, <1>6, <1>7, <1>9, <1>10, <1>11 DEF Step

LEMMA CountInit == Init => CountIsNext
BY DEF Init, CountIsNext, Exists, counted, Name

\* Without resets the count of a family is the first name it does not have, through
\* all interleavings of walks and transactions, failures and deaths.
THEOREM CountIsNextCorrect ==
  ASSUME ~Resets
  PROVE  Spec => []CountIsNext
<1>1. CountIsNext /\ Shapes /\ [Next]_vars => CountIsNext'
  BY CountStep, NextIsStep
<1> QED BY <1>1, CountInit, ShapesInvariant, PTL DEF Spec

-----------------------------------------------------------------------------
(* What a client in time can rely on.                                        *)

\* Families do not share their walks, or nothing walks.
OwnWalks == AutoReleaseAfter > 0 => \A f, g \in Family : f = g

Kept(c) ==
  InTime(c) /\ hold[c].calm => Backed(c) /\ ~Listed(hold[c].fam, hold[c].name)

\* The inductive form of CalmLeaseBacked: no walk has the name of such a client on
\* its list, since the list was made either before the grant, which would not have
\* been calm, or after a sign of life that is not old enough.
CalmHolds == ~misreleased => \A c \in Client : Kept(c)

LEMMA HoldAt ==
  ASSUME Shapes, NEW c \in Client, hold[c] # None
  PROVE  /\ hold[c] \in Hold
         /\ hold[c].fam \in Family /\ hold[c].name \in Name
         /\ hold[c].seen \in Nat /\ now \in Nat /\ hold[c].seen <= now
BY DEF Shapes, TypeOK, HoldShape, Hold, Time

LEMMA BackedIs ==
  ASSUME NEW c \in Client
  PROVE  /\ Backed(c) <=> /\ doc[hold[c].fam][hold[c].name] # None
                          /\ ~doc[hold[c].fam][hold[c].name].free
                          /\ doc[hold[c].fam][hold[c].name].updated >= hold[c].seen
         /\ Backed(c)' <=> /\ doc'[hold'[c].fam][hold'[c].name] # None
                           /\ ~doc'[hold'[c].fam][hold'[c].name].free
                           /\ doc'[hold'[c].fam][hold'[c].name].updated >= hold'[c].seen
BY DEF Backed, InUse, Exists

\* Who is in time after a step that left the hold alone was so before.
LEMMA InTimeBefore ==
  ASSUME Shapes, NEW c \in Client, hold'[c] = hold[c], now' \in Nat, now' >= now, InTime(c)'
  PROVE  InTime(c)
<1>1. hold[c] # None
  BY DEF InTime
<1> QED BY <1>1, HoldAt DEF InTime

\* A hold that a step leaves alone, with a document that keeps it and no new list
\* with its name, stays as it is.
LEMMA KeptStays ==
  ASSUME Shapes, NEW c \in Client, Kept(c), hold'[c] = hold[c], now' \in Nat, now' >= now,
         InTime(c) /\ Backed(c) => Backed(c)',
         \A f \in Family, n \in Name : Listed(f, n)' => Listed(f, n)
  PROVE  Kept(c)'
<1> SUFFICES ASSUME InTime(c)', hold'[c].calm
             PROVE  Backed(c)' /\ ~Listed(hold[c].fam, hold[c].name)'
  BY DEF Kept
<1>1. InTime(c) /\ hold[c].calm
  BY InTimeBefore
<1>2. Backed(c) /\ ~Listed(hold[c].fam, hold[c].name)
  BY <1>1 DEF Kept
<1>3. hold[c].fam \in Family /\ hold[c].name \in Name
  BY <1>1, HoldAt DEF InTime
<1>4. \A f \in Family, n \in Name :
        f = hold[c].fam /\ n = hold[c].name => ~Listed(f, n)'
  BY <1>2
<1>5. ~Listed(hold[c].fam, hold[c].name)'
  BY <1>3, <1>4 DEF Listed
<1> QED BY <1>1, <1>2, <1>5

LEMMA NoHold == ASSUME NEW c \in Client, hold'[c] = None PROVE Kept(c)'
BY DEF Kept, InTime

\* Writing a name in use backs whoever relies on it.
LEMMA SetBacks ==
  ASSUME Shapes, NEW f \in Family, NEW n \in Name, Set(f, n, FALSE),
         NEW c \in Client, hold'[c] = hold[c], hold[c] # None, Backed(c)
  PROVE  Backed(c)'
<1>1. hold[c].fam \in Family /\ hold[c].name \in Name /\ hold[c].seen <= now
  BY HoldAt
<1>2. [free |-> FALSE, updated |-> now] \in Doc
  BY DEF Doc, Shapes, TypeOK
<1>3. doc'[hold[c].fam][hold[c].name] =
        IF hold[c].fam = f /\ hold[c].name = n THEN [free |-> FALSE, updated |-> now]
        ELSE doc[hold[c].fam][hold[c].name]
  <2>1. TypeOK /\ FALSE \in BOOLEAN
    BY DEF Shapes
  <2>2. \A g \in Family, m \in Name :
          doc'[g][m] = IF g = f /\ m = n THEN [free |-> FALSE, updated |-> now] ELSE doc[g][m]
    BY <2>1, SetIs, ZenonT(40)
  <2> QED BY <1>1, <2>2
<1>4. CASE hold[c].fam = f /\ hold[c].name = n
  <2>1. now >= hold[c].seen
    BY <1>1, HoldAt
  <2> QED BY <1>2, <1>3, <1>4, <2>1, BackedIs, DocNotNone
<1>5. CASE ~(hold[c].fam = f /\ hold[c].name = n)
  BY <1>3, <1>5, BackedIs
<1> QED BY <1>4, <1>5

\* Releasing a name takes it from nobody else.
LEMMA ReleaseBacks ==
  ASSUME Shapes, NEW f \in Family, NEW n \in Name, release(f, n),
         NEW c \in Client, hold'[c] = hold[c], hold[c] # None, ~Holds(c, f, n), Backed(c)
  PROVE  Backed(c)'
<1>1. hold[c].fam \in Family /\ hold[c].name \in Name
  BY HoldAt
<1>2. ~(hold[c].fam = f /\ hold[c].name = n)
  BY DEF Holds
<1>3. doc'[hold[c].fam][hold[c].name] = doc[hold[c].fam][hold[c].name]
  <2>1. CASE Set(f, n, TRUE)
    <3>1. TypeOK /\ TRUE \in BOOLEAN
      BY DEF Shapes
    <3>2. \A g \in Family, m \in Name :
            doc'[g][m] = IF g = f /\ m = n THEN [free |-> TRUE, updated |-> now] ELSE doc[g][m]
      BY <2>1, <3>1, SetIs, ZenonT(40)
    <3> QED BY <1>1, <1>2, <3>2
  <2>2. CASE UNCHANGED doc
    BY <2>2
  <2> QED BY <2>1, <2>2 DEF release
<1> QED BY <1>3, BackedIs

\* The holds after a grant.
LEMMA GrantKeeps ==
  ASSUME Shapes, NEW c \in Client, NEW f \in Family, NEW n \in Name,
         Granted(c, f, n), Set(f, n, FALSE), \A d \in Client : Kept(d),
         \A g \in Family, m \in Name : Listed(g, m)' => Listed(g, m)
  PROVE  \A d \in Client : Kept(d)'
<1> SUFFICES ASSUME NEW d \in Client PROVE Kept(d)'
  OBVIOUS
<1>1. now \in Nat /\ now' = now
  BY DEF Granted, Shapes, TypeOK, Time
<1> DEFINE h == [fam |-> f, name |-> n, seen |-> now, calm |-> ~Listed(f, n)]
<1>2. hold' = [hold EXCEPT ![c] = h] /\ h.fam = f /\ h.name = n /\ h.seen = now
      /\ (h.calm <=> ~Listed(f, n))
  BY DEF Granted
<1> HIDE DEF h
<1>3. CASE d # c
  <2>1. hold'[d] = hold[d]
    BY <1>2, <1>3 DEF Shapes, TypeOK
  <2>2. InTime(d) /\ Backed(d) => Backed(d)'
    BY <2>1, SetBacks DEF InTime
  <2>3. now' \in Nat /\ now' >= now
    BY <1>1
  <2> QED BY <2>1, <2>2, <2>3, KeptStays
<1>4. CASE d = c
  <2>1. hold'[c] = h
    BY <1>2 DEF Shapes, TypeOK
  <2>2. Backed(c)'
    <3>1. doc'[f][n] = [free |-> FALSE, updated |-> now]
      BY SetIs, ZenonT(40) DEF Shapes
    <3>2. [free |-> FALSE, updated |-> now] \in Doc /\ now >= now
      BY <1>1 DEF Doc, Shapes, TypeOK
    <3> QED BY <1>2, <2>1, <3>1, <3>2, BackedIs, DocNotNone
  <2>3. ASSUME hold'[c].calm PROVE ~Listed(hold[c].fam, hold[c].name)'
    <3>1. ~Listed(f, n)
      BY <1>2, <2>1, <2>3
    <3>2. ~Listed(f, n)'
      BY <3>1
    <3>3. hold'[c].fam = f /\ hold'[c].name = n
      BY <1>2, <2>1
    <3> QED BY <3>2, <3>3 DEF Listed
  <2> QED BY <1>4, <2>2, <2>3 DEF Kept
<1> QED BY <1>3, <1>4

\* A call that ends, goes on without reading, or starts, lists no more names.
LEMMA ListedLess ==
  ASSUME Shapes, NEW c \in Client, NEW k \in Call \cup {None},
         call' = [call EXCEPT ![c] = k],
         \/ k = None
         \/ k.kind = "reset"
         \/ k.todo = {}
         \/ call[c] # None /\ k.kind = call[c].kind /\ k.fam = call[c].fam
            /\ k.todo \subseteq call[c].todo
  PROVE  \A f \in Family, n \in Name : Listed(f, n)' => Listed(f, n)
<1> SUFFICES ASSUME NEW f \in Family, NEW n \in Name, Listed(f, n)' PROVE Listed(f, n)
  OBVIOUS
<1>1. PICK d \in Client : call'[d] # None /\ call'[d].kind = "acquire" /\ call'[d].fam = f
                          /\ n \in call'[d].todo
  BY DEF Listed
<1>2. CASE d # c
  <2>1. call'[d] = call[d]
    BY <1>2 DEF Shapes, TypeOK
  <2> QED BY <1>1, <2>1 DEF Listed
<1>3. CASE d = c
  <2>1. call'[c] = k
    BY DEF Shapes, TypeOK
  <2>2. k # None /\ k.kind = "acquire" /\ k.fam = f /\ n \in k.todo
    BY <1>1, <1>3, <2>1
  <2> QED BY <2>2 DEF Listed
<1> QED BY <1>2, <1>3

\* Only a walk that reads the names of its family lists more names, and those are too
\* old to be the name of a client in time.
LEMMA LooksSpare ==
  ASSUME OwnWalks, Shapes, NEW c \in Client, Looks(c),
         NEW d \in Client, InTime(d), Backed(d), ~Listed(hold[d].fam, hold[d].name)
  PROVE  ~Listed(hold[d].fam, hold[d].name)'
<1> DEFINE f == hold[d].fam
           n == hold[d].name
<1>1. /\ f \in Family /\ n \in Name /\ hold[d] # None
      /\ hold[d].seen \in Nat /\ now \in Nat
  BY HoldAt DEF InTime
<1>2. hold' = hold /\ call[c] # None
  BY LooksAre
<1>3. PICK k \in Call :
        /\ call' = [call EXCEPT ![c] = k]
        /\ k.kind = call[c].kind /\ k.fam = call[c].fam /\ k.asOf = call[c].asOf
        /\ \/ k.todo = call[c].todo
           \/ k.kind = "reset"
           \/ AutoReleaseAfter > 0 /\ \E g \in Family : k.todo = Zombies(c, g)
  BY LooksAre
<1>4. CASE k.todo = call[c].todo \/ k.kind = "reset"
  <2>1. \A g \in Family, m \in Name : Listed(g, m)' => Listed(g, m)
    BY <1>2, <1>3, <1>4, ListedLess
  <2>2. \A g \in Family, m \in Name : g = f /\ m = n => ~Listed(g, m)'
    BY <2>1
  <2> QED BY <1>1, <1>2, <2>2 DEF Listed
<1>5. CASE AutoReleaseAfter > 0 /\ \E g \in Family : k.todo = Zombies(c, g)
  <2>1. k.todo = Zombies(c, f)
    BY <1>1, <1>5 DEF OwnWalks
  <2>2. doc[f][n].updated >= hold[d].seen /\ Exists(f, n)
    BY DEF Backed, InUse
  <2>3. now - hold[d].seen <= AutoReleaseAfter
    BY <1>5 DEF InTime
  <2>4. call[c].asOf <= now /\ call[c].asOf \in Nat /\ doc[f][n].updated \in Nat
    BY <1>1, <1>2, <2>2, CallAt DEF Call, Time, Shapes, TypeOK, Doc, Exists
  <2>5. ~(call[c].asOf - doc[f][n].updated > AutoReleaseAfter)
    BY <1>1, <2>2, <2>3, <2>4, AutoReleaseAssumption
  <2>6. n \notin k.todo
    BY <2>1, <2>5 DEF Zombies
  <2> HIDE DEF f, n
  <2>7. \A e \in Client : call'[e] = IF e = c THEN k ELSE call[e]
    BY <1>3 DEF Shapes, TypeOK
  <2>8. ~\E e \in Client : call'[e] # None /\ call'[e].kind = "acquire" /\ call'[e].fam = f
                           /\ n \in call'[e].todo
    BY <2>6, <2>7 DEF Listed, f, n
  <2> QED BY <1>2, <2>8 DEF Listed, f, n
<1> QED BY <1>3, <1>4, <1>5

LEMMA KeepAliveKeeps ==
  ASSUME Shapes, NEW c \in Client, NEW f \in Family, NEW n \in Name, KeepAlive(c, f, n),
         \A d \in Client : Kept(d)
  PROVE  \A d \in Client : Kept(d)'
<1> SUFFICES ASSUME NEW d \in Client PROVE Kept(d)'
  OBVIOUS
<1>1. now \in Nat /\ now' = now /\ now' >= now /\ call' = call
  BY DEF KeepAlive, Shapes, TypeOK, Time
<1>2. \A g \in Family, m \in Name : Listed(g, m)' => Listed(g, m)
  BY <1>1 DEF Listed
<1>3. CASE hold'[d] = hold[d]
  <2>1. InTime(d) /\ Backed(d) => Backed(d)'
    <3>1. CASE Set(f, n, FALSE)
      BY <1>3, <3>1, SetBacks DEF InTime
    <3>2. CASE UNCHANGED doc
      BY <1>3, <3>2, BackedIs
    <3> QED BY <3>1, <3>2 DEF KeepAlive
  <2> QED BY <1>1, <1>2, <1>3, <2>1, KeptStays
<1>4. CASE hold'[d] # hold[d]
  <2>1. InTime(c) /\ hold' = [hold EXCEPT ![c].seen = now] /\ d = c
    BY <1>4 DEF KeepAlive, Shapes, TypeOK
  <2>2. hold[c] \in Hold /\ hold[c] # None
    BY <2>1, HoldAt DEF InTime
  <2>3. hold'[c] = [hold[c] EXCEPT !.seen = now]
    BY <2>1 DEF Shapes, TypeOK
  <2>4. /\ hold'[c].fam = hold[c].fam /\ hold'[c].name = hold[c].name
        /\ hold'[c].calm = hold[c].calm /\ hold'[c].seen = now
    BY <2>2, <2>3 DEF Hold
  <2>5. hold[c].fam = f /\ hold[c].name = n
    BY <2>2 DEF KeepAlive, MayName, Holds
  <2>6. SUFFICES ASSUME hold[c].calm PROVE Backed(c)' /\ ~Listed(hold[c].fam, hold[c].name)'
    BY <2>1, <2>4 DEF Kept
  <2>7. Backed(c) /\ ~Listed(f, n)
    BY <2>1, <2>5, <2>6 DEF Kept
  <2>8. Set(f, n, FALSE)
    BY <2>5, <2>7 DEF KeepAlive, KeepsAlive, Backed
  <2>9. Backed(c)'
    <3>1. TypeOK /\ FALSE \in BOOLEAN
      BY DEF Shapes
    <3>2. doc'[f][n] = [free |-> FALSE, updated |-> now]
      BY <2>8, <3>1, SetIs, ZenonT(40)
    <3>3. [free |-> FALSE, updated |-> now] \in Doc /\ now >= now
      BY <1>1 DEF Doc, Shapes, TypeOK
    <3> QED BY <2>4, <2>5, <3>2, <3>3, BackedIs, DocNotNone
  <2>10. ~Listed(hold[c].fam, hold[c].name)'
    BY <1>1, <2>4, <2>5, <2>7 DEF Listed
  <2> QED BY <2>9, <2>10
<1> QED BY <1>3, <1>4

LEMMA ReleaseKeeps ==
  ASSUME Shapes, NEW c \in Client, NEW f \in Family, NEW n \in Name, Release(c, f, n),
         ~misreleased', \A d \in Client : Kept(d)
  PROVE  \A d \in Client : Kept(d)'
<1> SUFFICES ASSUME NEW d \in Client PROVE Kept(d)'
  OBVIOUS
<1>1. now \in Nat /\ now' = now /\ now' >= now /\ call' = call
      /\ hold' = [hold EXCEPT ![c] = None] /\ release(f, n)
  BY DEF Release, Shapes, TypeOK, Time
<1>2. CASE d = c
  <2>1. hold'[d] = None
    BY <1>1, <1>2 DEF Shapes, TypeOK
  <2> QED BY <2>1, NoHold
<1>3. CASE d # c
  <2>1. hold'[d] = hold[d]
    BY <1>1, <1>3 DEF Shapes, TypeOK
  <2>2. \A g \in Family, m \in Name : Listed(g, m)' => Listed(g, m)
    BY <1>1 DEF Listed
  <2>3. ~(InTime(d) /\ Holds(d, f, n))
    BY <1>3 DEF Release
  <2>4. InTime(d) /\ Backed(d) => Backed(d)'
    BY <1>1, <2>1, <2>3, ReleaseBacks DEF InTime
  <2> QED BY <1>1, <2>1, <2>2, <2>4, KeptStays
<1> QED BY <1>2, <1>3

LEMMA ReleaseZombieKeeps ==
  ASSUME Shapes, NEW c \in Client, ReleaseZombie(c), \A d \in Client : Kept(d)
  PROVE  \A d \in Client : Kept(d)'
<1> SUFFICES ASSUME NEW d \in Client PROVE Kept(d)'
  OBVIOUS
<1>1. /\ call[c] # None /\ call[c].kind = "acquire"
      /\ now \in Nat /\ now' = now /\ now' >= now /\ hold' = hold
  BY DEF ReleaseZombie, At, Shapes, TypeOK, Time
<1>2. PICK n \in call[c].todo :
        release(call[c].fam, n) /\ call' = [call EXCEPT ![c].todo = @ \ {n}]
  BY DEF ReleaseZombie
<1>3. call[c] \in Call /\ call[c].fam \in Family /\ n \in Name
  BY <1>1, CallAt
<1> DEFINE k == [call[c] EXCEPT !.todo = @ \ {n}]
<1>4. /\ k \in Call /\ k.kind = call[c].kind /\ k.fam = call[c].fam
      /\ k.todo \subseteq call[c].todo
  BY <1>3 DEF Call
<1>5. call' = [call EXCEPT ![c] = k]
  BY <1>2 DEF Shapes, TypeOK
<1> HIDE DEF k
<1>6. \A g \in Family, m \in Name : Listed(g, m)' => Listed(g, m)
  BY <1>1, <1>4, <1>5, ListedLess
<1>7. Listed(call[c].fam, n)
  BY <1>1 DEF Listed
<1>8. CASE InTime(d) /\ hold[d].calm
  <2>1. ~Holds(d, call[c].fam, n)
    BY <1>7, <1>8 DEF Kept, Holds
  <2>2. Backed(d) => Backed(d)'
    BY <1>1, <1>2, <1>3, <1>8, <2>1, ReleaseBacks DEF InTime
  <2> QED BY <1>1, <1>6, <2>2, KeptStays
<1>9. CASE ~(InTime(d) /\ hold[d].calm)
  BY <1>1, <1>9, InTimeBefore DEF Kept
<1> QED BY <1>8, <1>9

LEMMA CalmStep ==
  ASSUME OwnWalks, Shapes, CalmHolds, Step
  PROVE  CalmHolds'
<1> SUFFICES ASSUME ~misreleased' PROVE \A d \in Client : Kept(d)'
  BY DEF CalmHolds
<1>0. ~misreleased
  <2>1. ASSUME NEW c \in Client, NEW f \in Family, NEW n \in Name,
               TryAcquire(c, f, n) \/ KeepAlive(c, f, n) \/ Release(c, f, n)
        PROVE  ~misreleased
    BY <2>1 DEF TryAcquire, Granted, KeepAlive, Release
  <2>2. ASSUME NEW c \in Client, NEW f \in Family, StartAcquire(c, f) PROVE ~misreleased
    BY <2>2 DEF StartAcquire
  <2>3. ASSUME NEW c \in Client, AcquireFree(c) \/ AcquireNew(c) PROVE ~misreleased
    BY <2>3 DEF AcquireFree, AcquireNew, Granted
  <2>4. ASSUME NEW c \in Client, Looks(c) \/ ReleaseZombie(c) \/ Fail(c) \/ Crash(c)
        PROVE  ~misreleased
    BY <2>4, LooksAre DEF ReleaseZombie, Fail, Crash
  <2>5. ASSUME NEW c \in Client,
               StartReset(c) \/ DeleteName(c) \/ DeleteFamily(c) \/ EndReset(c)
        PROVE  ~misreleased
    BY <2>5 DEF StartReset, DeleteName, DeleteFamily, EndReset
  <2>6. CASE Tick \/ UNCHANGED vars
    BY <2>6 DEF Tick, vars
  <2> QED BY <2>1, <2>2, <2>3, <2>4, <2>5, <2>6 DEF Step
<1>1. \A d \in Client : Kept(d)
  BY <1>0 DEF CalmHolds
<1>2. now \in Nat
  BY DEF Shapes, TypeOK, Time
<1>3. ASSUME NEW c \in Client, NEW f \in Family, NEW n \in Name, TryAcquire(c, f, n)
      PROVE  \A d \in Client : Kept(d)'
  <2>1. Granted(c, f, n) /\ Set(f, n, FALSE) /\ call' = call
    BY <1>3 DEF TryAcquire
  <2>2. \A g \in Family, m \in Name : Listed(g, m)' => Listed(g, m)
    BY <2>1 DEF Listed
  <2> QED BY <1>1, <2>1, <2>2, GrantKeeps
<1>4. ASSUME NEW c \in Client, NEW f \in Family, StartAcquire(c, f)
      PROVE  \A d \in Client : Kept(d)'
  <2> DEFINE k == StartedCall("acquire", f, IF AutoReleaseAfter > 0 THEN "list" ELSE "tx")
  <2>1. call' = [call EXCEPT ![c] = k] /\ UNCHANGED <<now, doc, hold>>
    BY <1>4 DEF StartAcquire
  <2>2. k \in Call /\ k.todo = {}
    BY DEF StartedCall, Call, Shapes, TypeOK
  <2> HIDE DEF k
  <2>3. \A g \in Family, m \in Name : Listed(g, m)' => Listed(g, m)
    BY <2>1, <2>2, ListedLess
  <2>4. \A d \in Client : Backed(d) => Backed(d)'
    BY <2>1, BackedIs
  <2> QED BY <1>1, <1>2, <2>1, <2>3, <2>4, KeptStays
<1>5. ASSUME NEW c \in Client, Looks(c) PROVE \A d \in Client : Kept(d)'
  <2>1. now' = now /\ doc' = doc /\ hold' = hold
    BY <1>5, LooksAre
  <2>2. SUFFICES ASSUME NEW d \in Client, InTime(d)', hold'[d].calm
                 PROVE  Backed(d)' /\ ~Listed(hold[d].fam, hold[d].name)'
    BY DEF Kept
  <2>3. InTime(d) /\ hold[d].calm
    BY <1>2, <2>1, <2>2 DEF InTime
  <2>4. Backed(d) /\ ~Listed(hold[d].fam, hold[d].name)
    BY <1>1, <2>3 DEF Kept
  <2>5. Backed(d)'
    BY <2>1, <2>4, BackedIs
  <2> QED BY <1>5, <2>3, <2>4, <2>5, LooksSpare
<1>6. ASSUME NEW c \in Client, AcquireFree(c) \/ AcquireNew(c)
      PROVE  \A d \in Client : Kept(d)'
  <2>1. call[c] # None /\ call' = [call EXCEPT ![c] = None]
    BY <1>6 DEF AcquireFree, AcquireNew, At
  <2>2. PICK n \in Name : Set(call[c].fam, n, FALSE) /\ Granted(c, call[c].fam, n)
    BY <1>6 DEF AcquireFree, AcquireNew
  <2>3. \A g \in Family, m \in Name : Listed(g, m)' => Listed(g, m)
    BY <2>1, ListedLess
  <2> QED BY <1>1, <2>1, <2>2, <2>3, CallAt, GrantKeeps
<1>7. ASSUME NEW c \in Client,
             StartReset(c) \/ DeleteName(c) \/ DeleteFamily(c) \/ EndReset(c)
      PROVE  \A d \in Client : Kept(d)'
  BY <1>7, NoHold DEF StartReset, DeleteName, DeleteFamily, EndReset, VoidHolds
<1>8. ASSUME NEW c \in Client, Fail(c) \/ Crash(c) PROVE \A d \in Client : Kept(d)'
  <2> SUFFICES ASSUME NEW d \in Client PROVE Kept(d)'
    OBVIOUS
  <2>1. call' = [call EXCEPT ![c] = None] /\ now' = now /\ doc' = doc
        /\ (hold'[d] = hold[d] \/ hold'[d] = None)
    BY <1>8 DEF Fail, Crash, Shapes, TypeOK
  <2>2. \A g \in Family, m \in Name : Listed(g, m)' => Listed(g, m)
    BY <2>1, ListedLess
  <2>3. CASE hold'[d] = hold[d]
    <3>1. Backed(d) => Backed(d)'
      BY <2>1, <2>3, BackedIs
    <3> QED BY <1>1, <1>2, <2>1, <2>2, <2>3, <3>1, KeptStays
  <2> QED BY <2>1, <2>3, NoHold
<1>9. CASE Tick \/ UNCHANGED vars
  <2>1. now' \in Nat /\ now' >= now /\ call' = call /\ hold' = hold /\ doc' = doc
    BY <1>2, <1>9 DEF Tick, vars
  <2>2. \A g \in Family, m \in Name : Listed(g, m)' => Listed(g, m)
    BY <2>1 DEF Listed
  <2>3. \A d \in Client : Backed(d) => Backed(d)'
    BY <2>1, BackedIs
  <2> QED BY <1>1, <2>1, <2>2, <2>3, KeptStays
<1> QED BY <1>1, <1>3, <1>4, <1>5, <1>6, <1>7, <1>8, <1>9, KeepAliveKeeps, ReleaseKeeps,
           ReleaseZombieKeeps DEF Step

LEMMA CalmHoldsInvariant ==
  ASSUME OwnWalks
  PROVE  Spec => []CalmHolds
<1>1. Init => CalmHolds
  BY DEF Init, CalmHolds, Kept, InTime
<1>2. Shapes /\ CalmHolds /\ [Next]_vars => CalmHolds'
  BY CalmStep, NextIsStep
<1> QED BY <1>1, <1>2, ShapesInvariant, PTL DEF Spec

\* When families do not share their walks, the name of a client in time is in use and
\* not older than its last sign of life, unless a walk had it listed before the grant.
THEOREM CalmLeaseBackedCorrect ==
  ASSUME OwnWalks
  PROVE  Spec => []CalmLeaseBacked
<1>1. CalmHolds => CalmLeaseBacked
  BY DEF CalmHolds, CalmLeaseBacked, Kept
<1> QED BY <1>1, CalmHoldsInvariant, PTL

-----------------------------------------------------------------------------
(* Exclusion.                                                                *)

\* A step after which the clients have the names they had, or none.
LEMMA SameHolds ==
  ASSUME Shapes, CalmLeaseExclusive, now' \in Nat, now' >= now, misreleased => misreleased',
         \A c \in Client :
           \/ hold'[c] = None
           \/ hold'[c] = hold[c]
           \/ /\ InTime(c)
              /\ hold'[c].fam = hold[c].fam /\ hold'[c].name = hold[c].name
              /\ hold'[c].calm = hold[c].calm
  PROVE  CalmLeaseExclusive'
<1>1. SUFFICES ASSUME ~misreleased', NEW c \in Client, NEW d \in Client, c # d,
                      InTime(c)', InTime(d)', hold'[c].calm, hold'[d].calm
               PROVE  ~SameName(c, d)'
  BY DEF CalmLeaseExclusive
<1>2. hold'[c] # None /\ hold'[d] # None
  BY <1>1 DEF InTime
<1>3. InTime(c) /\ hold[c].calm /\ hold'[c].fam = hold[c].fam /\ hold'[c].name = hold[c].name
  BY <1>1, <1>2, InTimeBefore
<1>4. InTime(d) /\ hold[d].calm /\ hold'[d].fam = hold[d].fam /\ hold'[d].name = hold[d].name
  BY <1>1, <1>2, InTimeBefore
<1>5. ~misreleased
  BY <1>1
<1>6. ~SameName(c, d)
  BY <1>1, <1>3, <1>4, <1>5 DEF CalmLeaseExclusive
<1> QED BY <1>3, <1>4, <1>6 DEF SameName

\* A name that is not in use is the name of nobody in time.
LEMMA GrantExcludes ==
  ASSUME Shapes, CalmHolds, CalmLeaseExclusive, NEW e \in Client, NEW f \in Family,
         NEW n \in Name, Granted(e, f, n), ~InUse(f, n)
  PROVE  CalmLeaseExclusive'
<1>1. SUFFICES ASSUME ~misreleased', NEW c \in Client, NEW d \in Client, c # d,
                      InTime(c)', InTime(d)', hold'[c].calm, hold'[d].calm
               PROVE  ~SameName(c, d)'
  BY DEF CalmLeaseExclusive
<1>2. now \in Nat /\ now' = now /\ now' >= now /\ misreleased' = misreleased
  BY DEF Granted, Shapes, TypeOK, Time
<1> DEFINE h == [fam |-> f, name |-> n, seen |-> now, calm |-> ~Listed(f, n)]
<1>3. hold' = [hold EXCEPT ![e] = h] /\ h.fam = f /\ h.name = n
  BY DEF Granted
<1> HIDE DEF h
<1>4. hold'[e].fam = f /\ hold'[e].name = n
  BY <1>3 DEF Shapes, TypeOK
<1>5. \A a \in Client \ {e} : hold'[a] = hold[a]
  BY <1>3 DEF Shapes, TypeOK
<1>6. ASSUME NEW a \in Client \ {e}, InTime(a)', hold'[a].calm
      PROVE  InTime(a) /\ hold[a].calm /\ ~(hold[a].fam = f /\ hold[a].name = n)
  <2>1. hold'[a] = hold[a]
    BY <1>5
  <2>2. InTime(a) /\ hold[a].calm
    BY <1>2, <1>6, <2>1, InTimeBefore
  <2>3. Backed(a)
    BY <1>1, <1>2, <2>2 DEF CalmHolds, Kept
  <2> QED BY <2>2, <2>3 DEF Backed
<1>7. CASE c = e \/ d = e
  BY <1>1, <1>4, <1>5, <1>6, <1>7 DEF SameName
<1>8. CASE c # e /\ d # e
  <2>1. ~SameName(c, d)
    BY <1>1, <1>2, <1>6, <1>8 DEF CalmLeaseExclusive
  <2>2. hold'[c] = hold[c] /\ hold'[d] = hold[d]
    BY <1>5, <1>8
  <2> QED BY <2>1, <2>2 DEF SameName
<1> QED BY <1>7, <1>8

LEMMA ExclusiveStep ==
  ASSUME ~Resets, Shapes, CountIsNext, CalmHolds, CalmLeaseExclusive, Step
  PROVE  CalmLeaseExclusive'
<1>1. now \in Nat
  BY DEF Shapes, TypeOK, Time
<1>2. ASSUME NEW c \in Client, NEW f \in Family, NEW n \in Name, TryAcquire(c, f, n)
      PROVE  CalmLeaseExclusive'
  BY <1>2, GrantExcludes DEF TryAcquire, Refused
<1>3. ASSUME NEW c \in Client, NEW f \in Family, NEW n \in Name, KeepAlive(c, f, n)
      PROVE  CalmLeaseExclusive'
  <2>1. CASE InTime(c)
    <3>1. hold' = [hold EXCEPT ![c].seen = now] /\ now' = now /\ misreleased' = misreleased
      BY <1>3, <2>1 DEF KeepAlive
    <3>2. hold[c] \in Hold
      BY <2>1, HoldAt DEF InTime
    <3>3. hold'[c] = [hold[c] EXCEPT !.seen = now] /\ \A d \in Client \ {c} : hold'[d] = hold[d]
      BY <3>1 DEF Shapes, TypeOK
    <3>4. /\ hold'[c].fam = hold[c].fam /\ hold'[c].name = hold[c].name
          /\ hold'[c].calm = hold[c].calm
      BY <3>2, <3>3 DEF Hold
    <3> QED BY <1>1, <2>1, <3>1, <3>3, <3>4, SameHolds
  <2>2. CASE ~InTime(c)
    BY <1>1, <1>3, <2>2, SameHolds DEF KeepAlive
  <2> QED BY <2>1, <2>2
<1>4. ASSUME NEW c \in Client, NEW f \in Family, NEW n \in Name, Release(c, f, n)
      PROVE  CalmLeaseExclusive'
  <2>1. now' = now /\ (misreleased => misreleased') /\ hold' = [hold EXCEPT ![c] = None]
    BY <1>4 DEF Release
  <2>2. \A d \in Client : hold'[d] = None \/ hold'[d] = hold[d]
    BY <2>1 DEF Shapes, TypeOK
  <2> QED BY <1>1, <2>1, <2>2, SameHolds
<1>5. ASSUME NEW c \in Client, NEW f \in Family, StartAcquire(c, f) PROVE CalmLeaseExclusive'
  BY <1>1, <1>5, SameHolds DEF StartAcquire
<1>6. ASSUME NEW c \in Client, Looks(c) \/ ReleaseZombie(c) PROVE CalmLeaseExclusive'
  <2>1. now' = now /\ misreleased' = misreleased /\ hold' = hold
    BY <1>6, LooksAre DEF ReleaseZombie
  <2> QED BY <1>1, <2>1, SameHolds
<1>7. ASSUME NEW c \in Client, AcquireFree(c) PROVE CalmLeaseExclusive'
  <2>1. call[c].fam \in Family
    BY <1>7, CallAt DEF AcquireFree, At
  <2>2. PICK n \in Name : Free(call[c].fam, n) /\ Granted(c, call[c].fam, n)
    BY <1>7 DEF AcquireFree
  <2>3. ~InUse(call[c].fam, n)
    BY <2>2 DEF Free, InUse
  <2> QED BY <2>1, <2>2, <2>3, GrantExcludes
<1>8. ASSUME NEW c \in Client, AcquireNew(c) PROVE CalmLeaseExclusive'
  <2>1. call[c].fam \in Family
    BY <1>8, CallAt DEF AcquireNew, At
  <2>2. PICK n \in {counted(call[c].fam)} \cap Name : Granted(c, call[c].fam, n)
    BY <1>8 DEF AcquireNew
  <2>3. n \in Name /\ ~(n < counted(call[c].fam))
    BY <2>2 DEF Name
  <2>4. ~InUse(call[c].fam, n)
    BY <2>1, <2>3 DEF CountIsNext, InUse
  <2> QED BY <2>1, <2>2, <2>3, <2>4, GrantExcludes
<1>9. ASSUME NEW c \in Client,
             StartReset(c) \/ DeleteName(c) \/ DeleteFamily(c) \/ EndReset(c)
      PROVE  FALSE
  <2>1. call[c] # None /\ call[c].kind = "reset"
    BY <1>9 DEF StartReset, DeleteName, DeleteFamily, EndReset, At
  <2> QED BY <2>1, CallAt
<1>10. ASSUME NEW c \in Client, Fail(c) \/ Crash(c) PROVE CalmLeaseExclusive'
  <2>1. now' = now /\ misreleased' = misreleased
        /\ (hold' = hold \/ hold' = [hold EXCEPT ![c] = None])
    BY <1>10 DEF Fail, Crash
  <2>2. \A d \in Client : hold'[d] = None \/ hold'[d] = hold[d]
    BY <2>1 DEF Shapes, TypeOK
  <2> QED BY <1>1, <2>1, <2>2, SameHolds
<1>11. CASE Tick \/ UNCHANGED vars
  <2>1. now' \in Nat /\ now' >= now /\ misreleased' = misreleased /\ hold' = hold
    BY <1>1, <1>11 DEF Tick, vars
  <2> QED BY <2>1, SameHolds
<1> QED BY <1>2, <1>3, <1>4, <1>5, <1>6, <1>7, <1>8, <1>9, <1>10, <1>11 DEF Step

\* When families do not share their walks and nobody resets, two clients in time never
\* hold the same name, unless a walk had the name of one of them listed before its grant.
THEOREM CalmLeaseExclusiveCorrect ==
  ASSUME OwnWalks, ~Resets
  PROVE  Spec => []CalmLeaseExclusive
<1>1. Init => CalmLeaseExclusive
  BY DEF Init, CalmLeaseExclusive, InTime
<1>2. /\ Shapes /\ CountIsNext /\ CalmHolds /\ CalmLeaseExclusive /\ [Next]_vars
      => CalmLeaseExclusive'
  BY ExclusiveStep, NextIsStep
<1>3. Spec => []CountIsNext
  BY CountIsNextCorrect
<1>4. Spec => []CalmHolds
  BY CalmHoldsInvariant
<1> QED BY <1>1, <1>2, <1>3, <1>4, ShapesInvariant, PTL DEF Spec

\* Without auto-release and without resets, no two clients hold the same name as long
\* as nobody releases the name of another: Acquire, TryAcquire, Release and KeepAlive
\* by themselves are safe, whatever the number of clients, families and names.
THEOREM FirestoreLeaseExclusiveCorrect ==
  ASSUME AutoReleaseAfter = 0, ~Resets
  PROVE  Spec => []LeaseExclusive
<1>1. OwnWalks
  BY DEF OwnWalks
<1>2. Shapes /\ CalmLeaseExclusive => LeaseExclusive
  BY DEF Shapes, HoldShape, CalmLeaseExclusive, LeaseExclusive, InTime
<1>3. Spec => []CalmLeaseExclusive
  BY <1>1, CalmLeaseExclusiveCorrect
<1> QED BY <1>2, <1>3, ShapesInvariant, PTL

-----------------------------------------------------------------------------
(* Grants.                                                                   *)

\* A client acquires only while it holds nothing: it makes no other call until the
\* Acquire has returned.
AskingHoldsNothing ==
  \A c \in Client : call[c] # None /\ call[c].kind = "acquire" => hold[c] = None

LEMMA AskingStep ==
  ASSUME Shapes, AskingHoldsNothing, Step
  PROVE  AskingHoldsNothing'
<1>1. ASSUME NEW c \in Client, NEW f \in Family, NEW n \in Name,
             TryAcquire(c, f, n) \/ KeepAlive(c, f, n) \/ Release(c, f, n)
      PROVE  AskingHoldsNothing'
  <2>1. call' = call /\ call[c] = None
    BY <1>1 DEF TryAcquire, KeepAlive, Release, Idle
  <2>2. \A d \in Client : d # c => hold'[d] = hold[d]
    BY <1>1 DEF TryAcquire, Granted, KeepAlive, Release, Shapes, TypeOK
  <2> QED BY <2>1, <2>2 DEF AskingHoldsNothing
<1>2. ASSUME NEW c \in Client, NEW f \in Family, StartAcquire(c, f)
      PROVE  AskingHoldsNothing'
  <2>1. hold' = hold /\ hold[c] = None /\ \A d \in Client : d # c => call'[d] = call[d]
    BY <1>2 DEF StartAcquire, Shapes, TypeOK
  <2> QED BY <2>1 DEF AskingHoldsNothing
<1>3. ASSUME NEW c \in Client, Looks(c) PROVE AskingHoldsNothing'
  <2>1. call[c] # None /\ hold' = hold
    BY <1>3, LooksAre
  <2>2. PICK k \in Call : call' = [call EXCEPT ![c] = k] /\ k.kind = call[c].kind
    BY <1>3, LooksAre
  <2>3. call'[c] = k /\ \A d \in Client : d # c => call'[d] = call[d]
    BY <2>2 DEF Shapes, TypeOK
  <2> QED BY <2>1, <2>2, <2>3 DEF AskingHoldsNothing
<1>4. ASSUME NEW c \in Client, ReleaseZombie(c) PROVE AskingHoldsNothing'
  <2>1. hold' = hold /\ hold[c] = None
    BY <1>4 DEF ReleaseZombie, At, AskingHoldsNothing
  <2>2. \A d \in Client : d # c => call'[d] = call[d]
    BY <1>4 DEF ReleaseZombie, Shapes, TypeOK
  <2> QED BY <2>1, <2>2 DEF AskingHoldsNothing
<1>5. ASSUME NEW c \in Client, AcquireFree(c) \/ AcquireNew(c) PROVE AskingHoldsNothing'
  <2>1. call'[c] = None /\ \A d \in Client : d # c => call'[d] = call[d]
    BY <1>5 DEF AcquireFree, AcquireNew, Shapes, TypeOK
  <2>2. \A d \in Client : d # c => hold'[d] = hold[d]
    BY <1>5 DEF AcquireFree, AcquireNew, Granted, Shapes, TypeOK
  <2> QED BY <2>1, <2>2 DEF AskingHoldsNothing
<1>6. ASSUME NEW c \in Client,
             StartReset(c) \/ DeleteName(c) \/ DeleteFamily(c) \/ EndReset(c)
      PROVE  AskingHoldsNothing'
  BY <1>6 DEF StartReset, DeleteName, DeleteFamily, EndReset, VoidHolds, AskingHoldsNothing
<1>7. ASSUME NEW c \in Client, Fail(c) \/ Crash(c) PROVE AskingHoldsNothing'
  <2>1. call'[c] = None /\ \A d \in Client : d # c => call'[d] = call[d] /\ hold'[d] = hold[d]
    BY <1>7 DEF Fail, Crash, Shapes, TypeOK
  <2> QED BY <2>1 DEF AskingHoldsNothing
<1>8. CASE Tick \/ UNCHANGED vars
  BY <1>8 DEF Tick, vars, AskingHoldsNothing
<1> QED BY <1>1, <1>2, <1>3, <1>4, <1>5, <1>6, <1>7, <1>8 DEF Step

LEMMA AskingInvariant == Spec => []AskingHoldsNothing
<1>1. Init => AskingHoldsNothing
  BY DEF Init, AskingHoldsNothing
<1>2. Shapes /\ AskingHoldsNothing /\ [Next]_vars => AskingHoldsNothing'
  BY AskingStep, NextIsStep
<1> QED BY <1>1, <1>2, ShapesInvariant, PTL DEF Spec

\* The step of OnlyGrants.
Taken(f, n) ==
  \/ ~Exists(f, n) /\ doc'[f][n] # None
  \/ Free(f, n) /\ doc'[f][n] # None /\ ~doc'[f][n].free

TakesByGrant == \A f \in Family, n \in Name : Taken(f, n) => NewHolder(f, n)

LEMMA SetDoc ==
  ASSUME Shapes, NEW f \in Family, NEW n \in Name, NEW free \in BOOLEAN, Set(f, n, free)
  PROVE  /\ doc'[f][n] = [free |-> free, updated |-> now] /\ doc'[f][n] \in Doc
         /\ doc'[f][n].free = free /\ doc'[f][n].updated = now
         /\ \A g \in Family, m \in Name : <<g, m>> # <<f, n>> => doc'[g][m] = doc[g][m]
<1>1. TypeOK
  BY DEF Shapes
<1>2. [free |-> free, updated |-> now] \in Doc
  BY <1>1 DEF TypeOK, Doc
<1> QED BY <1>1, <1>2, SetIs

LEMMA GrantTakes ==
  ASSUME Shapes, NEW c \in Client, NEW f \in Family, NEW n \in Name, hold[c] = None,
         Set(f, n, FALSE), Granted(c, f, n)
  PROVE  TakesByGrant
<1>1. \A g \in Family, m \in Name : <<g, m>> # <<f, n>> => doc'[g][m] = doc[g][m]
  BY SetDoc, ZenonT(40)
<1>2. hold'[c].fam = f /\ hold'[c].name = n
  BY DEF Granted, Shapes, TypeOK
<1>3. hold'[c] # None
  <2>1. hold' \in [Client -> Hold \cup {None}]
    BY GrantedShape
  <2> DEFINE h == [fam |-> f, name |-> n, seen |-> now, calm |-> ~Listed(f, n)]
  <2>2. hold'[c] = h
    BY DEF Granted, Shapes, TypeOK
  <2>3. (~Listed(f, n)) \in BOOLEAN
    BY Zenon
  <2>4. h \in Hold
    BY <2>3 DEF Hold, Shapes, TypeOK
  <2> HIDE DEF h
  <2> QED BY <2>2, <2>4, DocNotNone
<1>4. NewHolder(f, n)
  BY <1>2, <1>3 DEF NewHolder
<1> QED BY <1>1, <1>4 DEF TakesByGrant, Taken, Exists, Free

\* A write of an existing document that leaves or puts it out of use takes nothing.
LEMMA NoGrantTakes ==
  ASSUME \A f \in Family, n \in Name :
           \/ doc'[f][n] = doc[f][n]
           \/ doc'[f][n] = None
           \/ InUse(f, n)
           \/ Exists(f, n) /\ doc'[f][n].free
  PROVE  TakesByGrant
BY DEF TakesByGrant, Taken, Exists, Free, InUse

LEMMA ReleaseTakes ==
  ASSUME Shapes, NEW f \in Family, NEW n \in Name, release(f, n)
  PROVE  TakesByGrant
<1>1. CASE Exists(f, n)
  <2>1. Set(f, n, TRUE)
    BY <1>1 DEF release
  <2>2. TRUE \in BOOLEAN
    OBVIOUS
  <2>3. doc'[f][n].free = TRUE
    BY <2>1, <2>2, SetDoc
  <2>4. \A g \in Family, m \in Name : <<g, m>> # <<f, n>> => doc'[g][m] = doc[g][m]
    BY <2>1, <2>2, SetDoc
  <2> QED BY <1>1, <2>3, <2>4, NoGrantTakes
<1>2. CASE ~Exists(f, n)
  BY <1>2, NoGrantTakes DEF release
<1> QED BY <1>1, <1>2

LEMMA OnlyGrantsStep == Shapes /\ AskingHoldsNothing /\ Step => TakesByGrant
<1> SUFFICES ASSUME Shapes, AskingHoldsNothing, Step PROVE TakesByGrant
  OBVIOUS
<1>1. ASSUME NEW c \in Client, NEW f \in Family, NEW n \in Name, TryAcquire(c, f, n)
      PROVE  TakesByGrant
  BY <1>1, GrantTakes DEF TryAcquire
<1>2. ASSUME NEW c \in Client, NEW f \in Family, NEW n \in Name, KeepAlive(c, f, n)
      PROVE  TakesByGrant
  <2>1. CASE KeepsAlive(f, n)
    <3>1. Set(f, n, FALSE) /\ FALSE \in BOOLEAN
      BY <1>2, <2>1 DEF KeepAlive
    <3>2. \A g \in Family, m \in Name : <<g, m>> # <<f, n>> => doc'[g][m] = doc[g][m]
      BY <3>1, SetDoc
    <3> QED BY <2>1, <3>2, NoGrantTakes DEF KeepsAlive
  <2>2. CASE ~KeepsAlive(f, n)
    BY <1>2, <2>2, NoGrantTakes DEF KeepAlive
  <2> QED BY <2>1, <2>2
<1>3. ASSUME NEW c \in Client, NEW f \in Family, NEW n \in Name, Release(c, f, n)
      PROVE  TakesByGrant
  BY <1>3, ReleaseTakes DEF Release
<1>4. ASSUME NEW c \in Client, ReleaseZombie(c) PROVE TakesByGrant
  <2>1. call[c] # None
    BY <1>4 DEF ReleaseZombie, At
  <2>2. PICK n \in call[c].todo : release(call[c].fam, n)
    BY <1>4 DEF ReleaseZombie
  <2>3. call[c].fam \in Family /\ n \in Name
    BY <2>1, CallAt
  <2> QED BY <2>2, <2>3, ReleaseTakes
<1>5. ASSUME NEW c \in Client, AcquireFree(c) \/ AcquireNew(c) PROVE TakesByGrant
  <2>1. call[c] # None /\ hold[c] = None
    BY <1>5 DEF AcquireFree, AcquireNew, At, AskingHoldsNothing
  <2>2. PICK n \in Name : Set(call[c].fam, n, FALSE) /\ Granted(c, call[c].fam, n)
    BY <1>5 DEF AcquireFree, AcquireNew
  <2> QED BY <2>1, <2>2, CallAt, GrantTakes
<1>6. ASSUME NEW c \in Client, DeleteName(c) PROVE TakesByGrant
  <2>1. call[c] # None
    BY <1>6 DEF DeleteName, At
  <2>2. PICK n \in call[c].todo : doc' = [doc EXCEPT ![call[c].at][n] = None]
    BY <1>6 DEF DeleteName
  <2>3. \A g \in Family, m \in Name : doc'[g][m] = doc[g][m] \/ doc'[g][m] = None
    BY <2>1, <2>2, CallAt DEF Shapes, TypeOK
  <2> QED BY <2>3, NoGrantTakes
<1>7. CASE UNCHANGED doc
  BY <1>7, NoGrantTakes
<1>8. ASSUME NEW c \in Client, Looks(c) PROVE UNCHANGED doc
  BY <1>8, LooksAre
<1>9. ASSUME NEW c \in Client,
             \/ \E f \in Family : StartAcquire(c, f)
             \/ StartReset(c) \/ DeleteFamily(c) \/ EndReset(c) \/ Fail(c) \/ Crash(c)
      PROVE  UNCHANGED doc
  BY <1>9 DEF StartAcquire, StartReset, DeleteFamily, EndReset, Fail, Crash
<1>10. CASE Tick \/ UNCHANGED vars
  BY <1>7, <1>10 DEF Tick, vars
<1> QED BY <1>1, <1>2, <1>3, <1>4, <1>5, <1>6, <1>7, <1>8, <1>9, <1>10 DEF Step

\* A name comes into use only with a client that is granted it: no late KeepAlive,
\* Release or walk revives a name that was released, swept or deleted meanwhile.
THEOREM OnlyGrantsCorrect == Spec => OnlyGrants
<1>1. Shapes /\ AskingHoldsNothing /\ [Next]_vars => [TakesByGrant]_vars
  BY OnlyGrantsStep, NextIsStep
<1> QED BY <1>1, ShapesInvariant, AskingInvariant, PTL
        DEF Spec, OnlyGrants, TakesByGrant, Taken

-----------------------------------------------------------------------------
(* New names are a last resort.                                              *)

Fresh(c, n) == call[c].asOf - doc[call[c].fam][n].updated <= AutoReleaseAfter

\* The names of c's family that its count covers showed a sign of life recent enough
\* for c's Acquire, or are still on its list.
Swept(c) ==
  \A n \in Name : Exists(call[c].fam, n) /\ n < counted(call[c].fam) =>
    Fresh(c, n) \/ (call[c].pc = "names" /\ n \in call[c].todo)

\* The walk of c will not look at its own family any more.
Passed(c) ==
  \/ call[c].pc \in {"walk", "names"} /\ call[c].fam \notin call[c].families
  \/ call[c].pc = "tx"

WalkSweeps ==
  AutoReleaseAfter > 0 =>
    \A c \in Client :
      call[c] # None /\ call[c].kind = "acquire" /\ Passed(c) => Swept(c)

\* Documents are stamped with the clock whenever they are written, and a count covers
\* a name it did not cover only together with the document of that name.
DocsAge ==
  \A g \in Family, m \in Name :
    /\ \/ doc'[g][m] = doc[g][m]
       \/ doc'[g][m] = None
       \/ doc'[g][m].updated = now
    /\ m < counted(g)' => m < counted(g) \/ doc'[g][m].updated = now

LEMMA CountedType ==
  ASSUME TypeOK, NEW g \in Family
  PROVE  counted(g) \in Nat
BY DEF TypeOK, counted

CoversAtMost(f, n) ==
  \A g \in Family, m \in Name : m < counted(g)' => m < counted(g) \/ <<g, m>> = <<f, n>>

LEMMA SetAges ==
  ASSUME Shapes, NEW f \in Family, NEW n \in Name, Set(f, n, TRUE) \/ Set(f, n, FALSE),
         CoversAtMost(f, n)
  PROVE  DocsAge
<1>1. TRUE \in BOOLEAN /\ FALSE \in BOOLEAN
  OBVIOUS
<1>2. doc'[f][n].updated = now
  BY <1>1, SetDoc
<1>3. \A g \in Family, m \in Name : <<g, m>> # <<f, n>> => doc'[g][m] = doc[g][m]
  BY <1>1, SetDoc
<1> QED BY <1>2, <1>3 DEF DocsAge, CoversAtMost

LEMMA SameCounts ==
  ASSUME count' = count
  PROVE  /\ \A g \in Family : counted(g)' = counted(g)
         /\ \A f \in Family, n \in Name : CoversAtMost(f, n)
BY DEF counted, CoversAtMost

LEMMA ReleaseAges ==
  ASSUME Shapes, NEW f \in Family, NEW n \in Name, release(f, n), count' = count
  PROVE  DocsAge
<1>1. CASE Exists(f, n)
  <2>1. Set(f, n, TRUE)
    BY <1>1 DEF release
  <2> QED BY <2>1, SameCounts, SetAges
<1>2. CASE ~Exists(f, n)
  BY <1>2, SameCounts DEF release, DocsAge
<1> QED BY <1>1, <1>2

LEMMA DocsAgeStep == Shapes /\ Step => DocsAge
<1> SUFFICES ASSUME Shapes, Step PROVE DocsAge
  OBVIOUS
<1>1. CASE UNCHANGED <<doc, count>>
  BY <1>1, SameCounts DEF DocsAge
<1>2. ASSUME NEW c \in Client, NEW f \in Family, NEW n \in Name,
             TryAcquire(c, f, n) \/ KeepAlive(c, f, n)
      PROVE  DocsAge
  <2>1. count' = count /\ (Set(f, n, FALSE) \/ UNCHANGED doc)
    BY <1>2 DEF TryAcquire, KeepAlive
  <2>2. CASE Set(f, n, FALSE)
    BY <2>1, <2>2, SameCounts, SetAges
  <2> QED BY <1>1, <2>1, <2>2
<1>3. ASSUME NEW c \in Client, NEW f \in Family, NEW n \in Name, Release(c, f, n)
      PROVE  DocsAge
  BY <1>3, ReleaseAges DEF Release
<1>4. ASSUME NEW c \in Client, ReleaseZombie(c) PROVE DocsAge
  <2>1. call[c] # None /\ count' = count
    BY <1>4 DEF ReleaseZombie, At
  <2>2. PICK n \in call[c].todo : release(call[c].fam, n)
    BY <1>4 DEF ReleaseZombie
  <2>3. call[c].fam \in Family /\ n \in Name
    BY <2>1, CallAt
  <2> QED BY <2>1, <2>2, <2>3, ReleaseAges
<1>5. ASSUME NEW c \in Client, AcquireFree(c) PROVE DocsAge
  <2>1. call[c] # None /\ count' = count
    BY <1>5 DEF AcquireFree, At
  <2>2. PICK n \in Name : Set(call[c].fam, n, FALSE)
    BY <1>5 DEF AcquireFree
  <2>3. call[c].fam \in Family
    BY <2>1, CallAt
  <2> QED BY <2>1, <2>2, <2>3, SameCounts, SetAges
<1>6. ASSUME NEW c \in Client, AcquireNew(c) PROVE DocsAge
  <2> DEFINE f == call[c].fam
             n == counted(f)
  <2>1. f \in Family
    BY <1>6, CallAt DEF AcquireNew, At
  <2>2. n \in Name /\ Set(f, n, FALSE) /\ count' = [count EXCEPT ![f] = n + 1]
    BY <1>6 DEF AcquireNew, Count
  <2> HIDE DEF n, f
  <2>3. n = counted(f) /\ n \in Nat
    BY <2>2 DEF n, Name
  <2>4. \A g \in Family : counted(g)' = IF g = f THEN n + 1 ELSE counted(g)
    <3>1. n + 1 # None
      BY <2>3
    <3> QED BY <2>1, <2>2, <3>1 DEF counted, Shapes, TypeOK
  <2>5. CoversAtMost(f, n)
    BY <2>3, <2>4 DEF CoversAtMost, Name
  <2> QED BY <2>1, <2>2, <2>5, SetAges
<1>7. ASSUME NEW c \in Client, DeleteName(c) PROVE DocsAge
  <2>1. call[c] # None /\ count' = count
    BY <1>7 DEF DeleteName, At
  <2>2. PICK n \in call[c].todo : doc' = [doc EXCEPT ![call[c].at][n] = None]
    BY <1>7 DEF DeleteName
  <2>3. \A g \in Family, m \in Name : doc'[g][m] = doc[g][m] \/ doc'[g][m] = None
    BY <2>1, <2>2, CallAt DEF Shapes, TypeOK
  <2> QED BY <2>1, <2>3, SameCounts DEF DocsAge
<1>8. ASSUME NEW c \in Client, DeleteFamily(c) PROVE DocsAge
  <2>1. call[c] # None /\ doc' = doc /\ count' = [count EXCEPT ![call[c].at] = None]
    BY <1>8 DEF DeleteFamily, At
  <2>2. \A g \in Family : counted(g)' = counted(g) \/ counted(g)' = 0
    BY <2>1, CallAt DEF counted, Shapes, TypeOK
  <2>3. \A m \in Name : ~(m < 0)
    BY DEF Name
  <2>4. ASSUME NEW g \in Family, NEW m \in Name
        PROVE  m < counted(g)' => m < counted(g)
    BY <2>2, <2>3
  <2> QED BY <2>1, <2>4 DEF DocsAge
<1>9. ASSUME NEW c \in Client, Looks(c) PROVE UNCHANGED <<doc, count>>
  BY <1>9, LooksAre
<1>10. ASSUME NEW c \in Client,
              \/ \E f \in Family : StartAcquire(c, f)
              \/ StartReset(c) \/ EndReset(c) \/ Fail(c) \/ Crash(c)
       PROVE  UNCHANGED <<doc, count>>
  BY <1>10 DEF StartAcquire, StartReset, EndReset, Fail, Crash
<1>11. CASE Tick \/ UNCHANGED vars
  BY <1>1, <1>11 DEF Tick, vars
<1> QED BY <1>1, <1>2, <1>3, <1>4, <1>5, <1>6, <1>7, <1>8, <1>9, <1>10, <1>11 DEF Step

\* What is swept stays swept: writes only make names fresher.
LEMMA SweptStays ==
  ASSUME Shapes, DocsAge, NEW c \in Client, call[c] # None, call'[c] # None,
         call'[c].fam = call[c].fam, call'[c].asOf = call[c].asOf, Swept(c),
         \A n \in Name :
           call[c].pc = "names" /\ n \in call[c].todo =>
             \/ call'[c].pc = "names" /\ n \in call'[c].todo
             \/ doc'[call[c].fam][n] = None
             \/ doc'[call[c].fam][n].updated = now
  PROVE  Swept(c)'
<1> DEFINE f == call[c].fam
<1> SUFFICES ASSUME NEW n \in Name, doc'[f][n] # None, n < counted(f)'
             PROVE  \/ call[c].asOf - doc'[f][n].updated <= AutoReleaseAfter
                    \/ call'[c].pc = "names" /\ n \in call'[c].todo
  BY DEF Swept, Fresh, Exists, counted
<1>1. f \in Family /\ call[c].asOf \in Nat /\ call[c].asOf <= now /\ now \in Nat
  BY CallAt DEF Call, Time, Shapes, TypeOK
<1>2. CASE doc'[f][n].updated = now
  BY <1>1, <1>2
<1>3. CASE doc'[f][n].updated # now
  <2>1. doc'[f][n] = doc[f][n] /\ n < counted(f)
    BY <1>1, <1>3 DEF DocsAge
  <2>2. Exists(f, n)
    BY <2>1 DEF Exists
  <2>3. Fresh(c, n) \/ (call[c].pc = "names" /\ n \in call[c].todo)
    BY <2>1, <2>2 DEF Swept
  <2> QED BY <1>3, <2>1, <2>3 DEF Fresh
<1> QED BY <1>2, <1>3

\* The walk of c goes on.
LEMMA LooksSweep ==
  ASSUME Shapes, WalkSweeps, AutoReleaseAfter > 0, NEW c \in Client, Looks(c),
         call[c].kind = "acquire", call'[c] # None, Passed(c)'
  PROVE  Swept(c)'
<1>1. /\ call[c] # None /\ call[c] \in Call
      /\ now' = now /\ count' = count /\ doc' = doc
  BY LooksAre, CallAt
<1>2. \A g \in Family : counted(g)' = counted(g)
  BY <1>1, SameCounts
<1> DEFINE f == call[c].fam
<1>3. f \in Family
  BY <1>1, CallAt
<1>4. call'[c].fam = f /\ call'[c].asOf = call[c].asOf
  <2>1. PICK k \in Call : /\ call' = [call EXCEPT ![c] = k]
                          /\ k.fam = f /\ k.asOf = call[c].asOf
    BY LooksAre
  <2> QED BY <2>1 DEF Shapes, TypeOK
\* What was swept before is so now.
<1>5. ASSUME Swept(c), call[c].pc = "walk" \/ call[c].todo = {}
      PROVE  Swept(c)'
  BY <1>1, <1>2, <1>3, <1>4, <1>5 DEF Swept, Fresh, Exists
<1>6. CASE ListFamilies(c)
  <2>1. /\ call'[c].pc = "walk"
        /\ call'[c].families = {g \in Family : count[g] # None}
    BY <1>1, <1>6 DEF ListFamilies, Shapes, TypeOK, Call
  <2>2. count[f] = None
    BY <1>3, <1>4, <1>6, <2>1 DEF Passed
  <2>3. count'[call'[c].fam] = None
    BY <1>1, <1>4, <2>2
  <2>4. \A n \in Name : ~(n < 0)
    BY DEF Name
  <2> QED BY <2>3, <2>4 DEF Swept, counted
<1>7. CASE ListNames(c)
  <2>1. PICK g \in call[c].families :
          call' = [call EXCEPT
            ![c].pc = "names", ![c].at = g, ![c].families = @ \ {g},
            ![c].todo = Zombies(c, g)]
    BY <1>7 DEF ListNames
  <2>2. /\ call'[c].pc = "names" /\ call'[c].families = call[c].families \ {g}
        /\ call'[c].todo = Zombies(c, g)
    BY <1>1, <2>1 DEF Shapes, TypeOK, Call
  <2>3. CASE g = f
    <3>1. \A n \in Name : Exists(f, n) => Fresh(c, n) \/ n \in Zombies(c, f)
      <4>1. call[c].asOf \in Nat
        BY <1>1 DEF Call, Time
      <4>2. \A n \in Name : Exists(f, n) => doc[f][n].updated \in Nat
        BY <1>3 DEF Exists, Shapes, TypeOK, Doc, Time
      <4> QED BY <4>1, <4>2 DEF Fresh, Zombies
    <3> QED BY <1>1, <1>4, <2>2, <2>3, <3>1 DEF Swept, Fresh, Exists
  <2>4. CASE g # f
    <3>1. f \notin call[c].families /\ call[c].pc = "walk"
      BY <1>4, <1>7, <2>2, <2>4 DEF Passed, ListNames
    <3>2. Swept(c)
      BY <1>1, <3>1 DEF WalkSweeps, Passed
    <3> QED BY <1>5, <3>1, <3>2
  <2> QED BY <2>3, <2>4
<1>8. CASE NextFamily(c) \/ EndWalk(c)
  <2>1. PICK pc \in {"walk", "tx"} : call' = [call EXCEPT ![c].pc = pc]
    BY <1>8 DEF NextFamily, EndWalk, Goes
  <2>2. call'[c].pc = pc /\ call'[c].families = call[c].families
    BY <1>1, <2>1 DEF Shapes, TypeOK, Call
  <2>3. ASSUME Passed(c), call[c].pc = "walk" \/ call[c].todo = {}
        PROVE  Swept(c)'
    BY <1>1, <1>5, <2>3 DEF WalkSweeps
  <2>4. CASE NextFamily(c)
    <3>1. call[c].pc = "names" /\ call[c].todo = {} /\ Goes(c, "walk")
      BY <2>4 DEF NextFamily, At
    <3>2. call'[c].pc = "walk"
      BY <1>1, <3>1 DEF Goes, Shapes, TypeOK
    <3>3. Passed(c)
      BY <1>4, <2>2, <3>1, <3>2 DEF Passed
    <3> QED BY <2>3, <3>1, <3>3
  <2>5. CASE EndWalk(c)
    <3>1. call[c].pc = "walk" /\ call[c].families = {}
      BY <2>5 DEF EndWalk, At
    <3> QED BY <2>3, <3>1 DEF Passed
  <2> QED BY <1>8, <2>4, <2>5
<1> QED BY <1>6, <1>7, <1>8 DEF Looks

LEMMA ReleaseZombieSweeps ==
  ASSUME Shapes, WalkSweeps, AutoReleaseAfter > 0, DocsAge,
         NEW c \in Client, ReleaseZombie(c), Passed(c)'
  PROVE  Swept(c)'
<1>1. call[c] # None /\ call[c].kind = "acquire" /\ call[c].pc = "names"
  BY DEF ReleaseZombie, At
<1>2. PICK n \in call[c].todo :
        release(call[c].fam, n) /\ call' = [call EXCEPT ![c].todo = @ \ {n}]
  BY DEF ReleaseZombie
<1>3. call[c] \in Call /\ call[c].fam \in Family /\ n \in Name
  BY <1>1, CallAt
<1>4. /\ call'[c].pc = "names" /\ call'[c].families = call[c].families
      /\ call'[c].fam = call[c].fam /\ call'[c].asOf = call[c].asOf
      /\ call'[c].todo = call[c].todo \ {n} /\ call'[c] # None
  <2> DEFINE k == [call[c] EXCEPT !.todo = @ \ {n}]
  <2>1. call'[c] = k
    BY <1>2 DEF Shapes, TypeOK
  <2>2. /\ k \in Call /\ k.pc = call[c].pc /\ k.families = call[c].families
        /\ k.fam = call[c].fam /\ k.asOf = call[c].asOf /\ k.todo = call[c].todo \ {n}
    BY <1>3 DEF Call
  <2> HIDE DEF k
  <2> QED BY <1>1, <2>1, <2>2, DocNotNone
<1>5. Swept(c)
  BY <1>1, <1>4 DEF WalkSweeps, Passed
<1>6. doc'[call[c].fam][n] = None \/ doc'[call[c].fam][n].updated = now
  <2>1. CASE Exists(call[c].fam, n)
    <3>1. Set(call[c].fam, n, TRUE) /\ TRUE \in BOOLEAN
      BY <1>2, <2>1 DEF release
    <3> QED BY <1>3, <3>1, SetDoc
  <2>2. CASE ~Exists(call[c].fam, n)
    BY <1>2, <2>2 DEF release, Exists
  <2> QED BY <2>1, <2>2
<1> QED BY <1>1, <1>4, <1>5, <1>6, SweptStays

LEMMA SweepsStep ==
  ASSUME Shapes, WalkSweeps, Step
  PROVE  WalkSweeps'
<1> SUFFICES ASSUME AutoReleaseAfter > 0, NEW d \in Client, call'[d] # None,
                    call'[d].kind = "acquire", Passed(d)'
             PROVE  Swept(d)'
  BY DEF WalkSweeps
<1>0. DocsAge
  BY DocsAgeStep
<1>1. ASSUME call'[d] = call[d]
      PROVE  Swept(d)'
  <2>1. Swept(d)
    BY <1>1 DEF WalkSweeps, Passed
  <2> QED BY <1>0, <1>1, <2>1, SweptStays
<1>2. ASSUME NEW c \in Client, NEW f \in Family, NEW n \in Name,
             TryAcquire(c, f, n) \/ KeepAlive(c, f, n) \/ Release(c, f, n)
      PROVE  Swept(d)'
  BY <1>1, <1>2 DEF TryAcquire, KeepAlive, Release
<1>3. ASSUME NEW c \in Client, NEW f \in Family, StartAcquire(c, f)
      PROVE  Swept(d)'
  <2>1. call' = [call EXCEPT ![c] = StartedCall("acquire", f, "list")]
    BY <1>3 DEF StartAcquire
  <2>2. d # c
    BY <2>1 DEF StartedCall, Passed, Shapes, TypeOK
  <2> QED BY <1>1, <2>1, <2>2 DEF Shapes, TypeOK
<1>4. ASSUME NEW c \in Client, Looks(c)
      PROVE  Swept(d)'
  <2>1. PICK k \in Call : call' = [call EXCEPT ![c] = k] /\ k.kind = call[c].kind
    BY <1>4, LooksAre
  <2>2. call'[c] = k /\ (d # c => call'[d] = call[d])
    BY <2>1 DEF Shapes, TypeOK
  <2>3. CASE d = c
    <3>1. call[c].kind = "acquire"
      BY <2>1, <2>2, <2>3
    <3> QED BY <1>4, <2>3, <3>1, LooksSweep
  <2> QED BY <1>1, <2>2, <2>3
<1>5. ASSUME NEW c \in Client, ReleaseZombie(c)
      PROVE  Swept(d)'
  <2>1. d # c => call'[d] = call[d]
    BY <1>5 DEF ReleaseZombie, Shapes, TypeOK
  <2>2. CASE d = c
    BY <1>0, <1>5, <2>2, ReleaseZombieSweeps
  <2> QED BY <1>1, <2>1, <2>2
<1>6. ASSUME NEW c \in Client,
             \/ AcquireFree(c) \/ AcquireNew(c) \/ EndReset(c) \/ Fail(c) \/ Crash(c)
      PROVE  Swept(d)'
  <2>1. call' = [call EXCEPT ![c] = None]
    BY <1>6 DEF AcquireFree, AcquireNew, EndReset, Fail, Crash
  <2>2. call'[d] = call[d]
    BY <2>1 DEF Shapes, TypeOK
  <2> QED BY <1>1, <2>2
<1>7. ASSUME NEW c \in Client, StartReset(c) \/ DeleteName(c) \/ DeleteFamily(c)
      PROVE  Swept(d)'
  <2>1. d # c => call'[d] = call[d]
    BY <1>7 DEF StartReset, DeleteName, DeleteFamily, Goes, Shapes, TypeOK
  <2>2. call'[c].kind = "reset"
    <3>1. CASE StartReset(c)
      BY <3>1 DEF StartReset, StartedCall, Shapes, TypeOK
    <3>2. CASE DeleteName(c) \/ DeleteFamily(c)
      <4>1. call[c] # None /\ call[c].kind = "reset"
        BY <3>2 DEF DeleteName, DeleteFamily, At
      <4>2. call[c] \in Call
        BY <4>1, CallAt
      <4> QED BY <3>2, <4>1, <4>2 DEF DeleteName, DeleteFamily, Goes, Shapes, TypeOK, Call
    <3> QED BY <1>7, <3>1, <3>2
  <2> QED BY <1>1, <2>1, <2>2
<1>8. CASE Tick \/ UNCHANGED vars
  BY <1>1, <1>8 DEF Tick, vars
<1> QED BY <1>2, <1>3, <1>4, <1>5, <1>6, <1>7, <1>8 DEF Step

LEMMA SweepsInvariant == Spec => []WalkSweeps
<1>1. Init => WalkSweeps
  BY DEF Init, WalkSweeps
<1>2. Shapes /\ WalkSweeps /\ [Next]_vars => WalkSweeps'
  BY SweepsStep, NextIsStep
<1> QED BY <1>1, <1>2, ShapesInvariant, PTL DEF Spec

\* The step of ReuseFirst.
LastResort ==
  \A c \in Client :
    LET f == call[c].fam
    IN  AcquireNew(c) =>
          \A n \in Name : Exists(f, n) /\ n < counted(f) =>
            /\ InUse(f, n)
            /\ AutoReleaseAfter > 0 =>
                 call[c].asOf - doc[f][n].updated <= AutoReleaseAfter

LEMMA LastResortStep == WalkSweeps => LastResort
<1> SUFFICES ASSUME WalkSweeps, NEW c \in Client, AcquireNew(c), NEW n \in Name,
                    Exists(call[c].fam, n), n < counted(call[c].fam)
             PROVE  /\ InUse(call[c].fam, n)
                    /\ AutoReleaseAfter > 0 => Fresh(c, n)
  BY DEF LastResort, Fresh
<1>1. /\ call[c] # None /\ call[c].kind = "acquire" /\ call[c].pc = "tx"
      /\ NoFreeName(call[c].fam)
  BY DEF AcquireNew, At
<1>2. InUse(call[c].fam, n)
  BY <1>1 DEF NoFreeName, Free, InUse
<1>3. AutoReleaseAfter > 0 => Fresh(c, n)
  BY <1>1 DEF WalkSweeps, Passed, Swept
<1> QED BY <1>2, <1>3

\* "Reused as much as possible", with any interleaving of walks, acquisitions, failures
\* and resets: when a family gets a new name, all others it counts are in use and were
\* not too old for the Acquire that makes it.
THEOREM ReuseFirstCorrect == Spec => ReuseFirst
<1>1. WalkSweeps => [LastResort]_vars
  BY LastResortStep
<1> QED BY <1>1, SweepsInvariant, PTL DEF Spec, ReuseFirst, LastResort

-----------------------------------------------------------------------------
(* Without auto-release and resets the backend implements NameManager.       *)

LEMMA TableFacts ==
  /\ registeredNames \subseteq Family \X Name
  /\ namesInUse \subseteq Family \X Name
  /\ registeredNames' \subseteq Family \X Name
  /\ namesInUse' \subseteq Family \X Name
  /\ \A g \in Family, m \in Name :
       /\ <<g, m>> \in registeredNames <=> doc[g][m] # None
       /\ <<g, m>> \in namesInUse <=> (doc[g][m] # None /\ ~doc[g][m].free)
       /\ <<g, m>> \in registeredNames' <=> doc'[g][m] # None
       /\ <<g, m>> \in namesInUse' <=> (doc'[g][m] # None /\ ~doc'[g][m].free)
BY DEF registeredNames, namesInUse, Exists, InUse

LEMMA TableFrame ==
  ASSUME doc' = doc
  PROVE  registeredNames' = registeredNames /\ namesInUse' = namesInUse
BY DEF registeredNames, namesInUse, Exists, InUse

LEMMA HoldsFrame ==
  ASSUME \A c \in Client :
           \/ hold'[c] = hold[c]
           \/ /\ hold[c] # None /\ hold'[c] # None
              /\ hold'[c].fam = hold[c].fam /\ hold'[c].name = hold[c].name
  PROVE  currentHolds' = currentHolds
BY DEF currentHolds

\* A grant in the mapped table.
LEMMA GrantImplements ==
  ASSUME Shapes, NEW c \in Client, NEW f \in Family, NEW n \in Name, hold[c] = None,
         Set(f, n, FALSE), Granted(c, f, n), ~InUse(f, n)
  PROVE  Promise!Grant(c, <<f, n>>, {})
<1>1. doc'[f][n] # None /\ doc'[f][n].free = FALSE
  <2>1. FALSE \in BOOLEAN
    OBVIOUS
  <2> QED BY <2>1, SetDoc, DocNotNone, ZenonT(40)
<1>2. \A g \in Family, m \in Name : <<g, m>> # <<f, n>> => doc'[g][m] = doc[g][m]
  <2>1. FALSE \in BOOLEAN
    OBVIOUS
  <2> QED BY <2>1, SetDoc, ZenonT(40)
<1>3. \A p \in Family \X Name :
        /\ p \in registeredNames' <=> p \in registeredNames \cup {<<f, n>>}
        /\ p \in namesInUse' <=> p \in namesInUse \cup {<<f, n>>}
  BY <1>1, <1>2, TableFacts
<1>4. /\ registeredNames' = registeredNames \cup {<<f, n>>}
      /\ namesInUse' = (namesInUse \ {}) \cup {<<f, n>>}
  BY <1>3, TableFacts
<1>5. <<f, n>> \notin namesInUse \ {}
  BY TableFacts DEF InUse, Exists
<1> DEFINE h == [fam |-> f, name |-> n, seen |-> now, calm |-> ~Listed(f, n)]
<1>6. hold' = [hold EXCEPT ![c] = h] /\ h.fam = f /\ h.name = n
  BY DEF Granted
<1>7. h # None
  <2>1. (~Listed(f, n)) \in BOOLEAN
    BY Zenon
  <2>2. h \in Hold
    BY <2>1 DEF Hold, Shapes, TypeOK
  <2> HIDE DEF h
  <2> QED BY <2>2, DocNotNone
<1> HIDE DEF h
<1>8. hold'[c] = h /\ \A d \in Client : d # c => hold'[d] = hold[d]
  BY <1>6 DEF Shapes, TypeOK
<1>9. h.fam = f /\ h.name = n
  BY <1>6
<1>10. currentHolds[c] = None
  BY DEF currentHolds
<1>11. currentHolds' = [currentHolds EXCEPT ![c] = <<f, n>>]
  BY <1>7, <1>8, <1>9 DEF currentHolds
<1> QED BY <1>4, <1>5, <1>10, <1>11 DEF Promise!Grant

LEMMA KeepAliveImplements ==
  ASSUME Shapes, NEW c \in Client, NEW f \in Family, NEW n \in Name, KeepAlive(c, f, n)
  PROVE  UNCHANGED Promise!vars
<1>1. currentHolds' = currentHolds
  <2>1. InTime(c) => hold[c] # None /\ hold[c] \in Hold
    BY HoldAt DEF InTime
  <2>2. InTime(c) => [hold[c] EXCEPT !.seen = now] \in Hold
    BY <2>1 DEF Hold, Shapes, TypeOK
  <2>3. \A d \in Client :
          \/ hold'[d] = hold[d]
          \/ /\ hold[d] # None /\ hold'[d] # None
             /\ hold'[d].fam = hold[d].fam /\ hold'[d].name = hold[d].name
    BY <2>1, <2>2, DocNotNone DEF KeepAlive, Shapes, TypeOK, Hold
  <2> QED BY <2>3, HoldsFrame
<1>2. registeredNames' = registeredNames /\ namesInUse' = namesInUse
  <2>1. CASE KeepsAlive(f, n)
    <3>1. Set(f, n, FALSE) /\ FALSE \in BOOLEAN
      BY <2>1 DEF KeepAlive
    <3>2. doc'[f][n] # None /\ doc'[f][n].free = FALSE
      BY <3>1, SetDoc, DocNotNone
    <3>3. \A g \in Family, m \in Name : <<g, m>> # <<f, n>> => doc'[g][m] = doc[g][m]
      BY <3>1, SetDoc
    <3>4. <<f, n>> \in registeredNames /\ <<f, n>> \in namesInUse
      BY <2>1, TableFacts DEF KeepsAlive, InUse, Exists
    <3>5. \A p \in Family \X Name :
            /\ p \in registeredNames' <=> p \in registeredNames
            /\ p \in namesInUse' <=> p \in namesInUse
      BY <3>2, <3>3, <3>4, TableFacts
    <3> QED BY <3>5, TableFacts
  <2>2. CASE ~KeepsAlive(f, n)
    BY <2>2, TableFrame DEF KeepAlive
  <2> QED BY <2>1, <2>2
<1> QED BY <1>1, <1>2 DEF Promise!vars

LEMMA ReleaseImplements ==
  ASSUME Shapes, NEW c \in Client, NEW f \in Family, NEW n \in Name, Release(c, f, n)
  PROVE  Promise!Release(c, f, n)
<1>1. registeredNames' = registeredNames /\ namesInUse' = namesInUse \ {<<f, n>>}
  <2>1. CASE Exists(f, n)
    <3>1. Set(f, n, TRUE) /\ TRUE \in BOOLEAN
      BY <2>1 DEF Release, release
    <3>2. doc'[f][n] # None /\ doc'[f][n].free = TRUE
      BY <3>1, SetDoc, DocNotNone
    <3>3. \A g \in Family, m \in Name : <<g, m>> # <<f, n>> => doc'[g][m] = doc[g][m]
      BY <3>1, SetDoc
    <3>4. <<f, n>> \in registeredNames
      BY <2>1, TableFacts DEF Exists
    <3>5. \A p \in Family \X Name :
            /\ p \in registeredNames' <=> p \in registeredNames
            /\ p \in namesInUse' <=> p \in namesInUse \ {<<f, n>>}
      BY <3>2, <3>3, <3>4, TableFacts
    <3> QED BY <3>5, TableFacts
  <2>2. CASE ~Exists(f, n)
    <3>1. doc' = doc
      BY <2>2 DEF Release, release
    <3>2. <<f, n>> \notin namesInUse
      BY <2>2, TableFacts DEF Exists
    <3> QED BY <3>1, <3>2, TableFrame
  <2> QED BY <2>1, <2>2
<1>2. currentHolds' = IF currentHolds[c] = <<f, n>>
                      THEN [currentHolds EXCEPT ![c] = None]
                      ELSE currentHolds
  <2>1. hold'[c] = None /\ \A d \in Client : d # c => hold'[d] = hold[d]
    BY DEF Release, Shapes, TypeOK
  <2>2. currentHolds' = [currentHolds EXCEPT ![c] = None]
    BY <2>1 DEF currentHolds
  <2>3. hold[c] = None \/ Holds(c, f, n)
    BY DEF Release, MayName
  <2>4. currentHolds[c] # <<f, n>> => currentHolds[c] = None
    BY <2>3 DEF Holds, currentHolds
  <2>5. currentHolds = [d \in Client |-> currentHolds[d]]
    BY DEF currentHolds
  <2> QED BY <2>2, <2>4, <2>5
<1> QED BY <1>1, <1>2 DEF Promise!Release

LEMMA AcquireImplements ==
  ASSUME ~Resets, Shapes, CountIsNext, AskingHoldsNothing,
         NEW c \in Client, AcquireFree(c) \/ AcquireNew(c)
  PROVE  \E f \in Family : Promise!Acquire(c, f)
<1> DEFINE f == call[c].fam
<1>1. call[c] # None /\ call[c].kind = "acquire"
  BY DEF AcquireFree, AcquireNew, At
<1>2. f \in Family /\ hold[c] = None
  BY <1>1, CallAt DEF AskingHoldsNothing
<1>3. CASE AcquireFree(c)
  <2>1. PICK n \in Name : Free(f, n) /\ Set(f, n, FALSE) /\ Granted(c, f, n)
    BY <1>3 DEF AcquireFree
  <2>2. Promise!Grant(c, <<f, n>>, {})
    BY <1>2, <2>1, GrantImplements DEF Free, InUse
  <2>3. <<f, n>> \in registeredNames
    BY <1>2, <2>1, TableFacts DEF Free, Exists
  <2> QED BY <1>2, <2>1, <2>2, <2>3 DEF Promise!Acquire
<1>4. CASE AcquireNew(c)
  <2>1. PICK n \in Name : n = counted(f) /\ Set(f, n, FALSE) /\ Granted(c, f, n)
    BY <1>4 DEF AcquireNew
  <2>2. ~Exists(f, n)
    <3>1. ~(n < counted(f))
      BY <2>1 DEF Name
    <3> QED BY <1>2, <2>1, <3>1 DEF CountIsNext
  <2>3. Promise!Grant(c, <<f, n>>, {})
    BY <1>2, <2>1, <2>2, GrantImplements DEF InUse
  <2>4. registeredNames \cap ({f} \X Name) \subseteq namesInUse \ {}
    <3>1. \A m \in Name : Exists(f, m) => InUse(f, m)
      BY <1>4 DEF AcquireNew, NoFreeName, Free, InUse
    <3> QED BY <1>2, <3>1, TableFacts DEF Exists, InUse
  <2> QED BY <1>2, <2>1, <2>3, <2>4 DEF Promise!Acquire
<1> QED BY <1>3, <1>4

LEMMA InitImplements == Init => Promise!Init
<1> SUFFICES ASSUME Init PROVE Promise!Init
  OBVIOUS
<1>1. registeredNames = {} /\ namesInUse = {}
  BY DEF Init, registeredNames, namesInUse, Exists, InUse
<1>2. currentHolds = [c \in Client |-> None]
  BY DEF Init, currentHolds
<1> QED BY <1>1, <1>2 DEF Promise!Init

LEMMA StepImplements ==
  ASSUME AutoReleaseAfter = 0, ~Resets, Shapes, CountIsNext, AskingHoldsNothing, Step
  PROVE  [Promise!Next]_(Promise!vars)
<1>1. ASSUME UNCHANGED <<doc, hold>> PROVE UNCHANGED Promise!vars
  BY <1>1, TableFrame, HoldsFrame DEF Promise!vars
<1>2. ASSUME NEW c \in Client, NEW f \in Family, NEW n \in Name, TryAcquire(c, f, n)
      PROVE  Promise!TryAcquire(c, f, n)
  <2>1. Promise!Grant(c, <<f, n>>, {})
    BY <1>2, GrantImplements DEF TryAcquire, Refused
  <2>2. <<f, n>> \in registeredNames
    BY <1>2, TableFacts DEF TryAcquire, Refused, Exists
  <2> QED BY <2>1, <2>2 DEF Promise!TryAcquire
<1>3. ASSUME NEW c \in Client, NEW f \in Family, NEW n \in Name, KeepAlive(c, f, n)
      PROVE  UNCHANGED Promise!vars
  BY <1>3, KeepAliveImplements
<1>4. ASSUME NEW c \in Client, NEW f \in Family, NEW n \in Name, Release(c, f, n)
      PROVE  Promise!Release(c, f, n)
  BY <1>4, ReleaseImplements
<1>5. ASSUME NEW c \in Client, ReleaseZombie(c)
      PROVE  FALSE
  <2>1. call[c] # None /\ call[c].kind = "acquire" /\ call[c].pc = "names"
    BY <1>5 DEF ReleaseZombie, At
  <2> QED BY <2>1, CallAt
<1>6. ASSUME NEW c \in Client,
             StartReset(c) \/ DeleteName(c) \/ DeleteFamily(c) \/ EndReset(c)
      PROVE  FALSE
  <2>1. call[c] # None /\ call[c].kind = "reset"
    BY <1>6 DEF StartReset, DeleteName, DeleteFamily, EndReset, At
  <2> QED BY <2>1, CallAt
<1>7. ASSUME NEW c \in Client, Crash(c)
      PROVE  Promise!Crash(c)
  <2>1. registeredNames' = registeredNames /\ namesInUse' = namesInUse
    BY <1>7, TableFrame DEF Crash
  <2>2. currentHolds' = [currentHolds EXCEPT ![c] = None]
    BY <1>7 DEF Crash, currentHolds, Shapes, TypeOK
  <2> QED BY <2>1, <2>2 DEF Promise!Crash
<1>8. ASSUME NEW c \in Client, (\E f \in Family : StartAcquire(c, f)) \/ Looks(c) \/ Fail(c)
      PROVE  UNCHANGED <<doc, hold>>
  BY <1>8, LooksAre DEF StartAcquire, Fail
<1>9. CASE Tick \/ UNCHANGED vars
  BY <1>1, <1>9 DEF Tick, vars
<1> QED BY <1>1, <1>2, <1>3, <1>4, <1>5, <1>6, <1>7, <1>8, <1>9, AcquireImplements
        DEF Step, Promise!Next

\* Without auto-release and resets every behaviour is one of the abstract table of
\* names: the walks and queries of an Acquire, for all that they are not one step, let a
\* name be granted only while it is free and lose it only by a Release.
THEOREM FirestoreKeepsPromise ==
  ASSUME AutoReleaseAfter = 0, ~Resets
  PROVE  Spec => ImplementsPromise
<1>1. /\ Shapes /\ CountIsNext /\ AskingHoldsNothing /\ [Next]_vars
      => [Promise!Next]_(Promise!vars)
  BY StepImplements, NextIsStep
<1>2. Spec => []CountIsNext
  BY CountIsNextCorrect
<1> QED BY <1>1, <1>2, InitImplements, ShapesInvariant, AskingInvariant, PTL
        DEF Spec, ImplementsPromise, Promise!Spec
=============================================================================
