---------------------------- MODULE RestProofs ----------------------------
(***************************************************************************)
(* REST clients and their server, for any clients, names, connections and  *)
(* number of faults: who holds a name holds it alone, and a fault loses    *)
(* one name at most.                                                       *)
(***************************************************************************)
EXTENDS RestRelay, FiniteSetTheorems, TLAPS

USE AutoReleasesAssumption, MaxFaultsAssumption

-----------------------------------------------------------------------------
(* Types, and how the calls of the clients relate to the connections. *)

\* A connection has one client, and a client whose call acquires or releases a
\* name holds none.
Shapes ==
  /\ TypeOK
  /\ \A c, d \in Client : c # d /\ call[c] # None => call[d] # call[c]
  /\ \A c \in Client :
       call[c] # None /\ request[call[c]].op \in {"$acquire", "$try_acquire", "$release"}
       => holds[c] = None

LEMMA NotNone ==
  /\ \A n \in Name : n # None
  /\ \A k \in Conn : k # None
  /\ \A r \in Request : r # None
  /\ "" # None /\ "OK" # None /\ "ERR_IN_USE" # None /\ "ERR_NOT_EXIST" # None /\ "500" # None
  /\ \A n \in Name : n \notin {"", "OK", "ERR_IN_USE", "ERR_NOT_EXIST", "500"}
BY Zenon, AnswersAssumption

LEMMA RequestAt ==
  ASSUME TypeOK, NEW k \in Conn, request[k] # None
  PROVE  /\ request[k] \in Request /\ request[k].op \in Op
         /\ request[k].name \in Name \cup {None}
BY DEF TypeOK, Request

LEMMA CallAt ==
  ASSUME TypeOK, NEW c \in Client, call[c] # None
  PROVE  call[c] \in Conn /\ request[call[c]] # None /\ request[call[c]] \in Request
BY DEF TypeOK

\* The steps of the client, one by one for each variable.
LEMMA GetIs ==
  ASSUME Shapes, NEW c \in Client, NEW op \in Op, NEW n \in Name \cup {None}, Get(c, op, n)
  PROVE  /\ UNCHANGED <<table, history>> /\ call[c] = None /\ MayCall(c, op, n)
         /\ holds' = IF op = "$release" THEN [holds EXCEPT ![c] = None] ELSE holds
         /\ \E k \in Conn : \E r \in Request :
              /\ request[k] = None /\ r.op = op /\ r.name = n /\ r.body = None
              /\ request' = [request EXCEPT ![k] = r]
              /\ call' = [call EXCEPT ![c] = k]
<1>1. PICK k \in Conn :
        /\ request[k] = None
        /\ request' = [request EXCEPT ![k] = [op |-> op, name |-> n, body |-> None]]
        /\ call' = [call EXCEPT ![c] = k]
  BY DEF Get
<1> DEFINE r == [op |-> op, name |-> n, body |-> None]
<1>2. r \in Request /\ r.op = op /\ r.name = n /\ r.body = None
  BY DEF Request
<1>3. request' = [request EXCEPT ![k] = r]
  BY <1>1
<1> HIDE DEF r
<1> QED BY <1>1, <1>2, <1>3 DEF Get

LEMMA ResendIs ==
  ASSUME Shapes, NEW c \in Client, Resend(c)
  PROVE  /\ UNCHANGED <<table, holds, overtaken>> /\ call[c] # None /\ Fault
         /\ resent' = (resent \/ request[call[c]].op = "$release")
         /\ \E k \in Conn : \E r \in Request :
              /\ request[k] = None /\ r.op = request[call[c]].op
              /\ r.name = request[call[c]].name /\ r.body = None
              /\ request' = [request EXCEPT ![k] = r]
              /\ call' = [call EXCEPT ![c] = k]
<1>1. PICK k \in Conn :
        /\ request[k] = None
        /\ request' = [request EXCEPT ![k] = [request[call[c]] EXCEPT !.body = None]]
        /\ call' = [call EXCEPT ![c] = k]
  BY DEF Resend
<1>2. request[call[c]] \in Request
  BY CallAt DEF Resend, Shapes
<1> DEFINE r == [request[call[c]] EXCEPT !.body = None]
<1>3. /\ r \in Request /\ r.op = request[call[c]].op /\ r.name = request[call[c]].name
      /\ r.body = None
  BY <1>2 DEF Request
<1>4. request' = [request EXCEPT ![k] = r]
  BY <1>1
<1> HIDE DEF r
<1> QED BY <1>1, <1>3, <1>4 DEF Resend

\* A handler answers.
LEMMA RespondIs ==
  ASSUME Shapes, NEW k \in Conn, request[k] # None,
         NEW body \in Name \cup {None, "", "OK", "ERR_IN_USE", "ERR_NOT_EXIST", "500"},
         Respond(k, body)
  PROVE  \E r \in Request :
           /\ r.op = request[k].op /\ r.name = request[k].name /\ r.body = body
           /\ request' = [request EXCEPT ![k] = r]
<1> DEFINE r == [request[k] EXCEPT !.body = body]
<1>1. request[k] \in Request
  BY RequestAt DEF Shapes
<1>2. r \in Request /\ r.op = request[k].op /\ r.name = request[k].name /\ r.body = body
  BY <1>1 DEF Request
<1>3. request' = [request EXCEPT ![k] = r]
  BY DEF Respond, Shapes, TypeOK
<1> HIDE DEF r
<1> QED BY <1>2, <1>3

\* The request of c is sent on k.
Sends(c, k, r) ==
  /\ request[k] = None /\ r \in Request /\ r.body = None
  /\ request' = [request EXCEPT ![k] = r]
  /\ call' = [call EXCEPT ![c] = k]

LEMMA SendsIs ==
  ASSUME Shapes, NEW c \in Client, NEW k \in Conn, NEW r, Sends(c, k, r)
  PROVE  /\ request' \in [Conn -> Request \cup {None}] /\ call' \in [Client -> Conn \cup {None}]
         /\ k # None /\ r # None
         /\ \A j \in Conn : request'[j] = IF j = k THEN r ELSE request[j]
         /\ \A d \in Client : call'[d] = IF d = c THEN k ELSE call[d]
         /\ \A d \in Client : call[d] # None => call[d] \in Conn /\ call[d] # k
         /\ \A d \in Client : call'[d] # None => request'[call'[d]] # None
         /\ \A d, e \in Client : d # e /\ call'[d] # None => call'[e] # call'[d]
<1>1. k # None /\ r # None
  BY NotNone DEF Sends
<1>2. request' \in [Conn -> Request \cup {None}] /\ call' \in [Client -> Conn \cup {None}]
  BY DEF Sends, Shapes, TypeOK
<1>3. \A j \in Conn : request'[j] = IF j = k THEN r ELSE request[j]
  BY DEF Sends, Shapes, TypeOK
<1>4. \A d \in Client : call'[d] = IF d = c THEN k ELSE call[d]
  BY DEF Sends, Shapes, TypeOK
<1>5. \A d \in Client : call[d] # None => call[d] \in Conn /\ call[d] # k /\ request[call[d]] # None
  BY DEF Sends, Shapes, TypeOK
<1>6. \A d \in Client : call'[d] # None => request'[call'[d]] # None
  BY <1>1, <1>3, <1>4, <1>5
<1>7. \A d, e \in Client : d # e /\ call'[d] # None => call'[e] # call'[d]
  BY <1>1, <1>4, <1>5 DEF Shapes
<1> QED BY <1>1, <1>2, <1>3, <1>4, <1>5, <1>6, <1>7

\* The steps of the server that answer on k, with r for the request and its answer.
Answers(k, r) ==
  /\ request[k] # None /\ r \in Request
  /\ r.op = request[k].op /\ r.name = request[k].name
  /\ request' = [request EXCEPT ![k] = r]

LEMMA AnswersIs ==
  ASSUME Shapes, NEW k \in Conn, NEW r, Answers(k, r), UNCHANGED <<call, holds>>
  PROVE  /\ request' \in [Conn -> Request \cup {None}] /\ r # None
         /\ \A j \in Conn : request'[j] = IF j = k THEN r ELSE request[j]
         /\ \A d \in Client : call[d] # None => call[d] \in Conn /\ request'[call[d]] # None
         /\ \A d \in Client : call[d] # None => request'[call[d]].op = request[call[d]].op
<1>1. r # None
  BY NotNone DEF Answers
<1>2. request' \in [Conn -> Request \cup {None}]
  BY DEF Answers, Shapes, TypeOK
<1>3. \A j \in Conn : request'[j] = IF j = k THEN r ELSE request[j]
  BY DEF Answers, Shapes, TypeOK
<1>4. \A d \in Client : call[d] # None => call[d] \in Conn /\ request[call[d]] # None
  BY DEF Shapes, TypeOK
<1>5. \A d \in Client : call[d] # None => request'[call[d]] # None
  BY <1>1, <1>3, <1>4
<1>6. \A d \in Client : call[d] # None => request'[call[d]].op = request[call[d]].op
  BY <1>3, <1>4 DEF Answers
<1> QED BY <1>1, <1>2, <1>3, <1>4, <1>5, <1>6

LEMMA AnswersShapes ==
  ASSUME Shapes, NEW k \in Conn, NEW r, Answers(k, r), UNCHANGED <<call, holds>>,
         registered' \subseteq Name, inUse' \subseteq registered', stale' \subseteq inUse',
         faults' \in 0 .. MaxFaults, resent' \in BOOLEAN, overtaken' \in BOOLEAN
  PROVE  Shapes'
<1> USE AnswersIs
<1>1. TypeOK'
  BY DEF Shapes, TypeOK
<1>2. (\A c, d \in Client : c # d /\ call[c] # None => call[d] # call[c])'
  BY DEF Shapes
<1>3. (\A c \in Client :
        call[c] # None /\ request[call[c]].op \in {"$acquire", "$try_acquire", "$release"}
        => holds[c] = None)'
  BY DEF Shapes
<1> QED BY <1>1, <1>2, <1>3 DEF Shapes

LEMMA FaultType == ASSUME TypeOK, Fault PROVE faults' \in 0 .. MaxFaults
BY DEF TypeOK, Fault

LEMMA GetShapes ==
  ASSUME Shapes, NEW c \in Client, NEW op \in Op, NEW n \in Name \cup {None}, Get(c, op, n)
  PROVE  Shapes'
<1>1. PICK k \in Conn, r \in Request :
        /\ request[k] = None /\ r.op = op /\ r.name = n /\ r.body = None
        /\ request' = [request EXCEPT ![k] = r]
        /\ call' = [call EXCEPT ![c] = k]
  BY GetIs
<1>2. Sends(c, k, r)
  BY <1>1 DEF Sends
<1>3. /\ UNCHANGED <<table, history>> /\ call[c] = None /\ MayCall(c, op, n)
      /\ holds' = IF op = "$release" THEN [holds EXCEPT ![c] = None] ELSE holds
  BY GetIs
<1>4. holds' \in [Client -> Name \cup {None}]
  BY <1>3 DEF Shapes, TypeOK
<1>5. \A d \in Client : holds'[d] = IF d = c /\ op = "$release" THEN None ELSE holds[d]
  BY <1>3 DEF Shapes, TypeOK
<1>6. TypeOK'
  BY <1>2, <1>3, <1>4, SendsIs DEF Shapes, TypeOK, table, history
<1>7. (\A d, e \in Client : d # e /\ call[d] # None => call[e] # call[d])'
  BY <1>2, SendsIs
<1>8. ASSUME NEW d \in Client, call'[d] # None,
             request'[call'[d]].op \in {"$acquire", "$try_acquire", "$release"}
      PROVE  holds'[d] = None
  <2>1. CASE d = c
    <3>1. request'[call'[d]] = r
      BY <1>2, <2>1, SendsIs
    <3> QED BY <3>1, <2>1, <1>1, <1>3, <1>5, <1>8 DEF MayCall
  <2>2. CASE d # c
    <3>1. call[d] # None /\ request'[call'[d]] = request[call[d]]
      BY <1>2, <1>8, <2>2, SendsIs
    <3> QED BY <3>1, <2>2, <1>5, <1>8 DEF Shapes
  <2> QED BY <2>1, <2>2
<1> QED BY <1>6, <1>7, <1>8 DEF Shapes

LEMMA ResendShapes ==
  ASSUME Shapes, NEW c \in Client, Resend(c)
  PROVE  Shapes'
<1>1. PICK k \in Conn, r \in Request :
        /\ request[k] = None /\ r.op = request[call[c]].op
        /\ r.name = request[call[c]].name /\ r.body = None
        /\ request' = [request EXCEPT ![k] = r]
        /\ call' = [call EXCEPT ![c] = k]
  BY ResendIs
<1>2. Sends(c, k, r)
  BY <1>1 DEF Sends
<1>3. /\ UNCHANGED <<table, holds, overtaken>> /\ call[c] # None /\ Fault
      /\ resent' = (resent \/ request[call[c]].op = "$release")
  BY ResendIs
<1>4. faults' \in 0 .. MaxFaults
  BY <1>3, FaultType DEF Shapes
<1>5. resent' \in BOOLEAN
  BY <1>3 DEF Shapes, TypeOK
<1>6. TypeOK'
  BY <1>2, <1>3, <1>4, <1>5, SendsIs DEF Shapes, TypeOK, table
<1>7. (\A d, e \in Client : d # e /\ call[d] # None => call[e] # call[d])'
  BY <1>2, SendsIs
<1>8. ASSUME NEW d \in Client, call'[d] # None,
             request'[call'[d]].op \in {"$acquire", "$try_acquire", "$release"}
      PROVE  holds'[d] = None
  <2>1. CASE d = c
    <3>1. request'[call'[d]] = r
      BY <1>2, <2>1, SendsIs
    <3> QED BY <3>1, <2>1, <1>1, <1>3, <1>8 DEF Shapes
  <2>2. CASE d # c
    <3>1. call[d] # None /\ request'[call'[d]] = request[call[d]]
      BY <1>2, <1>8, <2>2, SendsIs
    <3> QED BY <3>1, <2>2, <1>3, <1>8 DEF Shapes
  <2> QED BY <2>1, <2>2
<1> QED BY <1>6, <1>7, <1>8 DEF Shapes

\* The calls of the others stay where they are, on the requests they carry.
LEMMA LeavesShapes ==
  ASSUME Shapes, NEW c \in Client, UNCHANGED table,
         call' = [call EXCEPT ![c] = None],
         request' = request \/ (call[c] # None /\ request' = [request EXCEPT ![call[c]] = None]),
         holds' \in [Client -> Name \cup {None}],
         \A d \in Client \ {c} : holds'[d] = holds[d],
         faults' \in 0 .. MaxFaults, resent' \in BOOLEAN, overtaken' \in BOOLEAN
  PROVE  /\ Shapes'
         /\ \A d \in Client : call'[d] = IF d = c THEN None ELSE call[d]
         /\ \A d \in Client \ {c} : call[d] # None => request'[call[d]] = request[call[d]]
<1>1. call' \in [Client -> Conn \cup {None}] /\ request' \in [Conn -> Request \cup {None}]
  BY DEF Shapes, TypeOK
<1>2. \A d \in Client : call'[d] = IF d = c THEN None ELSE call[d]
  BY DEF Shapes, TypeOK
<1>3. \A d \in Client \ {c} : call[d] # None =>
        call[d] \in Conn /\ request[call[d]] # None /\ call[d] # call[c]
  BY DEF Shapes, TypeOK
<1>4. \A d \in Client \ {c} : call[d] # None => request'[call[d]] = request[call[d]]
  BY <1>3 DEF Shapes, TypeOK
<1>5. \A d \in Client : call'[d] # None => request'[call'[d]] # None
  BY <1>2, <1>3, <1>4
<1>6. TypeOK'
  BY <1>1, <1>5 DEF Shapes, TypeOK, table
<1>7. (\A d, e \in Client : d # e /\ call[d] # None => call[e] # call[d])'
  BY <1>2, <1>3 DEF Shapes
<1>8. (\A d \in Client :
        call[d] # None /\ request[call[d]].op \in {"$acquire", "$try_acquire", "$release"}
        => holds[d] = None)'
  BY <1>2, <1>4 DEF Shapes
<1> QED BY <1>2, <1>4, <1>6, <1>7, <1>8 DEF Shapes

LEMMA ReceiveShapes ==
  ASSUME Shapes, NEW c \in Client, Receive(c)
  PROVE  Shapes'
<1>1. /\ UNCHANGED <<table, history>> /\ call[c] # None
      /\ call' = [call EXCEPT ![c] = None]
      /\ request' = [request EXCEPT ![call[c]] = None]
      /\ holds' = holds \/ \E n \in Name : holds' = [holds EXCEPT ![c] = n]
  BY DEF Receive
<1>2. /\ holds' \in [Client -> Name \cup {None}]
      /\ \A d \in Client \ {c} : holds'[d] = holds[d]
  BY <1>1 DEF Shapes, TypeOK
<1>3. faults' \in 0 .. MaxFaults /\ resent' \in BOOLEAN /\ overtaken' \in BOOLEAN
  BY <1>1 DEF Shapes, TypeOK, history
<1> QED BY <1>1, <1>2, <1>3, LeavesShapes

LEMMA BreakShapes ==
  ASSUME Shapes, NEW c \in Client, Break(c) \/ Crash(c)
  PROVE  Shapes'
<1>1. /\ UNCHANGED <<table, request, resent, overtaken>> /\ Fault
      /\ call' = [call EXCEPT ![c] = None]
      /\ holds' = holds \/ holds' = [holds EXCEPT ![c] = None]
  BY DEF Break, Crash
<1>2. /\ holds' \in [Client -> Name \cup {None}]
      /\ \A d \in Client \ {c} : holds'[d] = holds[d]
  BY <1>1 DEF Shapes, TypeOK
<1>3. resent' \in BOOLEAN /\ overtaken' \in BOOLEAN
  BY <1>1 DEF Shapes, TypeOK
<1>4. faults' \in 0 .. MaxFaults
  BY <1>1, FaultType DEF Shapes
<1> QED BY <1>1, <1>2, <1>3, <1>4, LeavesShapes

LEMMA DropShapes ==
  ASSUME Shapes, NEW k \in Conn, Drop(k)
  PROVE  /\ Shapes'
         /\ \A j \in Conn : request'[j] = IF j = k THEN None ELSE request[j]
         /\ \A d \in Client : call[d] # None => call[d] \in Conn /\ call[d] # k
<1>1. /\ UNCHANGED <<table, call, holds, history>> /\ ~WaitedFor(k)
      /\ request' = [request EXCEPT ![k] = None]
  BY DEF Drop
<1>2. request' \in [Conn -> Request \cup {None}]
  BY <1>1 DEF Shapes, TypeOK
<1>3. \A j \in Conn : request'[j] = IF j = k THEN None ELSE request[j]
  BY <1>1 DEF Shapes, TypeOK
<1>4. \A d \in Client : call[d] # None => call[d] \in Conn /\ call[d] # k
  BY <1>1 DEF Shapes, TypeOK, WaitedFor
<1>5. TypeOK'
  BY <1>1, <1>2, <1>3, <1>4 DEF Shapes, TypeOK, table, history
<1>6. (\A d, e \in Client : d # e /\ call[d] # None => call[e] # call[d])'
  BY <1>1 DEF Shapes
<1>7. (\A d \in Client :
        call[d] # None /\ request[call[d]].op \in {"$acquire", "$try_acquire", "$release"}
        => holds[d] = None)'
  BY <1>1, <1>3, <1>4 DEF Shapes
<1> QED BY <1>3, <1>4, <1>5, <1>6, <1>7 DEF Shapes

\* What every handler answers, and what it does to the table.
LEMMA HandleIs ==
  ASSUME Shapes, NEW k \in Conn, Handle(k)
  PROVE  /\ UNCHANGED <<call, holds, resent>>
         /\ request[k].body = None
         /\ \E r \in Request : Answers(k, r) /\ r.body # None
         /\ registered' \subseteq Name /\ inUse' \subseteq registered' /\ stale' \subseteq inUse'
         /\ faults' \in 0 .. MaxFaults /\ overtaken' \in BOOLEAN
<1> DEFINE Bodies == Name \cup {None, "", "OK", "ERR_IN_USE", "ERR_NOT_EXIST", "500"}
<1>0. request[k] # None /\ request[k].body = None
  BY DEF Handle, HandleAcquire, HandleTryAcquire, HandleKeepAlive, HandleRelease, HandleReset,
         HandleError, Pending
<1>1. ASSUME NEW body \in Bodies, body # None, Respond(k, body)
      PROVE  \E r \in Request : Answers(k, r) /\ r.body # None
  <2>1. PICK r \in Request :
          /\ r.op = request[k].op /\ r.name = request[k].name /\ r.body = body
          /\ request' = [request EXCEPT ![k] = r]
    BY <1>0, <1>1, RespondIs
  <2>2. Answers(k, r) /\ r.body # None
    BY <1>0, <1>1, <2>1 DEF Answers
  <2> QED BY <2>2
<1>2. registered \subseteq Name /\ inUse \subseteq registered /\ stale \subseteq inUse
  BY DEF Shapes, TypeOK
<1>3. faults \in 0 .. MaxFaults /\ overtaken \in BOOLEAN
  BY DEF Shapes, TypeOK
<1>4. CASE HandleAcquire(k)
  <2>1. PICK n \in Name \ inUse : Grant(n) /\ Respond(k, n)
    BY <1>4 DEF HandleAcquire
  <2>2. n \in Bodies /\ n # None
    BY NotNone
  <2>3. UNCHANGED <<call, holds, history>>
    BY <1>4 DEF HandleAcquire
  <2>4. registered' \subseteq Name /\ inUse' \subseteq registered' /\ stale' \subseteq inUse'
    BY <2>1, <1>2 DEF Grant
  <2> QED BY <1>0, <1>1, <1>3, <2>1, <2>2, <2>3, <2>4 DEF history
<1>5. CASE HandleTryAcquire(k)
  <2>1. request[k].op = "$try_acquire"
    BY <1>5 DEF HandleTryAcquire, Pending
  <2>2. UNCHANGED <<call, holds, history>>
    BY <1>5 DEF HandleTryAcquire
  <2>3. \/ Respond(k, "ERR_NOT_EXIST") /\ UNCHANGED table
        \/ Respond(k, "ERR_IN_USE") /\ UNCHANGED table
        \/ request[k].name \in registered /\ Respond(k, "OK") /\ Grant(request[k].name)
    BY <1>5 DEF HandleTryAcquire
  <2>4. registered' \subseteq Name /\ inUse' \subseteq registered' /\ stale' \subseteq inUse'
    BY <2>3, <1>2 DEF Grant, table
  <2>5. \E body \in Bodies : body # None /\ Respond(k, body)
    BY <2>3, NotNone
  <2> QED BY <1>0, <1>1, <1>3, <2>2, <2>4, <2>5 DEF history
<1>6. CASE HandleKeepAlive(k) \/ HandleRelease(k)
  <2>1. Respond(k, "") /\ UNCHANGED <<call, holds, history>>
    BY <1>6 DEF HandleKeepAlive, HandleRelease
  <2>2. "" \in Bodies /\ "" # None
    BY NotNone
  <2>3. registered' \subseteq Name /\ inUse' \subseteq registered' /\ stale' \subseteq inUse'
    BY <1>6, <1>2 DEF HandleKeepAlive, HandleRelease
  <2> QED BY <1>0, <1>1, <1>3, <2>1, <2>2, <2>3 DEF history
<1>7. CASE HandleReset(k)
  <2>1. Respond(k, "") /\ UNCHANGED <<call, holds, faults, resent>>
    BY <1>7 DEF HandleReset
  <2>2. "" \in Bodies /\ "" # None
    BY NotNone
  <2>3. registered' \subseteq Name /\ inUse' \subseteq registered' /\ stale' \subseteq inUse'
    BY <1>7 DEF HandleReset
  <2>4. overtaken' \in BOOLEAN
    BY <1>7, <1>3 DEF HandleReset
  <2> QED BY <1>0, <1>1, <1>3, <2>1, <2>2, <2>3, <2>4
<1>8. CASE HandleError(k)
  <2>1. Respond(k, "500") /\ Fault /\ UNCHANGED <<table, call, holds, resent, overtaken>>
    BY <1>8 DEF HandleError
  <2>2. "500" \in Bodies /\ "500" # None
    BY NotNone
  <2>3. faults' \in 0 .. MaxFaults
    BY <2>1, FaultType DEF Shapes
  <2> QED BY <1>0, <1>1, <1>2, <1>3, <2>1, <2>2, <2>3 DEF table
<1> QED BY <1>4, <1>5, <1>6, <1>7, <1>8 DEF Handle

LEMMA SweepShapes ==
  ASSUME Shapes, NEW n \in Name, GoStale(n) \/ AutoRelease(n)
  PROVE  Shapes'
<1>1. UNCHANGED <<registered, request, call, holds, faults, resent>>
  BY DEF GoStale, AutoRelease, history
<1>2. inUse' \subseteq registered' /\ stale' \subseteq inUse'
  BY DEF GoStale, AutoRelease, Shapes, TypeOK
<1>3. overtaken' \in BOOLEAN
  BY DEF GoStale, AutoRelease, Shapes, TypeOK, history
<1>4. TypeOK'
  BY <1>1, <1>2, <1>3 DEF Shapes, TypeOK
<1>5. (\A d, e \in Client : d # e /\ call[d] # None => call[e] # call[d])'
  BY <1>1 DEF Shapes
<1>6. (\A d \in Client :
        call[d] # None /\ request[call[d]].op \in {"$acquire", "$try_acquire", "$release"}
        => holds[d] = None)'
  BY <1>1 DEF Shapes
<1> QED BY <1>4, <1>5, <1>6 DEF Shapes

LEMMA StepShapes == Shapes /\ [Next]_vars => Shapes'
<1> SUFFICES ASSUME Shapes, [Next]_vars PROVE Shapes'
  OBVIOUS
<1>1. ASSUME NEW c \in Client, NEW op \in Op, NEW n \in Name \cup {None}, Get(c, op, n)
      PROVE  Shapes'
  BY <1>1, GetShapes
<1>2. ASSUME NEW c \in Client, Receive(c) \/ Break(c) \/ Resend(c) \/ Crash(c)
      PROVE  Shapes'
  BY <1>2, ReceiveShapes, BreakShapes, ResendShapes
<1>3. ASSUME NEW k \in Conn, Handle(k)
      PROVE  Shapes'
  <2>1. PICK r \in Request : Answers(k, r)
    BY <1>3, HandleIs
  <2>2. resent' \in BOOLEAN
    BY <1>3, HandleIs DEF Shapes, TypeOK
  <2> QED BY <1>3, <2>1, <2>2, HandleIs, AnswersShapes
<1>4. ASSUME NEW k \in Conn, Drop(k)
      PROVE  Shapes'
  BY <1>4, DropShapes
<1>5. ASSUME NEW n \in Name, GoStale(n) \/ AutoRelease(n)
      PROVE  Shapes'
  BY <1>5, SweepShapes
<1>6. CASE UNCHANGED vars
  BY <1>6 DEF Shapes, TypeOK, vars, table, history
<1> QED BY <1>1, <1>2, <1>3, <1>4, <1>5, <1>6 DEF Next

LEMMA InitShapes == Init => Shapes
<1> SUFFICES ASSUME Init PROVE Shapes
  OBVIOUS
<1>1. \A c \in Client : call[c] = None
  BY DEF Init
<1>2. resent \in BOOLEAN /\ overtaken \in BOOLEAN /\ faults \in 0 .. MaxFaults
  <2>1. resent \in BOOLEAN /\ overtaken \in BOOLEAN
    BY Zenon DEF Init
  <2>2. faults = 0
    BY Zenon DEF Init
  <2> QED BY <2>1, <2>2
<1>3. /\ request \in [Conn -> Request \cup {None}]
      /\ call \in [Client -> Conn \cup {None}]
      /\ holds \in [Client -> Name \cup {None}]
  BY DEF Init
<1>4. registered \subseteq Name /\ inUse \subseteq registered /\ stale \subseteq inUse
  BY DEF Init
<1> QED BY <1>1, <1>2, <1>3, <1>4 DEF Shapes, TypeOK

\* Every variable keeps its type, and who waits on a connection waits for a
\* request that is still there.
THEOREM RestTypeCorrect == Spec => []TypeOK
<1>1. Shapes => TypeOK
  BY DEF Shapes
<1> QED BY <1>1, InitShapes, StepShapes, PTL DEF Spec

-----------------------------------------------------------------------------
(* Who counts on a name: the client that has it, or whose answer says so,  *)
(* and the release that is on its way.                                     *)

Has(c, n) == holds[c] = n \/ (call[c] # None /\ Grants(request[call[c]], n))
Asks(k, n) == Pending(k, "$release") /\ request[k].name = n

LEMMA WantedIs ==
  ASSUME Shapes, NEW n \in Name
  PROVE  Wanted(n) <=> (\E c \in Client : Has(c, n)) \/ (\E k \in Conn : Asks(k, n))
<1>1. \A c \in Client : call[c] # None => call[c] \in Conn /\ request[call[c]] # None
  BY CallAt DEF Shapes
<1>2. \A k \in Conn : k # None
  BY NotNone
<1> QED BY <1>1, <1>2 DEF Wanted, Has, Asks, WaitedFor, Pending

LEMMA GrantsOne ==
  /\ \A r, n : r.body = None /\ n \in Name => ~Grants(r, n)
  /\ \A r, m, n : Grants(r, m) /\ Grants(r, n) => m = n
BY NotNone DEF Grants

\* A new request grants nothing yet; a release takes the name from its client.
LEMMA GetTokens ==
  ASSUME Shapes, NEW c \in Client, NEW op \in Op, NEW n \in Name \cup {None}, Get(c, op, n)
  PROVE  \E k \in Conn :
           /\ \A d \in Client, m \in Name :
                Has(d, m)' <=> Has(d, m) /\ ~(d = c /\ op = "$release")
           /\ \A j \in Conn, m \in Name :
                Asks(j, m)' <=> Asks(j, m) \/ (j = k /\ op = "$release" /\ m = n)
           /\ op = "$release" => \A m \in Name : Has(c, m) <=> m = n
<1>1. PICK k \in Conn, r \in Request :
        /\ request[k] = None /\ r.op = op /\ r.name = n /\ r.body = None
        /\ request' = [request EXCEPT ![k] = r]
        /\ call' = [call EXCEPT ![c] = k]
  BY GetIs
<1>2. Sends(c, k, r)
  BY <1>1 DEF Sends
<1>3. /\ call[c] = None /\ MayCall(c, op, n)
      /\ holds' = IF op = "$release" THEN [holds EXCEPT ![c] = None] ELSE holds
  BY GetIs
<1>4. \A d \in Client : holds'[d] = IF d = c /\ op = "$release" THEN None ELSE holds[d]
  BY <1>3 DEF Shapes, TypeOK
<1>5. ASSUME NEW d \in Client, NEW m \in Name
      PROVE  Has(d, m)' <=> Has(d, m) /\ ~(d = c /\ op = "$release")
  <2>1. CASE d = c
    <3>1. request'[call'[d]] = r
      BY <1>2, <2>1, SendsIs
    <3>2. ~Grants(r, m)
      BY <1>1, GrantsOne
    <3> QED BY <3>1, <3>2, <2>1, <1>3, <1>4, NotNone DEF Has, Grants
  <2>2. CASE d # c
    <3>1. call'[d] = call[d] /\ (call[d] # None => request'[call[d]] = request[call[d]])
      BY <1>2, <2>2, SendsIs
    <3> QED BY <3>1, <2>2, <1>4 DEF Has, Grants
  <2> QED BY <2>1, <2>2
<1>6. ASSUME NEW j \in Conn, NEW m \in Name
      PROVE  Asks(j, m)' <=> Asks(j, m) \/ (j = k /\ op = "$release" /\ m = n)
  <2>1. request'[j] = IF j = k THEN r ELSE request[j]
    BY <1>2, SendsIs
  <2>2. r # None
    BY NotNone
  <2> QED BY <2>1, <2>2, <1>1 DEF Asks, Pending
<1>7. op = "$release" => \A m \in Name : Has(c, m) <=> m = n
  BY <1>3 DEF MayCall, Has
<1> QED BY <1>5, <1>6, <1>7

\* Who reads an answer has the name it grants, and the others have what they had.
LEMMA ReceiveTokens ==
  ASSUME Shapes, NEW c \in Client, Receive(c)
  PROVE  /\ \A d \in Client, m \in Name : Has(d, m)' <=> Has(d, m)
         /\ \A j \in Conn, m \in Name : Asks(j, m)' <=> Asks(j, m)
<1> DEFINE r == request[call[c]]
<1>1. /\ UNCHANGED <<table, history>> /\ call[c] # None /\ r.body # None
      /\ call' = [call EXCEPT ![c] = None]
      /\ request' = [request EXCEPT ![call[c]] = None]
      /\ \/ \E n \in Name : Grants(r, n) /\ holds' = [holds EXCEPT ![c] = n]
         \/ (\A n \in Name : ~Grants(r, n)) /\ UNCHANGED holds
  BY DEF Receive
<1>2. /\ holds' \in [Client -> Name \cup {None}]
      /\ \A d \in Client \ {c} : holds'[d] = holds[d]
  BY <1>1 DEF Shapes, TypeOK
<1>3. faults' \in 0 .. MaxFaults /\ resent' \in BOOLEAN /\ overtaken' \in BOOLEAN
  BY <1>1 DEF Shapes, TypeOK, history
<1>4. /\ \A d \in Client : call'[d] = IF d = c THEN None ELSE call[d]
      /\ \A d \in Client \ {c} : call[d] # None => request'[call[d]] = request[call[d]]
  BY <1>1, <1>2, <1>3, LeavesShapes
<1>5. ASSUME NEW d \in Client, NEW m \in Name
      PROVE  Has(d, m)' <=> Has(d, m)
  <2>1. CASE d = c
    <3>1. Has(d, m)' <=> holds'[c] = m
      BY <1>4, <2>1 DEF Has
    <3>2. CASE \E n \in Name : Grants(r, n) /\ holds' = [holds EXCEPT ![c] = n]
      <4>1. PICK n \in Name : Grants(r, n) /\ holds' = [holds EXCEPT ![c] = n]
        BY <3>2
      <4>2. holds'[c] = n
        BY <4>1 DEF Shapes, TypeOK
      <4>3. holds[c] = None
        BY <1>1, <4>1 DEF Shapes, Grants
      <4>4. Grants(r, m) <=> m = n
        BY <4>1, GrantsOne
      <4> QED BY <3>1, <4>2, <4>3, <4>4, <1>1, <2>1, NotNone DEF Has
    <3>3. CASE (\A n \in Name : ~Grants(r, n)) /\ UNCHANGED holds
      BY <3>1, <3>3, <2>1 DEF Has
    <3> QED BY <1>1, <3>2, <3>3
  <2>2. CASE d # c
    BY <2>2, <1>2, <1>4 DEF Has, Grants
  <2> QED BY <2>1, <2>2
<1>6. call[c] \in Conn
  BY <1>1, CallAt DEF Shapes
<1>7. \A j \in Conn : request'[j] = IF j = call[c] THEN None ELSE request[j]
  BY <1>1, <1>6 DEF Shapes, TypeOK
<1>8. \A j \in Conn, m \in Name : Asks(j, m)' <=> Asks(j, m)
  BY <1>1, <1>7 DEF Asks, Pending
<1> QED BY <1>5, <1>8

\* A client that breaks its connection has what it held; one that dies, nothing.
LEMMA BreakTokens ==
  ASSUME Shapes, NEW c \in Client, Break(c) \/ Crash(c)
  PROVE  /\ \A d \in Client, m \in Name : Has(d, m)' => Has(d, m)
         /\ \A d \in Client \ {c}, m \in Name : Has(d, m)' <=> Has(d, m)
         /\ Break(c) => \A m \in Name : Has(c, m)' <=> holds[c] = m
         /\ \A j \in Conn, m \in Name : Asks(j, m)' <=> Asks(j, m)
<1>1. /\ UNCHANGED request
      /\ call' = [call EXCEPT ![c] = None]
      /\ \/ Break(c) /\ holds' = holds
         \/ Crash(c) /\ holds' = [holds EXCEPT ![c] = None]
  BY DEF Break, Crash
<1>2. \A d \in Client : call'[d] = IF d = c THEN None ELSE call[d]
  BY <1>1 DEF Shapes, TypeOK
<1>3. \A d \in Client : holds'[d] = holds[d] \/ (d = c /\ Crash(c) /\ holds'[d] = None)
  BY <1>1 DEF Shapes, TypeOK
<1>4. \A d \in Client, m \in Name : Has(d, m)' => Has(d, m)
  BY <1>1, <1>2, <1>3, NotNone DEF Has, Grants
<1>5. \A d \in Client \ {c}, m \in Name : Has(d, m)' <=> Has(d, m)
  BY <1>1, <1>2, <1>3 DEF Has, Grants
<1>6. Break(c) => \A m \in Name : Has(c, m)' <=> holds[c] = m
  BY <1>2 DEF Has, Break
<1>7. \A j \in Conn, m \in Name : Asks(j, m)' <=> Asks(j, m)
  BY <1>1 DEF Asks, Pending
<1> QED BY <1>4, <1>5, <1>6, <1>7

\* A call sent again has what its client held, and asks once more.
LEMMA ResendTokens ==
  ASSUME Shapes, NEW c \in Client, Resend(c)
  PROVE  \E k \in Conn :
           /\ k # call[c]
           /\ \A d \in Client \ {c}, m \in Name : Has(d, m)' <=> Has(d, m)
           /\ \A m \in Name : Has(c, m)' <=> holds[c] = m
           /\ \A j \in Conn, m \in Name :
                Asks(j, m)' <=>
                  Asks(j, m) \/ (j = k /\ request[call[c]].op = "$release"
                                       /\ m = request[call[c]].name)
<1>1. PICK k \in Conn, r \in Request :
        /\ request[k] = None /\ r.op = request[call[c]].op
        /\ r.name = request[call[c]].name /\ r.body = None
        /\ request' = [request EXCEPT ![k] = r]
        /\ call' = [call EXCEPT ![c] = k]
  BY ResendIs
<1>2. Sends(c, k, r)
  BY <1>1 DEF Sends
<1>3. UNCHANGED holds /\ call[c] # None
  BY ResendIs
<1>4. ASSUME NEW d \in Client \ {c}, NEW m \in Name
      PROVE  Has(d, m)' <=> Has(d, m)
  <2>1. call'[d] = call[d] /\ (call[d] # None => request'[call[d]] = request[call[d]])
    BY <1>2, SendsIs
  <2> QED BY <2>1, <1>3 DEF Has, Grants
<1>5. ASSUME NEW m \in Name
      PROVE  Has(c, m)' <=> holds[c] = m
  <2>1. request'[call'[c]] = r
    BY <1>2, SendsIs
  <2>2. ~Grants(r, m)
    BY <1>1, GrantsOne
  <2> QED BY <2>1, <2>2, <1>3 DEF Has, Grants
<1>6. ASSUME NEW j \in Conn, NEW m \in Name
      PROVE  Asks(j, m)' <=>
               Asks(j, m) \/ (j = k /\ request[call[c]].op = "$release"
                                    /\ m = request[call[c]].name)
  <2>1. request'[j] = IF j = k THEN r ELSE request[j]
    BY <1>2, SendsIs
  <2>2. r # None
    BY NotNone
  <2> QED BY <2>1, <2>2, <1>1 DEF Asks, Pending
<1>7. k # call[c]
  BY <1>2, <1>3, SendsIs
<1> QED BY <1>4, <1>5, <1>6, <1>7

\* A handler that answers r grants what r grants, and asks for nothing any more.
LEMMA AnswersTokens ==
  ASSUME Shapes, NEW k \in Conn, NEW r, Answers(k, r), r.body # None,
         request[k].body = None, UNCHANGED <<call, holds>>
  PROVE  /\ \A d \in Client, m \in Name :
              Has(d, m)' <=> Has(d, m) \/ (call[d] = k /\ Grants(r, m))
         /\ \A j \in Conn, m \in Name : Asks(j, m)' <=> Asks(j, m) /\ j # k
<1>1. \A j \in Conn : request'[j] = IF j = k THEN r ELSE request[j]
  BY AnswersIs
<1>2. ASSUME NEW d \in Client, NEW m \in Name
      PROVE  Has(d, m)' <=> Has(d, m) \/ (call[d] = k /\ Grants(r, m))
  <2>1. CASE call[d] = k
    <3>1. request'[call[d]] = r /\ call[d] # None
      BY <2>1, <1>1, NotNone
    <3>2. ~Grants(request[k], m)
      BY GrantsOne
    <3> QED BY <2>1, <3>1, <3>2 DEF Has, Grants
  <2>2. CASE call[d] # k
    <3>1. call[d] # None => request'[call[d]] = request[call[d]]
      BY <1>1, <2>2, AnswersIs
    <3> QED BY <2>2, <3>1 DEF Has, Grants
  <2> QED BY <2>1, <2>2
<1>3. \A j \in Conn, m \in Name : Asks(j, m)' <=> Asks(j, m) /\ j # k
  BY <1>1 DEF Asks, Pending
<1> QED BY <1>2, <1>3

Acquires == {"$acquire", "$try_acquire"}

\* A handler grants a name that is free, to the client that waits if one does, or
\* grants nothing.
LEMMA HandleTokens ==
  ASSUME Shapes, NEW k \in Conn, Handle(k)
  PROVE  \/ \E n \in Name \ inUse :
              /\ Grant(n) /\ UNCHANGED history /\ request[k].op \in Acquires
              /\ \A d \in Client, m \in Name :
                   Has(d, m)' <=> Has(d, m) \/ (call[d] = k /\ m = n)
              /\ \A j \in Conn, m \in Name : Asks(j, m)' <=> Asks(j, m)
         \/ /\ \A d \in Client, m \in Name : Has(d, m)' <=> Has(d, m)
            /\ \A j \in Conn, m \in Name : Asks(j, m)' <=> Asks(j, m) /\ j # k
            /\ \/ UNCHANGED <<inUse, history>> /\ request[k].op # "$release"
               \/ HandleRelease(k)
               \/ HandleReset(k)
               \/ HandleError(k)
<1> DEFINE Bodies == Name \cup {None, "", "OK", "ERR_IN_USE", "ERR_NOT_EXIST", "500"}
<1>0. /\ request[k] # None /\ request[k] \in Request /\ request[k].body = None
      /\ UNCHANGED <<call, holds>>
  <2>1. request[k] # None
    BY DEF Handle, HandleAcquire, HandleTryAcquire, HandleKeepAlive, HandleRelease, HandleReset,
           HandleError, Pending
  <2> QED BY <2>1, HandleIs, RequestAt DEF Shapes
<1>1. ASSUME NEW body \in Bodies, body # None, Respond(k, body)
      PROVE  \E r \in Request :
               /\ r.op = request[k].op /\ r.name = request[k].name /\ r.body = body
               /\ \A d \in Client, m \in Name :
                    Has(d, m)' <=> Has(d, m) \/ (call[d] = k /\ Grants(r, m))
               /\ \A j \in Conn, m \in Name : Asks(j, m)' <=> Asks(j, m) /\ j # k
  <2>1. PICK r \in Request :
          /\ r.op = request[k].op /\ r.name = request[k].name /\ r.body = body
          /\ request' = [request EXCEPT ![k] = r]
    BY <1>0, <1>1, RespondIs
  <2>2. Answers(k, r) /\ r.body # None
    BY <1>0, <1>1, <2>1 DEF Answers
  <2>3. /\ \A d \in Client, m \in Name :
             Has(d, m)' <=> Has(d, m) \/ (call[d] = k /\ Grants(r, m))
        /\ \A j \in Conn, m \in Name : Asks(j, m)' <=> Asks(j, m) /\ j # k
    BY <1>0, <2>2, AnswersTokens
  <2> QED BY <2>1, <2>3
<1> HIDE DEF Bodies
<1>2. /\ "" \in Bodies /\ "OK" \in Bodies /\ "ERR_IN_USE" \in Bodies
      /\ "ERR_NOT_EXIST" \in Bodies /\ "500" \in Bodies
      /\ \A n \in Name : n \in Bodies
  BY DEF Bodies
<1>3. ASSUME NEW body \in Bodies, body # None, Respond(k, body),
             \/ request[k].op \notin Acquires
             \/ body \in {"500", "ERR_IN_USE", "ERR_NOT_EXIST"}
      PROVE  /\ \A d \in Client, m \in Name : Has(d, m)' <=> Has(d, m)
             /\ \A j \in Conn, m \in Name : Asks(j, m)' <=> Asks(j, m) /\ j # k
  <2>1. PICK r \in Request :
          /\ r.op = request[k].op /\ r.name = request[k].name /\ r.body = body
          /\ \A d \in Client, m \in Name :
               Has(d, m)' <=> Has(d, m) \/ (call[d] = k /\ Grants(r, m))
          /\ \A j \in Conn, m \in Name : Asks(j, m)' <=> Asks(j, m) /\ j # k
    BY <1>1, <1>3
  <2>2. \A m \in Name : ~Grants(r, m)
    BY <2>1, <1>3, NotNone DEF Grants, Acquires
  <2> QED BY <2>1, <2>2
<1>4. ASSUME NEW n \in Name, NEW body \in Bodies, body # None, Respond(k, body),
             \/ request[k].op = "$acquire" /\ body = n
             \/ request[k].op = "$try_acquire" /\ body = "OK" /\ request[k].name = n
      PROVE  /\ \A d \in Client, m \in Name : Has(d, m)' <=> Has(d, m) \/ (call[d] = k /\ m = n)
             /\ \A j \in Conn, m \in Name : Asks(j, m)' <=> Asks(j, m)
  <2>1. PICK r \in Request :
          /\ r.op = request[k].op /\ r.name = request[k].name /\ r.body = body
          /\ \A d \in Client, m \in Name :
               Has(d, m)' <=> Has(d, m) \/ (call[d] = k /\ Grants(r, m))
          /\ \A j \in Conn, m \in Name : Asks(j, m)' <=> Asks(j, m) /\ j # k
    BY <1>1, <1>4
  <2>2. \A m \in Name : Grants(r, m) <=> m = n
    BY <2>1, <1>4, NotNone DEF Grants
  <2>3. \A m \in Name : ~Asks(k, m)
    BY <1>4 DEF Asks, Pending
  <2> QED BY <2>1, <2>2, <2>3
<1>5. CASE HandleAcquire(k)
  <2>1. PICK n \in Name \ inUse : Grant(n) /\ Respond(k, n)
    BY <1>5 DEF HandleAcquire
  <2>2. request[k].op = "$acquire" /\ UNCHANGED history
    BY <1>5 DEF HandleAcquire, Pending
  <2>3. /\ \A d \in Client, m \in Name : Has(d, m)' <=> Has(d, m) \/ (call[d] = k /\ m = n)
        /\ \A j \in Conn, m \in Name : Asks(j, m)' <=> Asks(j, m)
    BY <1>2, <1>4, <2>1, <2>2, NotNone
  <2> QED BY <2>1, <2>2, <2>3 DEF Acquires
<1>6. CASE HandleTryAcquire(k)
  <2>1. request[k].op = "$try_acquire" /\ UNCHANGED history
    BY <1>6 DEF HandleTryAcquire, Pending
  <2>2. registered \subseteq Name
    BY DEF Shapes, TypeOK
  <2>3. CASE \E body \in {"ERR_NOT_EXIST", "ERR_IN_USE"} : Respond(k, body) /\ UNCHANGED table
    <3>1. PICK body \in {"ERR_NOT_EXIST", "ERR_IN_USE"} : Respond(k, body) /\ UNCHANGED table
      BY <2>3
    <3>2. body \in Bodies /\ body # None
      BY <1>2, NotNone
    <3>3. /\ \A d \in Client, m \in Name : Has(d, m)' <=> Has(d, m)
          /\ \A j \in Conn, m \in Name : Asks(j, m)' <=> Asks(j, m) /\ j # k
      BY <1>3, <3>1, <3>2
    <3> QED BY <2>1, <3>1, <3>3 DEF table
  <2>4. CASE /\ request[k].name \in registered \ inUse
             /\ Respond(k, "OK") /\ Grant(request[k].name)
    <3>1. /\ \A d \in Client, m \in Name :
               Has(d, m)' <=> Has(d, m) \/ (call[d] = k /\ m = request[k].name)
          /\ \A j \in Conn, m \in Name : Asks(j, m)' <=> Asks(j, m)
      <4>1. "OK" \in Bodies /\ "OK" # None
        BY <1>2, NotNone
      <4> QED BY <1>4, <2>1, <2>2, <2>4, <4>1
    <3> QED BY <2>1, <2>2, <2>4, <3>1 DEF Acquires
  <2>5. \/ Respond(k, "ERR_NOT_EXIST") /\ UNCHANGED table
        \/ Respond(k, "ERR_IN_USE") /\ UNCHANGED table
        \/ /\ request[k].name \in registered \ inUse
           /\ Respond(k, "OK") /\ Grant(request[k].name)
    BY <1>6 DEF HandleTryAcquire
  <2> QED BY <2>3, <2>4, <2>5
<1>7. CASE HandleKeepAlive(k) \/ HandleRelease(k) \/ HandleReset(k)
  <2>1. Respond(k, "") /\ request[k].op \notin Acquires
    BY <1>7 DEF HandleKeepAlive, HandleRelease, HandleReset, Pending, Acquires
  <2>2. /\ \A d \in Client, m \in Name : Has(d, m)' <=> Has(d, m)
        /\ \A j \in Conn, m \in Name : Asks(j, m)' <=> Asks(j, m) /\ j # k
    BY <1>2, <1>3, <2>1, NotNone
  <2>3. HandleKeepAlive(k) => UNCHANGED <<inUse, history>> /\ request[k].op # "$release"
    BY DEF HandleKeepAlive, Pending
  <2> QED BY <1>7, <2>2, <2>3
<1>8. CASE HandleError(k)
  <2>1. /\ \A d \in Client, m \in Name : Has(d, m)' <=> Has(d, m)
        /\ \A j \in Conn, m \in Name : Asks(j, m)' <=> Asks(j, m) /\ j # k
    BY <1>2, <1>3, <1>8, NotNone DEF HandleError
  <2> QED BY <1>8, <2>1
<1> QED BY <1>5, <1>6, <1>7, <1>8 DEF Handle

-----------------------------------------------------------------------------
(* Exclusion.                                                              *)

\* One party at most counts on a name, and the name is in use.  Without the
\* answers and releases on their way this is not inductive: a name would be
\* granted again before the client it was granted to has read of it.
Exclusive ==
  ~resent /\ ~overtaken =>
    \A n \in Name :
      /\ \A c, d \in Client : Has(c, n) /\ Has(d, n) => c = d
      /\ \A c \in Client, k \in Conn : ~(Has(c, n) /\ Asks(k, n))
      /\ \A j, k \in Conn : Asks(j, n) /\ Asks(k, n) => j = k
      /\ \A c \in Client : Has(c, n) => n \in inUse
      /\ \A k \in Conn : Asks(k, n) => n \in inUse

\* Fewer count on the names, and those they count on stay in use.
LEMMA FewerExclusive ==
  ASSUME Shapes, Exclusive, resent => resent', overtaken => overtaken',
         \A d \in Client, m \in Name : Has(d, m)' => Has(d, m),
         \A j \in Conn, m \in Name : Asks(j, m)' => Asks(j, m),
         ~resent' /\ ~overtaken' =>
           \A m \in inUse \ inUse' :
             (\A d \in Client : ~Has(d, m)') /\ \A j \in Conn : ~Asks(j, m)'
  PROVE  Exclusive'
BY DEF Exclusive

LEMMA HandleExclusive ==
  ASSUME Shapes, Exclusive, NEW k \in Conn, Handle(k)
  PROVE  Exclusive'
<1>1. CASE \E n \in Name \ inUse :
             /\ Grant(n) /\ UNCHANGED history
             /\ \A d \in Client, m \in Name :
                  Has(d, m)' <=> Has(d, m) \/ (call[d] = k /\ m = n)
             /\ \A j \in Conn, m \in Name : Asks(j, m)' <=> Asks(j, m)
  <2>1. PICK n \in Name \ inUse :
             /\ Grant(n) /\ UNCHANGED history
             /\ \A d \in Client, m \in Name :
                  Has(d, m)' <=> Has(d, m) \/ (call[d] = k /\ m = n)
             /\ \A j \in Conn, m \in Name : Asks(j, m)' <=> Asks(j, m)
    BY <1>1
  <2>2. inUse' = inUse \cup {n} /\ resent' = resent /\ overtaken' = overtaken
    BY <2>1 DEF Grant, history
  <2>3. \A c, d \in Client : call[c] = k /\ call[d] = k => c = d
    BY NotNone DEF Shapes
  <2> QED BY <2>1, <2>2, <2>3 DEF Exclusive
<1>2. CASE /\ \A d \in Client, m \in Name : Has(d, m)' <=> Has(d, m)
           /\ \A j \in Conn, m \in Name : Asks(j, m)' <=> Asks(j, m) /\ j # k
           /\ \/ UNCHANGED <<inUse, history>>
              \/ HandleError(k)
  <2>1. UNCHANGED <<inUse, resent, overtaken>>
    BY <1>2 DEF HandleError, table, history
  <2> QED BY <1>2, <2>1, FewerExclusive
<1>3. CASE /\ \A d \in Client, m \in Name : Has(d, m)' <=> Has(d, m)
           /\ \A j \in Conn, m \in Name : Asks(j, m)' <=> Asks(j, m) /\ j # k
           /\ HandleRelease(k)
  <2>1. /\ UNCHANGED <<resent, overtaken>> /\ inUse' = inUse \ {request[k].name}
        /\ Asks(k, request[k].name)
    BY <1>3 DEF HandleRelease, history, Asks
  <2>2. ASSUME ~resent', ~overtaken', NEW m \in inUse \ inUse'
        PROVE  (\A d \in Client : ~Has(d, m)') /\ \A j \in Conn : ~Asks(j, m)'
    <3>1. m = request[k].name /\ m \in Name
      BY <2>1 DEF Shapes, TypeOK
    <3> QED BY <1>3, <2>1, <2>2, <3>1 DEF Exclusive
  <2> QED BY <1>3, <2>1, <2>2, FewerExclusive
<1>4. CASE /\ \A d \in Client, m \in Name : Has(d, m)' <=> Has(d, m)
           /\ \A j \in Conn, m \in Name : Asks(j, m)' <=> Asks(j, m) /\ j # k
           /\ HandleReset(k)
  <2>1. /\ UNCHANGED resent /\ inUse' = {}
        /\ overtaken' = (overtaken \/ \E n \in Name : Wanted(n))
    BY <1>4 DEF HandleReset
  <2>2. ~overtaken' => ~overtaken /\ \A n \in Name : ~Wanted(n)
    BY <2>1
  <2>3. inUse \subseteq Name
    BY DEF Shapes, TypeOK
  <2>4. ASSUME ~overtaken', NEW m \in inUse \ inUse'
        PROVE  (\A d \in Client : ~Has(d, m)') /\ \A j \in Conn : ~Asks(j, m)'
    <3>1. m \in Name /\ ~Wanted(m)
      BY <2>2, <2>3, <2>4
    <3> QED BY <1>4, <3>1, WantedIs
  <2> QED BY <1>4, <2>1, <2>2, <2>4, FewerExclusive
<1> QED BY <1>1, <1>2, <1>3, <1>4, HandleTokens

LEMMA GetExclusive ==
  ASSUME Shapes, Exclusive, NEW c \in Client, NEW op \in Op, NEW n \in Name \cup {None},
         Get(c, op, n)
  PROVE  Exclusive'
<1>1. PICK k \in Conn :
        /\ \A d \in Client, m \in Name :
             Has(d, m)' <=> Has(d, m) /\ ~(d = c /\ op = "$release")
        /\ \A j \in Conn, m \in Name :
             Asks(j, m)' <=> Asks(j, m) \/ (j = k /\ op = "$release" /\ m = n)
        /\ op = "$release" => \A m \in Name : Has(c, m) <=> m = n
  BY GetTokens
<1>2. UNCHANGED <<inUse, resent, overtaken>>
  BY GetIs DEF table, history
<1>3. CASE op # "$release"
  BY <1>1, <1>2, <1>3, FewerExclusive
<1>4. CASE op = "$release"
  BY <1>1, <1>2, <1>4 DEF Exclusive
<1> QED BY <1>3, <1>4

LEMMA ResendExclusive ==
  ASSUME Shapes, Exclusive, NEW c \in Client, Resend(c)
  PROVE  Exclusive'
<1>1. PICK k \in Conn :
        /\ \A d \in Client \ {c}, m \in Name : Has(d, m)' <=> Has(d, m)
        /\ \A m \in Name : Has(c, m)' <=> holds[c] = m
        /\ \A j \in Conn, m \in Name :
             Asks(j, m)' <=>
               Asks(j, m) \/ (j = k /\ request[call[c]].op = "$release"
                                    /\ m = request[call[c]].name)
  BY ResendTokens
<1>2. /\ UNCHANGED <<inUse, overtaken>>
      /\ resent' = (resent \/ request[call[c]].op = "$release")
  BY ResendIs DEF table
<1>3. \A m \in Name : Has(c, m)' => Has(c, m)
  BY <1>1 DEF Has
<1>4. CASE request[call[c]].op = "$release"
  BY <1>2, <1>4 DEF Exclusive
<1>5. CASE request[call[c]].op # "$release"
  BY <1>1, <1>2, <1>3, <1>5, FewerExclusive
<1> QED BY <1>4, <1>5

LEMMA StepExclusive ==
  ASSUME Shapes, Exclusive, [Next]_vars
  PROVE  Exclusive'
<1>1. ASSUME NEW c \in Client, NEW op \in Op, NEW n \in Name \cup {None}, Get(c, op, n)
      PROVE  Exclusive'
  BY <1>1, GetExclusive
<1>2. ASSUME NEW c \in Client, Receive(c) \/ Break(c) \/ Crash(c)
      PROVE  Exclusive'
  <2>1. UNCHANGED <<inUse, resent, overtaken>>
    BY <1>2 DEF Receive, Break, Crash, table, history
  <2>2. /\ \A d \in Client, m \in Name : Has(d, m)' => Has(d, m)
        /\ \A j \in Conn, m \in Name : Asks(j, m)' => Asks(j, m)
    BY <1>2, ReceiveTokens, BreakTokens
  <2> QED BY <2>1, <2>2, FewerExclusive
<1>3. ASSUME NEW c \in Client, Resend(c)
      PROVE  Exclusive'
  BY <1>3, ResendExclusive
<1>4. ASSUME NEW k \in Conn, Handle(k)
      PROVE  Exclusive'
  BY <1>4, HandleExclusive
<1>5. ASSUME NEW k \in Conn, Drop(k)
      PROVE  Exclusive'
  <2>1. UNCHANGED <<inUse, call, holds, resent, overtaken>>
    BY <1>5 DEF Drop, table, history
  <2>2. /\ \A j \in Conn : request'[j] = IF j = k THEN None ELSE request[j]
        /\ \A d \in Client : call[d] # None => call[d] \in Conn /\ call[d] # k
    BY <1>5, DropShapes
  <2>3. /\ \A d \in Client, m \in Name : Has(d, m)' => Has(d, m)
        /\ \A j \in Conn, m \in Name : Asks(j, m)' => Asks(j, m)
    BY <2>1, <2>2 DEF Has, Asks, Pending, Grants
  <2> QED BY <2>1, <2>3, FewerExclusive
<1>6. ASSUME NEW n \in Name, GoStale(n) \/ AutoRelease(n)
      PROVE  Exclusive'
  <2>1. UNCHANGED <<request, call, holds, resent>>
    BY <1>6 DEF GoStale, AutoRelease, history
  <2>2. /\ \A d \in Client, m \in Name : Has(d, m)' <=> Has(d, m)
        /\ \A j \in Conn, m \in Name : Asks(j, m)' <=> Asks(j, m)
    BY <2>1 DEF Has, Asks, Pending, Grants
  <2>3. CASE GoStale(n)
    <3>1. UNCHANGED <<inUse, overtaken>>
      BY <2>3 DEF GoStale, history
    <3> QED BY <2>1, <2>2, <3>1, FewerExclusive
  <2>4. CASE AutoRelease(n)
    <3>1. inUse' = inUse \ {n} /\ overtaken' = (overtaken \/ Wanted(n))
      BY <2>4 DEF AutoRelease
    <3>2. ASSUME ~overtaken', NEW m \in inUse \ inUse'
          PROVE  (\A d \in Client : ~Has(d, m)') /\ \A j \in Conn : ~Asks(j, m)'
      <4>1. m = n /\ ~Wanted(n)
        BY <3>1, <3>2
      <4> QED BY <2>2, <4>1, WantedIs
    <3> QED BY <2>1, <2>2, <3>1, <3>2, FewerExclusive
  <2> QED BY <1>6, <2>3, <2>4
<1>7. CASE UNCHANGED vars
  <2>1. UNCHANGED <<request, call, holds, inUse, resent, overtaken>>
    BY <1>7 DEF vars, table, history
  <2>2. /\ \A d \in Client, m \in Name : Has(d, m)' <=> Has(d, m)
        /\ \A j \in Conn, m \in Name : Asks(j, m)' <=> Asks(j, m)
    BY <2>1 DEF Has, Asks, Pending, Grants
  <2> QED BY <2>1, <2>2, FewerExclusive
<1> QED BY <1>1, <1>2, <1>3, <1>4, <1>5, <1>6, <1>7 DEF Next

LEMMA InitExclusive == Init => Exclusive
<1> SUFFICES ASSUME Init PROVE Exclusive
  OBVIOUS
<1>1. \A c \in Client : call[c] = None /\ holds[c] = None
  BY DEF Init
<1>2. \A k \in Conn : request[k] = None
  BY DEF Init
<1>3. \A n \in Name : (\A c \in Client : ~Has(c, n)) /\ \A k \in Conn : ~Asks(k, n)
  BY <1>1, <1>2, NotNone DEF Has, Asks, Pending
<1> QED BY <1>3 DEF Exclusive

\* Unless a release was sent twice, or the server freed a name under its holder, no
\* two clients hold the same name and the server has the names held for used,
\* whatever connections break, handlers are late, calls fail or clients die.
THEOREM RemoteExclusiveCorrect == Spec => []RemoteExclusive
<1>1. Shapes /\ Exclusive => RemoteExclusive
  BY DEF Shapes, TypeOK, Exclusive, RemoteExclusive, Has
<1>2. Shapes /\ Exclusive /\ [Next]_vars => Shapes' /\ Exclusive'
  BY StepShapes, StepExclusive
<1>3. Init => Shapes /\ Exclusive
  BY InitShapes, InitExclusive
<1> QED BY <1>1, <1>2, <1>3, PTL DEF Spec

-----------------------------------------------------------------------------
(* Losses.                                                                 *)

Losing == Acquires \cup {"$release"}

\* The requests nobody waits for that may still cost a name: an acquisition the
\* server has yet to grant, a release it may never see.
Adrift ==
  {k \in Conn : /\ request[k] # None /\ request[k].body = None /\ request[k].op \in Losing
                /\ ~WaitedFor(k)}

\* A name lost, or about to be, has a fault of its own.  The requests adrift
\* are what makes this inductive: the fault comes first, the loss later.
Bounded == Cardinality(Orphans) + Cardinality(Adrift) <= faults

LEMMA SetsFinite ==
  ASSUME Shapes
  PROVE  /\ IsFiniteSet(Orphans) /\ Cardinality(Orphans) \in Nat
         /\ IsFiniteSet(Adrift) /\ Cardinality(Adrift) \in Nat
<1>1. Orphans \subseteq Name /\ Adrift \subseteq Conn
  BY DEF Orphans, Adrift, Shapes, TypeOK
<1> QED BY <1>1, FiniteAssumption, FS_Subset, FS_CardinalityType

LEMMA PlusOne ==
  ASSUME NEW A, IsFiniteSet(A), NEW x, NEW B, B \subseteq A \cup {x}
  PROVE  IsFiniteSet(B) /\ Cardinality(B) \in Nat /\ Cardinality(B) <= Cardinality(A) + 1
<1>1. IsFiniteSet(A \cup {x}) /\ Cardinality(A \cup {x}) <= Cardinality(A) + 1
  <2>1. Cardinality(A) \in Nat
    BY FS_CardinalityType
  <2>2. /\ IsFiniteSet(A \cup {x})
        /\ Cardinality(A \cup {x}) = IF x \in A THEN Cardinality(A) ELSE Cardinality(A) + 1
    BY FS_AddElement
  <2> QED BY <2>1, <2>2
<1>2. IsFiniteSet(B) /\ Cardinality(B) <= Cardinality(A \cup {x})
  BY <1>1, FS_Subset
<1>3. Cardinality(A \cup {x}) \in Nat /\ Cardinality(B) \in Nat /\ Cardinality(A) \in Nat
  BY <1>1, <1>2, FS_CardinalityType
<1> QED BY <1>1, <1>2, <1>3

LEMMA MinusOne ==
  ASSUME NEW A, IsFiniteSet(A), NEW x \in A, NEW B, B \subseteq A \ {x}
  PROVE  IsFiniteSet(B) /\ Cardinality(B) \in Nat /\ Cardinality(B) <= Cardinality(A) - 1
<1>1. IsFiniteSet(A \ {x}) /\ Cardinality(A) \in Nat
      /\ Cardinality(A \ {x}) = Cardinality(A) - 1
  BY FS_RemoveElement, FS_CardinalityType
<1>2. IsFiniteSet(B) /\ Cardinality(B) <= Cardinality(A \ {x})
  BY <1>1, FS_Subset
<1>3. Cardinality(B) \in Nat /\ Cardinality(A \ {x}) \in Nat
  BY <1>1, <1>2, FS_CardinalityType
<1> QED BY <1>1, <1>2, <1>3

LEMMA NoMore ==
  ASSUME NEW A, IsFiniteSet(A), NEW B, B \subseteq A
  PROVE  IsFiniteSet(B) /\ Cardinality(B) \in Nat /\ Cardinality(B) <= Cardinality(A)
BY FS_Subset, FS_CardinalityType

\* Every step that loses a name, or sets a request adrift, is accounted for.
LEMMA NothingBounded ==
  ASSUME Shapes, Bounded, Orphans' \subseteq Orphans, Adrift' \subseteq Adrift,
         faults' = faults \/ faults' = faults + 1
  PROVE  Bounded'
<1>1. Cardinality(Orphans') \in Nat /\ Cardinality(Orphans') <= Cardinality(Orphans)
  BY SetsFinite, NoMore
<1>2. Cardinality(Adrift') \in Nat /\ Cardinality(Adrift') <= Cardinality(Adrift)
  BY SetsFinite, NoMore
<1>3. faults \in Nat
  BY DEF Shapes, TypeOK
<1> QED BY <1>1, <1>2, <1>3, SetsFinite DEF Bounded

LEMMA LandedBounded ==
  ASSUME Shapes, Bounded, NEW n, NEW k \in Adrift,
         Orphans' \subseteq Orphans \cup {n}, Adrift' \subseteq Adrift \ {k}, faults' = faults
  PROVE  Bounded'
<1>1. Cardinality(Orphans') \in Nat /\ Cardinality(Orphans') <= Cardinality(Orphans) + 1
  BY SetsFinite, PlusOne
<1>2. Cardinality(Adrift') \in Nat /\ Cardinality(Adrift') <= Cardinality(Adrift) - 1
  BY SetsFinite, MinusOne
<1>3. faults \in Nat
  BY DEF Shapes, TypeOK
<1> QED BY <1>1, <1>2, <1>3, SetsFinite DEF Bounded

LEMMA LostBounded ==
  ASSUME Shapes, Bounded, NEW n, Fault,
         \/ Orphans' \subseteq Orphans \cup {n} /\ Adrift' \subseteq Adrift
         \/ Orphans' \subseteq Orphans /\ Adrift' \subseteq Adrift \cup {n}
  PROVE  Bounded'
<1>1. CASE Orphans' \subseteq Orphans \cup {n} /\ Adrift' \subseteq Adrift
  <2>1. Cardinality(Orphans') \in Nat /\ Cardinality(Orphans') <= Cardinality(Orphans) + 1
    BY <1>1, SetsFinite, PlusOne
  <2>2. Cardinality(Adrift') \in Nat /\ Cardinality(Adrift') <= Cardinality(Adrift)
    BY <1>1, SetsFinite, NoMore
  <2>3. faults \in Nat /\ faults' = faults + 1
    BY DEF Shapes, TypeOK, Fault
  <2> QED BY <2>1, <2>2, <2>3, SetsFinite DEF Bounded
<1>2. CASE Orphans' \subseteq Orphans /\ Adrift' \subseteq Adrift \cup {n}
  <2>1. Cardinality(Orphans') \in Nat /\ Cardinality(Orphans') <= Cardinality(Orphans)
    BY <1>2, SetsFinite, NoMore
  <2>2. Cardinality(Adrift') \in Nat /\ Cardinality(Adrift') <= Cardinality(Adrift) + 1
    BY <1>2, SetsFinite, PlusOne
  <2>3. faults \in Nat /\ faults' = faults + 1
    BY DEF Shapes, TypeOK, Fault
  <2> QED BY <2>1, <2>2, <2>3, SetsFinite DEF Bounded
<1> QED BY <1>1, <1>2

\* A name is lost when nobody counts on it any more.
LEMMA OrphansIs ==
  ASSUME Shapes
  PROVE  \A n : n \in Orphans <=> /\ n \in inUse /\ n \in Name
                                  /\ \A c \in Client : ~Has(c, n)
                                  /\ \A k \in Conn : ~Asks(k, n)
<1>1. inUse \subseteq Name
  BY DEF Shapes, TypeOK
<1> QED BY <1>1, WantedIs DEF Orphans

LEMMA OrphansNext ==
  ASSUME Shapes'
  PROVE  \A n : n \in Orphans' <=> /\ n \in inUse' /\ n \in Name
                                   /\ \A c \in Client : ~Has(c, n)'
                                   /\ \A k \in Conn : ~Asks(k, n)'
<1>1. (\A n : n \in Orphans <=> /\ n \in inUse /\ n \in Name
                                /\ \A c \in Client : ~Has(c, n)
                                /\ \A k \in Conn : ~Asks(k, n))'
  BY OrphansIs, PTL
<1> QED BY <1>1

LEMMA GetBounded ==
  ASSUME Shapes, Shapes', Bounded, NEW c \in Client, NEW op \in Op,
         NEW n \in Name \cup {None}, Get(c, op, n)
  PROVE  Bounded'
<1>1. UNCHANGED <<inUse, faults>> /\ call[c] = None
  BY GetIs DEF table, history
<1>2. Orphans' \subseteq Orphans
  <2>1. PICK k \in Conn :
          /\ \A d \in Client, m \in Name :
               Has(d, m)' <=> Has(d, m) /\ ~(d = c /\ op = "$release")
          /\ \A j \in Conn, m \in Name :
               Asks(j, m)' <=> Asks(j, m) \/ (j = k /\ op = "$release" /\ m = n)
          /\ op = "$release" => \A m \in Name : Has(c, m) <=> m = n
    BY GetTokens
  <2>2. ASSUME NEW m \in Orphans'
        PROVE  m \in Orphans
    <3>1. /\ m \in inUse /\ m \in Name
          /\ \A d \in Client : ~Has(d, m)'
          /\ \A j \in Conn : ~Asks(j, m)'
      BY <1>1, OrphansNext
    <3>2. \A d \in Client : ~Has(d, m)
      BY <2>1, <3>1
    <3>3. \A j \in Conn : ~Asks(j, m)
      BY <2>1, <3>1
    <3> QED BY <3>1, <3>2, <3>3, OrphansIs
  <2> QED BY <2>2
<1>3. Adrift' \subseteq Adrift
  <2>1. PICK k \in Conn, r \in Request :
          /\ request[k] = None /\ r.op = op /\ r.name = n /\ r.body = None
          /\ request' = [request EXCEPT ![k] = r]
          /\ call' = [call EXCEPT ![c] = k]
    BY GetIs
  <2>2. Sends(c, k, r)
    BY <2>1 DEF Sends
  <2>3. \A d \in Client : call'[d] = IF d = c THEN k ELSE call[d]
    BY <2>2, SendsIs
  <2>4. \A j \in Conn : request'[j] = IF j = k THEN r ELSE request[j]
    BY <2>2, SendsIs
  <2>5. \A j \in Conn : WaitedFor(j)' <=> WaitedFor(j) \/ j = k
    BY <1>1, <2>3, NotNone DEF WaitedFor
  <2> QED BY <2>4, <2>5 DEF Adrift
<1> QED BY <1>1, <1>2, <1>3, NothingBounded

LEMMA ReceiveBounded ==
  ASSUME Shapes, Shapes', Bounded, NEW c \in Client, Receive(c)
  PROVE  Bounded'
<1>1. /\ UNCHANGED <<inUse, faults>> /\ call[c] # None
      /\ call' = [call EXCEPT ![c] = None]
      /\ request' = [request EXCEPT ![call[c]] = None]
  BY DEF Receive, table, history
<1>2. Orphans' \subseteq Orphans
  BY <1>1, ReceiveTokens, OrphansIs, OrphansNext
<1>3. Adrift' \subseteq Adrift
  <2>1. call[c] \in Conn
    BY <1>1, CallAt DEF Shapes
  <2>2. \A j \in Conn : request'[j] = IF j = call[c] THEN None ELSE request[j]
    BY <1>1, <2>1 DEF Shapes, TypeOK
  <2>3. \A d \in Client : call'[d] = IF d = c THEN None ELSE call[d]
    BY <1>1 DEF Shapes, TypeOK
  <2>4. \A j \in Conn : j # call[c] => (WaitedFor(j)' <=> WaitedFor(j))
    BY <2>3, NotNone DEF WaitedFor
  <2> QED BY <2>2, <2>4 DEF Adrift
<1> QED BY <1>1, <1>2, <1>3, NothingBounded

\* A client counts on one name at most, and on none while its call is losing.
LEMMA HasOne ==
  ASSUME Shapes, NEW c \in Client
  PROVE  /\ \E n : \A m \in Name : Has(c, m) => m = n
         /\ call[c] # None /\ request[call[c]].body = None /\ request[call[c]].op \in Losing
            => \A m \in Name : ~Has(c, m)
<1>1. \A m, n \in Name : Has(c, m) /\ Has(c, n) => m = n
  <2> SUFFICES ASSUME NEW m \in Name, NEW n \in Name, Has(c, m), Has(c, n)
               PROVE  m = n
    OBVIOUS
  <2>1. CASE call[c] # None /\ \E l \in Name : Grants(request[call[c]], l)
    <3>1. holds[c] = None
      BY <2>1 DEF Shapes, Grants
    <3> QED BY <3>1, NotNone, GrantsOne DEF Has
  <2>2. CASE ~(call[c] # None /\ \E l \in Name : Grants(request[call[c]], l))
    BY <2>2 DEF Has
  <2> QED BY <2>1, <2>2
<1>2. \E n : \A m \in Name : Has(c, m) => m = n
  <2>1. CASE \E n \in Name : Has(c, n)
    BY <1>1, <2>1
  <2>2. CASE \A n \in Name : ~Has(c, n)
    BY <2>2
  <2> QED BY <2>1, <2>2
<1>3. ASSUME call[c] # None, request[call[c]].body = None, request[call[c]].op \in Losing,
             NEW m \in Name
      PROVE  ~Has(c, m)
  <2>1. holds[c] = None
    BY <1>3 DEF Shapes, Losing, Acquires
  <2> QED BY <2>1, <1>3, GrantsOne, NotNone DEF Has
<1> QED BY <1>2, <1>3

\* A fault of c, which no longer waits on the connection it waited on.
LEMMA BrokenBounded ==
  ASSUME Shapes, Shapes', Bounded, NEW c \in Client, Fault, UNCHANGED inUse,
         \A d \in Client \ {c}, m \in Name : Has(d, m)' <=> Has(d, m),
         \A j \in Conn, m \in Name : Asks(j, m) => Asks(j, m)',
         Adrift' \subseteq Adrift \cup {call[c]},
         call[c] \notin Adrift' \/
           (call[c] # None /\ request[call[c]].body = None /\ request[call[c]].op \in Losing)
  PROVE  Bounded'
<1>1. CASE call[c] # None /\ request[call[c]].body = None /\ request[call[c]].op \in Losing
  <2>1. \A m \in Name : ~Has(c, m)
    BY <1>1, HasOne
  <2>2. \A m \in Name, d \in Client : Has(d, m) => Has(d, m)'
    BY <2>1
  <2>3. Orphans' \subseteq Orphans
    BY <2>2, OrphansIs, OrphansNext
  <2> QED BY <2>3, LostBounded
<1>2. CASE call[c] \notin Adrift'
  <2>1. PICK n : \A m \in Name : Has(c, m) => m = n
    BY HasOne
  <2>2. \A m \in Name, d \in Client : m # n /\ Has(d, m) => Has(d, m)'
    BY <2>1
  <2>3. Orphans' \subseteq Orphans \cup {n}
    BY <2>2, OrphansIs, OrphansNext
  <2>4. Adrift' \subseteq Adrift
    BY <1>2
  <2> QED BY <2>3, <2>4, LostBounded
<1> QED BY <1>1, <1>2

LEMMA BreakBounded ==
  ASSUME Shapes, Shapes', Bounded, NEW c \in Client, Break(c) \/ Crash(c)
  PROVE  Bounded'
<1>1. /\ Fault /\ UNCHANGED <<inUse, request>>
      /\ call' = [call EXCEPT ![c] = None]
  BY DEF Break, Crash, table
<1>2. \A d \in Client : call'[d] = IF d = c THEN None ELSE call[d]
  BY <1>1 DEF Shapes, TypeOK
<1>3. \A j \in Conn : j # call[c] => (WaitedFor(j)' <=> WaitedFor(j))
  BY <1>2, NotNone DEF WaitedFor
<1>4. Adrift' \subseteq Adrift \cup {call[c]}
  BY <1>1, <1>3 DEF Adrift
<1>5. call[c] \in Adrift' =>
        call[c] # None /\ request[call[c]].body = None /\ request[call[c]].op \in Losing
  BY <1>1, NotNone DEF Adrift
<1>6. /\ \A d \in Client \ {c}, m \in Name : Has(d, m)' <=> Has(d, m)
      /\ \A j \in Conn, m \in Name : Asks(j, m) => Asks(j, m)'
  BY BreakTokens
<1> QED BY <1>1, <1>4, <1>5, <1>6, BrokenBounded

LEMMA ResendBounded ==
  ASSUME Shapes, Shapes', Bounded, NEW c \in Client, Resend(c)
  PROVE  Bounded'
<1>1. Fault /\ UNCHANGED inUse /\ call[c] # None
  BY ResendIs DEF table
<1>2. PICK k \in Conn, r \in Request :
        /\ request[k] = None /\ r.op = request[call[c]].op
        /\ r.name = request[call[c]].name /\ r.body = None
        /\ request' = [request EXCEPT ![k] = r]
        /\ call' = [call EXCEPT ![c] = k]
  BY ResendIs
<1>3. Sends(c, k, r)
  BY <1>2 DEF Sends
<1>4. /\ \A d \in Client : call'[d] = IF d = c THEN k ELSE call[d]
      /\ \A j \in Conn : request'[j] = IF j = k THEN r ELSE request[j]
      /\ call[c] \in Conn /\ call[c] # k
  BY <1>1, <1>3, SendsIs
<1>5. WaitedFor(k)' /\ \A j \in Conn : j # k /\ j # call[c] => (WaitedFor(j)' <=> WaitedFor(j))
  BY <1>4 DEF WaitedFor
<1>6. Adrift' \subseteq Adrift \cup {call[c]}
  BY <1>4, <1>5 DEF Adrift
<1>7. call[c] \in Adrift' =>
        call[c] # None /\ request[call[c]].body = None /\ request[call[c]].op \in Losing
  BY <1>1, <1>4 DEF Adrift
<1>8. /\ \A d \in Client \ {c}, m \in Name : Has(d, m)' <=> Has(d, m)
      /\ \A j \in Conn, m \in Name : Asks(j, m) => Asks(j, m)'
  BY ResendTokens
<1> QED BY <1>1, <1>6, <1>7, <1>8, BrokenBounded

\* What was adrift is lost when it lands, or does no harm.
LEMMA DropBounded ==
  ASSUME Shapes, Shapes', Bounded, NEW k \in Conn, Drop(k)
  PROVE  Bounded'
<1>1. UNCHANGED <<inUse, call, holds, faults>> /\ request[k] # None /\ ~WaitedFor(k)
  BY DEF Drop, table, history
<1>2. /\ \A j \in Conn : request'[j] = IF j = k THEN None ELSE request[j]
      /\ \A d \in Client : call[d] # None => call[d] \in Conn /\ call[d] # k
  BY DropShapes
<1>3. \A d \in Client, m \in Name : Has(d, m)' <=> Has(d, m)
  BY <1>1, <1>2 DEF Has, Grants
<1>4. \A j \in Conn, m \in Name : Asks(j, m)' <=> Asks(j, m) /\ j # k
  BY <1>2 DEF Asks, Pending
<1>5. Adrift' \subseteq Adrift \ {k}
  BY <1>1, <1>2 DEF Adrift, WaitedFor
<1>6. CASE Pending(k, "$release")
  <2>1. k \in Adrift
    BY <1>1, <1>6 DEF Adrift, Pending, Losing
  <2>2. \A j \in Conn, m \in Name : m # request[k].name /\ Asks(j, m) => Asks(j, m)'
    BY <1>4 DEF Asks
  <2>3. Orphans' \subseteq Orphans \cup {request[k].name}
    BY <1>1, <1>3, <2>2, OrphansIs, OrphansNext
  <2> QED BY <1>1, <1>5, <2>1, <2>3, LandedBounded
<1>7. CASE ~Pending(k, "$release")
  <2>1. \A j \in Conn, m \in Name : Asks(j, m) => Asks(j, m)'
    BY <1>4, <1>7 DEF Asks
  <2>2. Orphans' \subseteq Orphans
    BY <1>1, <1>3, <2>1, OrphansIs, OrphansNext
  <2>3. Adrift' \subseteq Adrift
    BY <1>5
  <2> QED BY <1>1, <2>2, <2>3, NothingBounded
<1> QED BY <1>6, <1>7

LEMMA HandleBounded ==
  ASSUME Shapes, Shapes', Bounded, NEW k \in Conn, Handle(k)
  PROVE  Bounded'
<1>1. PICK r \in Request : Answers(k, r) /\ r.body # None
  BY HandleIs
<1>2. UNCHANGED <<call, holds>> /\ request[k].body = None
  BY HandleIs
<1>3. \A j \in Conn : request'[j] = IF j = k THEN r ELSE request[j]
  BY <1>1, <1>2, AnswersIs
<1>4. \A j \in Conn : WaitedFor(j)' <=> WaitedFor(j)
  BY <1>2 DEF WaitedFor
<1>5. Adrift' \subseteq Adrift \ {k}
  BY <1>1, <1>3, <1>4 DEF Adrift
<1>6. Adrift' \subseteq Adrift
  BY <1>5
<1>7. CASE \E n \in Name \ inUse :
             /\ Grant(n) /\ UNCHANGED history /\ request[k].op \in Acquires
             /\ \A d \in Client, m \in Name :
                  Has(d, m)' <=> Has(d, m) \/ (call[d] = k /\ m = n)
             /\ \A j \in Conn, m \in Name : Asks(j, m)' <=> Asks(j, m)
  <2>1. PICK n \in Name \ inUse :
             /\ Grant(n) /\ UNCHANGED history /\ request[k].op \in Acquires
             /\ \A d \in Client, m \in Name :
                  Has(d, m)' <=> Has(d, m) \/ (call[d] = k /\ m = n)
             /\ \A j \in Conn, m \in Name : Asks(j, m)' <=> Asks(j, m)
    BY <1>7
  <2>2. inUse' = inUse \cup {n} /\ faults' = faults
    BY <2>1 DEF Grant, history
  <2>3. \A m \in Orphans' : m \in Orphans \/ m = n
    BY <2>1, <2>2, OrphansIs, OrphansNext
  <2>4. CASE WaitedFor(k)
    <3>1. \E d \in Client : Has(d, n)'
      BY <2>1, <2>4 DEF WaitedFor
    <3>2. n \notin Orphans'
      BY <3>1, OrphansNext
    <3> QED BY <1>6, <2>2, <2>3, <3>2, NothingBounded
  <2>5. CASE ~WaitedFor(k)
    <3>1. k \in Adrift
      BY <1>1, <1>2, <2>1, <2>5 DEF Adrift, Answers, Losing
    <3>2. Orphans' \subseteq Orphans \cup {n}
      BY <2>3
    <3> QED BY <1>5, <2>2, <3>1, <3>2, LandedBounded
  <2> QED BY <2>4, <2>5
<1>8. CASE /\ \A d \in Client, m \in Name : Has(d, m)' <=> Has(d, m)
           /\ \A j \in Conn, m \in Name : Asks(j, m)' <=> Asks(j, m) /\ j # k
           /\ \/ UNCHANGED <<inUse, history>> /\ request[k].op # "$release"
              \/ HandleRelease(k)
              \/ HandleReset(k)
              \/ HandleError(k)
  <2>1. CASE UNCHANGED <<inUse, history>> /\ request[k].op # "$release"
    <3>1. \A j \in Conn, m \in Name : Asks(j, m) => Asks(j, m)'
      BY <1>8, <2>1 DEF Asks, Pending
    <3>2. Orphans' \subseteq Orphans
      BY <1>8, <2>1, <3>1, OrphansIs, OrphansNext
    <3> QED BY <1>6, <2>1, <3>2, NothingBounded DEF history
  <2>2. CASE HandleRelease(k)
    <3>1. inUse' = inUse \ {request[k].name} /\ faults' = faults
      BY <2>2 DEF HandleRelease, history
    <3>2. \A j \in Conn, m \in Name : m # request[k].name /\ Asks(j, m) => Asks(j, m)'
      BY <1>8 DEF Asks
    <3>3. Orphans' \subseteq Orphans
      BY <1>8, <3>1, <3>2, OrphansIs, OrphansNext
    <3> QED BY <1>6, <3>1, <3>3, NothingBounded
  <2>3. CASE HandleReset(k)
    <3>1. inUse' = {} /\ faults' = faults
      BY <2>3 DEF HandleReset
    <3>2. Orphans' \subseteq Orphans
      BY <3>1, OrphansNext
    <3> QED BY <1>6, <3>1, <3>2, NothingBounded
  <2>4. CASE HandleError(k)
    <3>1. UNCHANGED inUse /\ Fault
      BY <2>4 DEF HandleError, table
    <3>2. \A j \in Conn, m \in Name : m # request[k].name /\ Asks(j, m) => Asks(j, m)'
      BY <1>8 DEF Asks
    <3>3. Orphans' \subseteq Orphans \cup {request[k].name}
      BY <1>8, <3>1, <3>2, OrphansIs, OrphansNext
    <3> QED BY <1>6, <3>1, <3>3, LostBounded
  <2> QED BY <1>8, <2>1, <2>2, <2>3, <2>4
<1> QED BY <1>7, <1>8, HandleTokens

LEMMA StepBounded ==
  ASSUME Shapes, Shapes', Bounded, [Next]_vars
  PROVE  Bounded'
<1>1. ASSUME NEW c \in Client, NEW op \in Op, NEW n \in Name \cup {None}, Get(c, op, n)
      PROVE  Bounded'
  BY <1>1, GetBounded
<1>2. ASSUME NEW c \in Client, Receive(c) \/ Break(c) \/ Resend(c) \/ Crash(c)
      PROVE  Bounded'
  BY <1>2, ReceiveBounded, BreakBounded, ResendBounded
<1>3. ASSUME NEW k \in Conn, Handle(k) \/ Drop(k)
      PROVE  Bounded'
  BY <1>3, HandleBounded, DropBounded
<1>4. ASSUME \/ \E n \in Name : GoStale(n) \/ AutoRelease(n)
             \/ UNCHANGED vars
      PROVE  Bounded'
  <2>1. UNCHANGED <<request, call, holds, faults>> /\ inUse' \subseteq inUse
    BY <1>4 DEF GoStale, AutoRelease, vars, table, history
  <2>2. /\ \A d \in Client, m \in Name : Has(d, m)' <=> Has(d, m)
        /\ \A j \in Conn, m \in Name : Asks(j, m)' <=> Asks(j, m)
    BY <2>1 DEF Has, Asks, Pending, Grants
  <2>3. Orphans' \subseteq Orphans
    BY <2>1, <2>2, OrphansIs, OrphansNext
  <2>4. Adrift' \subseteq Adrift
    BY <2>1 DEF Adrift, WaitedFor
  <2> QED BY <2>1, <2>3, <2>4, NothingBounded
<1> QED BY <1>1, <1>2, <1>3, <1>4 DEF Next

LEMMA InitBounded == Init => Bounded
<1> SUFFICES ASSUME Init PROVE Bounded
  OBVIOUS
<1>1. Orphans = {} /\ Adrift = {} /\ faults = 0
  BY DEF Init, Orphans, Adrift
<1>2. Cardinality({}) = 0
  BY FS_EmptySet
<1> QED BY <1>1, <1>2 DEF Bounded

\* However many clients, connections and faults there are, no more names are lost
\* than there were faults: a retry or a late handler costs no second name.
THEOREM LossesBoundedCorrect == Spec => []LossesBounded
<1>1. Shapes /\ Bounded => LossesBounded
  <2> SUFFICES ASSUME Shapes, Bounded PROVE LossesBounded
    OBVIOUS
  <2>1. faults \in Nat
    BY DEF Shapes, TypeOK
  <2> QED BY <2>1, SetsFinite DEF Bounded, LossesBounded
<1>2. Shapes /\ Bounded /\ [Next]_vars => Shapes' /\ Bounded'
  BY StepShapes, StepBounded
<1>3. Init => Shapes /\ Bounded
  BY InitShapes, InitBounded
<1> QED BY <1>1, <1>2, <1>3, PTL DEF Spec
=============================================================================
