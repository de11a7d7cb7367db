------------------------------ MODULE RestRelay ------------------------------
(***************************************************************************)
(* The REST backend (pkg/rest_backend) and the server (pkg/server) it      *)
(* talks to.  Neither keeps any state: every method of the client is one   *)
(* GET request, every handler is one call to the backend of the server,    *)
(* which is a table of names as in NameManager.  What makes it a system is *)
(* the network.  A request may be lost, its answer may be lost, the HTTP   *)
(* transport may send a GET a second time when the first connection fails, *)
(* and a handler runs whether or not its client still waits.  The client   *)
(* sets no timeout, so a call may also wait for ever.                      *)
(*                                                                         *)
(* One family of names.  The answer to an acquisition is the name itself,  *)
(* other answers are the words the handlers write; "500" is any error.     *)
(*                                                                         *)
(* faults, resent and overtaken are history variables.                     *)
(***************************************************************************)
EXTENDS Naturals, FiniteSets

CONSTANTS
  Client,        \* the clients, one call at a time each
  Name,          \* the names of the family
  Conn,          \* bound: connections, with one request each
  None,          \* the absent value
  AutoReleases,  \* whether the backend of the server releases stale names
  MaxFaults      \* bound: errors, broken connections, deaths

ASSUME AutoReleasesAssumption == AutoReleases \in BOOLEAN
ASSUME MaxFaultsAssumption == MaxFaults \in Nat
ASSUME FiniteAssumption == IsFiniteSet(Conn) /\ IsFiniteSet(Name)

VARIABLES
  registered,  \* the names the backend of the server knows,
  inUse,       \* those of them that are not free,
  stale,       \* and those of these without a sign of life for too long
  request,     \* the request each connection carries, and its answer
  call,        \* the connection each client waits on
  holds,       \* the name each client believes it holds
  faults,      \* history: number of faults so far
  resent,      \* history: a $release was sent twice
  overtaken    \* history: a name was freed, but not by the request of its holder

table == <<registered, inUse, stale>>
history == <<faults, resent, overtaken>>
vars == <<table, request, call, holds, history>>

Op == {"$acquire", "$try_acquire", "$keep_alive", "$release", "$reset"}

\* body is None until the handler has answered.
Request ==
  [op   : Op,
   name : Name \cup {None},
   body : Name \cup {None, "", "OK", "ERR_IN_USE", "ERR_NOT_EXIST", "500"}]

\* An answer is told from a name, and nothing is taken for the absent value.
ASSUME AnswersAssumption ==
  LET Answers == {"", "OK", "ERR_IN_USE", "ERR_NOT_EXIST", "500"}
  IN  Name \cap Answers = {} /\ None \notin Name \cup Answers \cup Conn \cup Request

TypeOK ==
  /\ registered \subseteq Name
  /\ inUse \subseteq registered
  /\ stale \subseteq inUse
  /\ request \in [Conn -> Request \cup {None}]
  /\ call \in [Client -> Conn \cup {None}]
  /\ \A c \in Client : call[c] # None => request[call[c]] # None
  /\ holds \in [Client -> Name \cup {None}]
  /\ faults \in 0 .. MaxFaults
  /\ resent \in BOOLEAN
  /\ overtaken \in BOOLEAN

Init ==
  /\ registered = {} /\ inUse = {} /\ stale = {}
  /\ request = [k \in Conn |-> None]
  /\ call = [c \in Client |-> None]
  /\ holds = [c \in Client |-> None]
  /\ faults = 0 /\ resent = FALSE /\ overtaken = FALSE

Fault == faults < MaxFaults /\ faults' = faults + 1

-----------------------------------------------------------------------------
(* What a request means to somebody. *)

Pending(k, op) == request[k] # None /\ request[k].op = op /\ request[k].body = None

WaitedFor(k) == \E c \in Client : call[c] = k

\* Mutant of Grants: a TryAcquire that gets any answer is granted.
GrantsUnread(r, n) ==
  \/ r.op = "$acquire" /\ r.body = n
  \/ r.op = "$try_acquire" /\ r.name = n /\ r.body \notin {None, "500"}

\* The client that reads this answer takes n for its own: Acquire returns the
\* body, TryAcquire compares it with the two refusals.
Grants(r, n) ==
  \/ r.op = "$acquire" /\ r.body = n
  \/ r.op = "$try_acquire" /\ r.name = n
     /\ r.body \notin {None, "500", "ERR_IN_USE", "ERR_NOT_EXIST"}

\* Somebody has n, is about to be told, or asked for its release.
Wanted(n) ==
  \/ \E c \in Client : holds[c] = n
  \/ \E k \in Conn : request[k] # None /\
       \/ WaitedFor(k) /\ Grants(request[k], n)
       \/ Pending(k, "$release") /\ request[k].name = n

Orphans == {n \in inUse : ~Wanted(n)}

-----------------------------------------------------------------------------
(* The client: the methods of restBackend, all through get. *)

\* The calls the interface lets c make next.  Who releases a name no longer
\* uses it, whatever comes of the call.
MayCall(c, op, n) ==
  \/ op = "$acquire" /\ holds[c] = None /\ n = None
  \/ op = "$try_acquire" /\ holds[c] = None /\ n # None
  \/ op \in {"$keep_alive", "$release"} /\ holds[c] = n /\ n # None
  \/ op = "$reset" /\ n = None

Get(c, op, n) ==
  /\ call[c] = None
  /\ MayCall(c, op, n)
  /\ \E k \in Conn :
       /\ request[k] = None
       /\ request' = [request EXCEPT ![k] = [op |-> op, name |-> n, body |-> None]]
       /\ call' = [call EXCEPT ![c] = k]
  /\ holds' = IF op = "$release" THEN [holds EXCEPT ![c] = None] ELSE holds
  /\ UNCHANGED <<table, history>>

\* The answer arrives and is read to its end.
Receive(c) ==
  /\ call[c] # None
  /\ LET r == request[call[c]]
     IN  /\ r.body # None
         /\ \/ \E n \in Name : Grants(r, n) /\ holds' = [holds EXCEPT ![c] = n]
            \/ (\A n \in Name : ~Grants(r, n)) /\ UNCHANGED holds
  /\ request' = [request EXCEPT ![call[c]] = None]
  /\ call' = [call EXCEPT ![c] = None]
  /\ UNCHANGED <<table, history>>

\* The connection breaks, or the answer cannot be read: get returns an error.
\* What the connection carried goes on without the client.
Break(c) ==
  /\ call[c] # None
  /\ call' = [call EXCEPT ![c] = None]
  /\ Fault
  /\ UNCHANGED <<table, request, holds, resent, overtaken>>

\* The connection breaks, and the transport sends the request again on another
\* one, as it may with a GET.
Resend(c) ==
  /\ call[c] # None
  /\ \E k \in Conn :
       /\ request[k] = None
       /\ request' = [request EXCEPT ![k] = [request[call[c]] EXCEPT !.body = None]]
       /\ call' = [call EXCEPT ![c] = k]
  /\ resent' = (resent \/ request[call[c]].op = "$release")
  /\ Fault
  /\ UNCHANGED <<table, holds, overtaken>>

\* The process of c dies.
Crash(c) ==
  /\ call[c] # None \/ holds[c] # None
  /\ call' = [call EXCEPT ![c] = None]
  /\ holds' = [holds EXCEPT ![c] = None]
  /\ Fault
  /\ UNCHANGED <<table, request, resent, overtaken>>

\* A request nobody waits for does not reach the server, or its answer is dropped.
Drop(k) ==
  /\ request[k] # None
  /\ ~WaitedFor(k)
  /\ request' = [request EXCEPT ![k] = None]
  /\ UNCHANGED <<table, call, holds, history>>

-----------------------------------------------------------------------------
(* The server: one handler per route, each in a goroutine of its own. *)

Respond(k, body) == request' = [request EXCEPT ![k].body = body]

Grant(n) ==
  /\ registered' = registered \cup {n}
  /\ inUse' = inUse \cup {n}
  /\ UNCHANGED stale

HandleAcquire(k) ==
  /\ Pending(k, "$acquire")
  /\ \E n \in Name \ inUse : Grant(n) /\ Respond(k, n)
  /\ UNCHANGED <<call, holds, history>>

\* Mutant of HandleTryAcquire: ErrInUse and success are answered the wrong way
\* round.
HandleTryAcquireAnyway(k) ==
  /\ Pending(k, "$try_acquire")
  /\ LET n == request[k].name
     IN  \/ n \notin registered /\ Respond(k, "ERR_NOT_EXIST") /\ UNCHANGED table
         \/ n \in inUse /\ Respond(k, "OK") /\ UNCHANGED table
         \/ n \in registered \ inUse /\ Respond(k, "ERR_IN_USE") /\ Grant(n)
  /\ UNCHANGED <<call, holds, history>>

HandleTryAcquire(k) ==
  /\ Pending(k, "$try_acquire")
  /\ LET n == request[k].name
     IN  \/ n \notin registered /\ Respond(k, "ERR_NOT_EXIST") /\ UNCHANGED table
         \/ n \in inUse /\ Respond(k, "ERR_IN_USE") /\ UNCHANGED table
         \/ n \in registered \ inUse /\ Respond(k, "OK") /\ Grant(n)
  /\ UNCHANGED <<call, holds, history>>

HandleKeepAlive(k) ==
  /\ Pending(k, "$keep_alive")
  /\ Respond(k, "")
  /\ stale' = stale \ {request[k].name}
  /\ UNCHANGED <<registered, inUse, call, holds, history>>

\* Mutant of HandleRelease: the name is freed, its age is not forgotten.
HandleReleaseStale(k) ==
  /\ Pending(k, "$release")
  /\ Respond(k, "")
  /\ inUse' = inUse \ {request[k].name}
  /\ UNCHANGED <<registered, stale, call, holds, history>>

HandleRelease(k) ==
  /\ Pending(k, "$release")
  /\ Respond(k, "")
  /\ inUse' = inUse \ {request[k].name}
  /\ stale' = stale \ {request[k].name}
  /\ UNCHANGED <<registered, call, holds, history>>

HandleReset(k) ==
  /\ Pending(k, "$reset")
  /\ Respond(k, "")
  /\ registered' = {} /\ inUse' = {} /\ stale' = {}
  /\ overtaken' = (overtaken \/ \E n \in Name : Wanted(n))
  /\ UNCHANGED <<call, holds, faults, resent>>

\* The backend returns an error, and did nothing.
HandleError(k) ==
  /\ request[k] # None
  /\ request[k].body = None
  /\ Respond(k, "500")
  /\ Fault
  /\ UNCHANGED <<table, call, holds, resent, overtaken>>

Handle(k) ==
  \/ HandleAcquire(k)
  \/ HandleTryAcquire(k)
  \/ HandleKeepAlive(k)
  \/ HandleRelease(k)
  \/ HandleReset(k)
  \/ HandleError(k)

\* Nothing but a $keep_alive keeps a name of the server fresh.
GoStale(n) ==
  /\ AutoReleases
  /\ n \in inUse \ stale
  /\ stale' = stale \cup {n}
  /\ UNCHANGED <<registered, inUse, request, call, holds, history>>

AutoRelease(n) ==
  /\ n \in stale
  /\ inUse' = inUse \ {n}
  /\ stale' = stale \ {n}
  /\ overtaken' = (overtaken \/ Wanted(n))
  /\ UNCHANGED <<registered, request, call, holds, faults, resent>>

-----------------------------------------------------------------------------

Next ==
  \/ \E c \in Client, op \in Op, n \in Name \cup {None} : Get(c, op, n)
  \/ \E c \in Client : Receive(c) \/ Break(c) \/ Resend(c) \/ Crash(c)
  \/ \E k \in Conn : Handle(k) \/ Drop(k)
  \/ \E n \in Name : GoStale(n) \/ AutoRelease(n)

Spec == Init /\ [][Next]_vars

-----------------------------------------------------------------------------
(* Properties. *)

\* Two clients of the server never hold the same name, and the server knows of
\* each name held that it is in use: broken connections, errors, deaths, late
\* handlers and requests sent twice do no harm but for one, a $release sent
\* twice, whose second copy may free the name under its next holder.  The other
\* exception is a name swept or reset while somebody still counted on it.
RemoteExclusive ==
  ~resent /\ ~overtaken =>
    \A c \in Client : holds[c] # None =>
      holds[c] \in inUse /\ \A d \in Client \ {c} : holds[d] # holds[c]

\* A name is lost, in use with nobody who knows of it, only to a fault, and every
\* fault loses one name at most: no answer of the server to a client that still
\* waits for it, and no retry, costs a name of its own.
LossesBounded == Cardinality(Orphans) <= faults
=============================================================================
