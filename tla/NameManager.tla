---------------------------- MODULE NameManager ----------------------------
(***************************************************************************)
(* What a backend promises its clients: the NameManager interface of       *)
(* pkg/name_manager/name_manager.go, "with a global lock" on the table of  *)
(* names.                                                                  *)
(*                                                                         *)
(* The table records which names are registered, which of those are in use *)
(* and which of these are stale, without a sign of life for longer than    *)
(* the auto-release period.  A name is granted only while it is not in     *)
(* use.  The only ways for it to stop being in use are a Release of that   *)
(* name, a Reset and, once it is stale, an automatic release.  The table   *)
(* does not know who holds a name: holds is what the clients believe.      *)
(***************************************************************************)
CONSTANTS
  Client,      \* the users of the interface
  Family,      \* the name families
  Name,        \* the names a family can hold
  None,        \* the absent value
  ReusesFirst  \* whether a released name is always preferred to a new one

VARIABLES
  registered,  \* the <<family, name>> pairs List reports
  inUse,       \* those acquired and not released since
  stale,       \* those in use whose last sign of life is too old
  holds        \* the pair each client was granted last, if it still has it

vars == <<registered, inUse, stale, holds>>

Pair == Family \X Name

TypeOK ==
  /\ registered \subseteq Pair
  /\ inUse \subseteq registered
  /\ stale \subseteq inUse
  /\ holds \in [Client -> Pair \cup {None}]

Init ==
  /\ registered = {}
  /\ inUse = {}
  /\ stale = {}
  /\ holds = [c \in Client |-> None]

\* c is granted p; the call may first have released zombies of the family.
Grant(c, p, zombies) ==
  /\ holds[c] = None
  /\ zombies \subseteq stale
  /\ p \notin inUse \ zombies
  /\ registered' = registered \cup {p}
  /\ inUse' = (inUse \ zombies) \cup {p}
  /\ stale' = stale \ (zombies \cup {p})
  /\ holds' = [holds EXCEPT ![c] = p]

\* With ReusesFirst, a new name is only made when every registered one is in
\* use and not stale.
Acquire(c, f) ==
  \E n \in Name : \E zombies \in SUBSET (stale \cap ({f} \X Name)) :
    /\ Grant(c, <<f, n>>, zombies)
    /\ ReusesFirst /\ <<f, n>> \notin registered =>
         registered \cap ({f} \X Name) \subseteq inUse \ zombies

\* TryAcquire only grants a name that was acquired at least once before.
TryAcquire(c, f, n) ==
  /\ <<f, n>> \in registered
  /\ Grant(c, <<f, n>>, {})

KeepAlive(f, n) ==
  /\ stale' = stale \ {<<f, n>>}
  /\ UNCHANGED <<registered, inUse, holds>>

\* Whoever calls Release, the name is free; only the caller knows it.
Release(c, f, n) ==
  /\ inUse' = inUse \ {<<f, n>>}
  /\ stale' = stale \ {<<f, n>>}
  /\ holds' = IF holds[c] = <<f, n>> THEN [holds EXCEPT ![c] = None] ELSE holds
  /\ UNCHANGED registered

\* A client dies with its name.
Crash(c) ==
  /\ holds' = [holds EXCEPT ![c] = None]
  /\ UNCHANGED <<registered, inUse, stale>>

\* Not every backend releases zombies inside the call that grants a name.
AutoRelease ==
  \E zombies \in SUBSET stale :
    /\ inUse' = inUse \ zombies
    /\ stale' = stale \ zombies
    /\ UNCHANGED <<registered, holds>>

Reset ==
  /\ registered' = {}
  /\ inUse' = {}
  /\ stale' = {}
  /\ holds' = [c \in Client |-> None]

\* Time passes: names in use may become stale, none becomes fresh again.
Elapse ==
  /\ stale' \in {s \in SUBSET inUse : stale \subseteq s}
  /\ UNCHANGED <<registered, inUse, holds>>

Next ==
  \/ Elapse
  \/ AutoRelease
  \/ Reset
  \/ \E c \in Client :
       \/ Crash(c)
       \/ \E f \in Family, n \in Name :
            KeepAlive(f, n) \/ Release(c, f, n) \/ TryAcquire(c, f, n)
       \/ \E f \in Family : Acquire(c, f)

Spec == Init /\ [][Next]_vars
=============================================================================
