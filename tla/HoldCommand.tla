----------------------------- MODULE HoldCommand -----------------------------
(***************************************************************************)
(* The command line (cmd/name_manager): processes of the "hold" command on *)
(* top of Hold, and the commands "acquire", "keep_alive", "release" and    *)
(* "reset", which are one call each, from other processes.                 *)
(*                                                                         *)
(* Without a command of its own, "hold" prints the name and waits for an   *)
(* interrupt or for the error channel.  With one it runs it, and looks     *)
(* neither at signals nor at the error channel meanwhile.  Many exits do   *)
(* not pass by the release function: an error from the channel, a command  *)
(* that cannot be started or that fails, a signal nobody catches.  A       *)
(* command that runs is a process of its own and may outlive "hold".       *)
(***************************************************************************)
EXTENDS Hold

VARIABLES
  phase,  \* where the action of the "hold" command is, in each process
  orphan  \* history: ticks since a command that still uses the name lost its
          \* "hold", None if there is no such command; without auto-release its
          \* protection does not end with time, and nothing is counted

commandVars == <<vars, phase, orphan>>

\* The longest time between two signs of life of a keeper that does not give up.
Silence == KeepAliveInterval + (Attempts + 1) * Latency

\* How long after the death of a holder its name stays in use at least, when the
\* keeper had not given up: what the silence leaves of the period.
Grace == IF Silence <= AutoReleaseAfter THEN AutoReleaseAfter - Silence ELSE 0

\* Not only without protection in time, but also once somebody has released it.
Unprotected == Grace + 1

Phase == {"none", "printed", "notified", "selecting", "running", "leaving"}

CommandTypeOK ==
  /\ phase \in [Client -> Phase]
  /\ orphan \in [Name -> 0 .. Unprotected \cup {None}]
  /\ \A c \in Client :
       /\ phase[c] = "none" <=> main[c] = "idle"
       /\ phase[c] = "leaving" <=> main[c] \in {"stopping", "releasing"}

CommandInit ==
  /\ Init
  /\ phase = [c \in Client |-> "none"]
  /\ orphan = [n \in Name |-> None]

At(c, p) == phase[c] = p
GoTo(c, p) == phase' = [phase EXCEPT ![c] = p]

\* The protection of an orphan ends when its name is freed under it.
Exposed(names) ==
  [n \in Name |-> IF n \in names /\ orphan[n] # None THEN Unprotected ELSE orphan[n]]

-----------------------------------------------------------------------------
(* The "hold" command. *)

\* It holds a name, and prints it or starts the command it was given.
StartHold(c, n) ==
  /\ At(c, "none")
  /\ Hold(c, n)
  /\ GoTo(c, "printed") \/ GoTo(c, "running")
  /\ UNCHANGED orphan

\* signal.Notify.  Before it an interrupt kills the process; after it, and until
\* the select statement receives from the unbuffered channel, it is dropped.
Notify(c) ==
  /\ At(c, "printed")
  /\ GoTo(c, "notified")
  /\ UNCHANGED <<vars, orphan>>

Select(c) ==
  /\ At(c, "notified")
  /\ GoTo(c, "selecting")
  /\ UNCHANGED <<vars, orphan>>

\* Mutant of LeaveByRelease: the process exits without a call of the release
\* function.
LeaveAtOnce(c) ==
  /\ At(c, "selecting") \/ At(c, "running")
  /\ GoTo(c, "leaving")
  /\ UNCHANGED <<vars, orphan>>

\* An interrupt is received, or the command succeeds: the release function.
LeaveByRelease(c) ==
  /\ At(c, "selecting") \/ At(c, "running")
  /\ CallRelease(c)
  /\ GoTo(c, "leaving")
  /\ UNCHANGED orphan

\* Mutant of SeeError: the error is logged, and the process waits on.
SeeErrorAndStay(c) ==
  /\ At(c, "selecting")
  /\ Receive(c)
  /\ UNCHANGED <<phase, orphan>>

\* An error is received: the process exits, and keeps the name in use.
SeeError(c) ==
  /\ At(c, "selecting")
  /\ errc[c] > 0
  /\ Crash(c)
  /\ GoTo(c, "none")
  /\ UNCHANGED orphan

\* The command cannot be started or ends with another status than 0: the process
\* exits, and keeps the name in use.
CommandFails(c) ==
  /\ At(c, "running")
  /\ Crash(c)
  /\ GoTo(c, "none")
  /\ UNCHANGED orphan

\* Mutant of Killed: the name is released when a signal ends the process.
KilledReleases(c) ==
  /\ ~At(c, "none")
  /\ Forget(c)
  /\ age' = [age EXCEPT ![name[c]] = None]
  /\ GoTo(c, "none")
  /\ \/ UNCHANGED orphan
     \/ /\ At(c, "running")
        /\ orphan' = [orphan EXCEPT ![name[c]] = IF GaveUp(c) THEN Unprotected ELSE 0]
  /\ UNCHANGED <<delayed, misreleased, late>>

\* A signal nobody catches ends the process, wherever it is.  When it was sent to
\* the process alone, or the command ignores it, the command lives on.
Killed(c) ==
  /\ Crash(c)
  /\ GoTo(c, "none")
  /\ \/ UNCHANGED orphan
     \/ /\ At(c, "running")
        /\ orphan' = [orphan EXCEPT ![name[c]] = IF GaveUp(c) THEN Unprotected ELSE 0]

\* Ctrl-C: the process receives it from the channel and releases the name, or is
\* killed by it.  (Between Notify and select the interrupt is dropped.)
Interrupt(c) ==
  \/ At(c, "selecting") /\ LeaveByRelease(c)
  \/ (At(c, "printed") \/ At(c, "running")) /\ Killed(c)

\* The release function goes on.
KeeperGone(c) == Stopped(c) /\ UNCHANGED <<phase, orphan>>

\* It returns, and with or without an error the process ends.
EndHold(c) ==
  /\ Release(c)
  /\ GoTo(c, "none")
  /\ orphan' = IF age' = age THEN orphan ELSE Exposed({name[c]})

KeeperStep(c) == Keeper(c) /\ UNCHANGED <<phase, orphan>>

\* A KeepAlive that failed reaches the server.
LateKeepAlive(n) == Deliver(n) /\ UNCHANGED <<phase, orphan>>

\* A command that outlived its process ends.
OrphanEnds(n) ==
  /\ orphan[n] # None
  /\ orphan' = [orphan EXCEPT ![n] = None]
  /\ UNCHANGED <<vars, phase>>

-----------------------------------------------------------------------------
(* The other commands. *)

held == <<main, name, keeper, trial, clock, stop, errc, told, delayed>>

\* The name is in use, and whoever ran "acquire" has to keep it alive.
AcquireCommand(n) ==
  /\ Grantable(n)
  /\ age' = [age EXCEPT ![n] = 0]
  /\ orphan' = Exposed({n})
  /\ UNCHANGED <<held, phase, misreleased, late>>

KeepAliveCommand(n) ==
  /\ age[n] # None
  /\ age' = [age EXCEPT ![n] = 0]
  /\ UNCHANGED <<held, phase, orphan, misreleased, late>>

ReleaseAll(names) ==
  /\ age' = [n \in Name |-> IF n \in names THEN None ELSE age[n]]
  /\ orphan' = Exposed(names)
  /\ misreleased' = (misreleased \/ \E c \in Client, n \in names : Owns(c, n))
  /\ UNCHANGED <<held, phase, late>>

ReleaseCommand(n) == ReleaseAll({n})

ResetCommand == ReleaseAll(Name)

CommandTick ==
  /\ Tick
  /\ orphan' = [n \in Name |-> IF AutoReleaseAfter > 0 /\ orphan[n] \in 0 .. Grace
                              THEN orphan[n] + 1 ELSE orphan[n]]
  /\ UNCHANGED phase

Process(c) ==
  Notify(c) \/ Select(c) \/ SeeError(c) \/ KeeperGone(c) \/ EndHold(c)

CommandNext ==
  \/ \E c \in Client, n \in Name : StartHold(c, n)
  \/ \E c \in Client :
       \/ Process(c)
       \/ KeeperStep(c)
       \/ LeaveByRelease(c)
       \/ CommandFails(c)
       \/ Interrupt(c)
       \/ Killed(c)
  \/ \E n \in Name :
       \/ LateKeepAlive(n) \/ OrphanEnds(n)
       \/ AcquireCommand(n) \/ KeepAliveCommand(n) \/ ReleaseCommand(n)
  \/ ResetCommand
  \/ CommandTick

CommandSpec == CommandInit /\ [][CommandNext]_commandVars

\* Goroutines run and calls are answered.  No command needs to end, and nobody needs
\* to send a signal.
CommandFairness ==
  \A c \in Client :
    /\ WF_commandVars(Process(c))
    /\ WF_commandVars(KeeperStep(c))

FairCommandSpec == CommandSpec /\ CommandFairness

-----------------------------------------------------------------------------
(* Properties. *)

\* A command that outlives its "hold" (a signal was sent to the latter alone) still
\* has its name to itself for a time, to clean up: nobody is granted it within Grace,
\* and never without auto-release, whatever the keeper was doing when it died.
CleanUpTime ==
  ~late /\ ~misreleased =>
    \A n \in Name : orphan[n] \in 0 .. Grace =>
      ~Grantable(n) /\ \A c \in Client : ~Owns(c, n)

\* A "hold" that waits for an interrupt does not outlive its keeper: when the name
\* can no longer be kept alive the process ends, and its parent sees it.
LossEndsProcess ==
  \A c \in Client :
    GaveUp(c) /\ phase[c] \in {"printed", "notified", "selecting"} ~> At(c, "none")
=============================================================================
