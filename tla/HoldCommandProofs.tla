------------------------- MODULE HoldCommandProofs -------------------------
(***************************************************************************)
(* The command line, for any processes, names, period, latency and number  *)
(* of attempts that leave the keeper room for its retries: the phase of a  *)
(* "hold" command agrees with its goroutines, a held name stays its        *)
(* holder's beside the other commands, and a command that outlives its     *)
(* process has the name to itself for Grace ticks.                         *)
(***************************************************************************)
EXTENDS HoldCommand, HoldProofs

LEMMA SilenceType == Silence \in Nat
<1>1. (Attempts + 1) * Latency \in Nat
  BY AttemptsAssumption, LatencyAssumption
<1> QED BY <1>1, IntervalType DEF Silence

LEMMA GraceType == Grace \in Nat /\ Unprotected \in Nat /\ Unprotected = Grace + 1
BY SilenceType, AutoReleaseAssumption DEF Grace, Unprotected

-----------------------------------------------------------------------------
(* The steps of the commands that are steps of Hold. *)

\* The commands that touch the table of names without a hold.
Interferes ==
  \/ \E n \in Name : AcquireCommand(n) \/ KeepAliveCommand(n) \/ ReleaseCommand(n)
  \/ ResetCommand

LEMMA InterruptIs ==
  ASSUME NEW c \in Client, Interrupt(c)
  PROVE  LeaveByRelease(c) \/ Killed(c)
BY DEF Interrupt

LEMMA HoldOrInterfere ==
  ASSUME [CommandNext]_commandVars
  PROVE  [Next]_vars \/ Interferes
<1>1. ASSUME NEW c \in Client, NEW n \in Name, StartHold(c, n) PROVE Next
  BY <1>1 DEF StartHold, Next
<1>2. ASSUME NEW c \in Client, Notify(c) \/ Select(c) PROVE UNCHANGED vars
  BY <1>2 DEF Notify, Select
<1>3. ASSUME NEW c \in Client, SeeError(c) \/ CommandFails(c) \/ Killed(c) PROVE Next
  BY <1>3 DEF SeeError, CommandFails, Killed, Next
<1>4. ASSUME NEW c \in Client, KeeperGone(c) \/ EndHold(c) \/ LeaveByRelease(c) PROVE Next
  BY <1>4 DEF KeeperGone, EndHold, LeaveByRelease, Next
<1>5. ASSUME NEW c \in Client, KeeperStep(c) PROVE Next
  BY <1>5 DEF KeeperStep, Next
<1>6. CASE CommandTick
  BY <1>6 DEF CommandTick, Next
<1>7. CASE UNCHANGED commandVars
  BY <1>7 DEF commandVars
<1>8. ASSUME NEW n \in Name, OrphanEnds(n) PROVE UNCHANGED vars
  BY <1>8 DEF OrphanEnds
<1>9. ASSUME NEW n \in Name, LateKeepAlive(n) PROVE Next
  BY <1>9 DEF LateKeepAlive, Next
<1>10. ASSUME NEW c \in Client, Interrupt(c) PROVE Next
  BY <1>3, <1>4, <1>10, InterruptIs
<1> QED BY <1>1, <1>2, <1>3, <1>4, <1>5, <1>6, <1>7, <1>8, <1>9, <1>10
        DEF CommandNext, Process, Interferes

\* What the other commands leave alone, and what they may do to an age.
LEMMA InterferesIs ==
  ASSUME TypeOK, Interferes
  PROVE  /\ UNCHANGED <<main, name, keeper, trial, clock, stop, errc, told, delayed, late, phase>>
         /\ age' \in [Name -> Age \cup {None}]
         /\ misreleased' \in BOOLEAN
         /\ misreleased => misreleased'
         /\ \A n \in Name :
              \/ age'[n] = age[n]
              \/ age'[n] = 0 /\ (Grantable(n) \/ age[n] # None)
              \/ age'[n] = None /\ (misreleased' \/ \A c \in Client : ~Owns(c, n))
<1> USE DEF held
<1>0. misreleased \in BOOLEAN /\ age \in [Name -> Age \cup {None}] /\ 0 \in Age
  <2>1. misreleased \in BOOLEAN
    BY Zenon DEF TypeOK
  <2>2. age \in [Name -> Age \cup {None}] /\ 0 \in Age
    BY AutoReleaseAssumption DEF TypeOK, Age
  <2> QED BY <2>1, <2>2
<1>1. ASSUME NEW n \in Name, AcquireCommand(n) \/ KeepAliveCommand(n)
      PROVE  /\ UNCHANGED <<main, name, keeper, trial, clock, stop, errc, told, delayed, late, phase>>
             /\ UNCHANGED misreleased
             /\ age' = [age EXCEPT ![n] = 0] /\ (Grantable(n) \/ age[n] # None)
  BY <1>1 DEF AcquireCommand, KeepAliveCommand
<1>2. ASSUME NEW S \in SUBSET Name, ReleaseAll(S)
      PROVE  /\ UNCHANGED <<main, name, keeper, trial, clock, stop, errc, told, delayed, late, phase>>
             /\ misreleased' \in BOOLEAN
             /\ misreleased => misreleased'
             /\ \A c \in Client, n \in S : Owns(c, n) => misreleased'
             /\ age' = [n \in Name |-> IF n \in S THEN None ELSE age[n]]
  <2>1. misreleased' = (misreleased \/ \E c \in Client, n \in S : Owns(c, n))
    BY <1>2 DEF ReleaseAll
  <2>2. misreleased' \in BOOLEAN /\ (misreleased => misreleased')
    BY <2>1, Zenon
  <2>3. \A c \in Client, n \in S : Owns(c, n) => misreleased'
    BY <2>1, Zenon
  <2> QED BY <1>2, <2>2, <2>3 DEF ReleaseAll
<1>3. CASE \E n \in Name : AcquireCommand(n) \/ KeepAliveCommand(n)
  <2>1. PICK n \in Name : AcquireCommand(n) \/ KeepAliveCommand(n)
    BY <1>3
  <2> QED BY <1>0, <1>1, <2>1
<1>4. CASE \E S \in SUBSET Name : ReleaseAll(S)
  <2>1. PICK S \in SUBSET Name : ReleaseAll(S)
    BY <1>4
  <2>2. /\ UNCHANGED <<main, name, keeper, trial, clock, stop, errc, told, delayed, late, phase>>
        /\ misreleased' \in BOOLEAN
        /\ misreleased => misreleased'
        /\ \A c \in Client, n \in S : Owns(c, n) => misreleased'
        /\ age' = [n \in Name |-> IF n \in S THEN None ELSE age[n]]
    BY <1>2, <2>1
  <2> QED BY <1>0, <2>2
<1> QED BY <1>3, <1>4 DEF Interferes, ReleaseCommand, ResetCommand

LEMMA CommandHoldTypes ==
  ASSUME TypeOK, Shapes, [CommandNext]_commandVars
  PROVE  TypeOK' /\ Shapes'
<1>1. CASE [Next]_vars
  BY <1>1, TypeStep, ShapesStep
<1>2. CASE Interferes
  <2>1. TypeOK'
    BY <1>2, InterferesIs DEF TypeOK
  <2>2. Shapes'
    BY <1>2, InterferesIs, OtherShape DEF Shapes
  <2> QED BY <2>1, <2>2
<1> QED BY <1>1, <1>2, HoldOrInterfere

-----------------------------------------------------------------------------
(* Types and phases.                                                       *)

\* What is left to say of a process whose phase and goroutine do not change.
Phased(c) ==
  /\ phase[c] = "none" <=> main[c] = "idle"
  /\ phase[c] = "leaving" <=> main[c] \in {"stopping", "releasing"}

LEMMA PhaseStep ==
  ASSUME TypeOK, CommandTypeOK, [CommandNext]_commandVars
  PROVE  phase' \in [Client -> Phase] /\ \A c \in Client : Phased(c)'
<1>0. phase \in [Client -> Phase] /\ main \in [Client -> {"idle", "holding", "stopping", "releasing"}]
      /\ \A c \in Client : Phased(c)
  BY DEF CommandTypeOK, TypeOK, Phased
<1>1. ASSUME UNCHANGED phase, UNCHANGED main
      PROVE  phase' \in [Client -> Phase] /\ \A c \in Client : Phased(c)'
  BY <1>0, <1>1 DEF Phased
<1>2. ASSUME NEW c \in Client, NEW p \in Phase, NEW m \in {"idle", "holding", "stopping", "releasing"},
             GoTo(c, p), main' = [main EXCEPT ![c] = m],
             p = "none" <=> m = "idle",
             p = "leaving" <=> m \in {"stopping", "releasing"}
      PROVE  phase' \in [Client -> Phase] /\ \A d \in Client : Phased(d)'
  BY <1>0, <1>2 DEF GoTo, Phased
<1>3. ASSUME NEW c \in Client, NEW n \in Name, StartHold(c, n)
      PROVE  phase' \in [Client -> Phase] /\ \A d \in Client : Phased(d)'
  BY <1>2, <1>3 DEF StartHold, Hold, Phase
<1>4. ASSUME NEW c \in Client, Notify(c) \/ Select(c)
      PROVE  phase' \in [Client -> Phase] /\ \A d \in Client : Phased(d)'
  BY <1>0, <1>4 DEF Notify, Select, GoTo, At, Phase, Phased, vars
<1>5. ASSUME NEW c \in Client, LeaveByRelease(c)
      PROVE  phase' \in [Client -> Phase] /\ \A d \in Client : Phased(d)'
  BY <1>2, <1>5 DEF LeaveByRelease, CallRelease, Phase
<1>6. ASSUME NEW c \in Client, SeeError(c) \/ CommandFails(c) \/ Killed(c) \/ EndHold(c)
      PROVE  phase' \in [Client -> Phase] /\ \A d \in Client : Phased(d)'
  BY <1>2, <1>6 DEF SeeError, CommandFails, Killed, EndHold, Crash, Release, Forget, Phase
<1>7. ASSUME NEW c \in Client, KeeperGone(c)
      PROVE  phase' \in [Client -> Phase] /\ \A d \in Client : Phased(d)'
  BY <1>0, <1>7 DEF KeeperGone, Stopped, Phased
<1>8. ASSUME NEW c \in Client, KeeperStep(c)
      PROVE  UNCHANGED <<phase, main>>
  BY <1>8 DEF KeeperStep, Keeper, SeeStop, Fire, Apply, Answer, Fail, Send
<1>9. CASE Interferes
  BY <1>1, <1>9, InterferesIs
<1>10. ASSUME CommandTick \/ UNCHANGED commandVars \/ \E n \in Name : OrphanEnds(n) \/ LateKeepAlive(n)
       PROVE  UNCHANGED <<phase, main>>
  BY <1>10 DEF CommandTick, Tick, commandVars, vars, OrphanEnds, LateKeepAlive, Deliver
<1>11. ASSUME NEW c \in Client, Interrupt(c)
       PROVE  phase' \in [Client -> Phase] /\ \A d \in Client : Phased(d)'
  BY <1>5, <1>6, <1>11, InterruptIs
<1> QED BY <1>1, <1>3, <1>4, <1>5, <1>6, <1>7, <1>8, <1>9, <1>10, <1>11
        DEF CommandNext, Process, Interferes

LEMMA ExposedIs ==
  ASSUME orphan \in [Name -> 0 .. Unprotected \cup {None}], NEW names
  PROVE  /\ Exposed(names) \in [Name -> 0 .. Unprotected \cup {None}]
         /\ \A n \in Name :
              /\ Exposed(names)[n] \in {orphan[n], Unprotected}
              /\ n \in names => Exposed(names)[n] \in {None, Unprotected}
BY GraceType DEF Exposed

LEMMA OrphanType ==
  ASSUME TypeOK, Shapes, orphan \in [Name -> 0 .. Unprotected \cup {None}],
         [CommandNext]_commandVars
  PROVE  orphan' \in [Name -> 0 .. Unprotected \cup {None}]
<1> USE GraceType
<1>1. ASSUME NEW c \in Client, NEW n \in Name, StartHold(c, n)
      PROVE  UNCHANGED orphan
  BY <1>1 DEF StartHold
<1>2. ASSUME NEW c \in Client,
             \/ Notify(c) \/ Select(c) \/ SeeError(c) \/ KeeperGone(c) \/ KeeperStep(c)
             \/ LeaveByRelease(c) \/ CommandFails(c)
      PROVE  UNCHANGED orphan
  BY <1>2 DEF Notify, Select, SeeError, KeeperGone, KeeperStep, LeaveByRelease, CommandFails
<1>3. ASSUME NEW c \in Client, Killed(c)
      PROVE  orphan' \in [Name -> 0 .. Unprotected \cup {None}]
  BY <1>3 DEF Killed
<1>4. ASSUME NEW c \in Client, EndHold(c)
      PROVE  orphan' \in [Name -> 0 .. Unprotected \cup {None}]
  BY <1>4, ExposedIs DEF EndHold
<1>5. ASSUME NEW n \in Name,
             OrphanEnds(n) \/ AcquireCommand(n) \/ KeepAliveCommand(n) \/ ReleaseCommand(n)
      PROVE  orphan' \in [Name -> 0 .. Unprotected \cup {None}]
  BY <1>5, ExposedIs DEF OrphanEnds, AcquireCommand, KeepAliveCommand, ReleaseCommand, ReleaseAll
<1>6. CASE ResetCommand
  BY <1>6, ExposedIs DEF ResetCommand, ReleaseAll
<1>7. CASE CommandTick
  <2>1. \A n \in Name :
          (IF AutoReleaseAfter > 0 /\ orphan[n] \in 0 .. Grace THEN orphan[n] + 1 ELSE orphan[n])
            \in 0 .. Unprotected \cup {None}
    OBVIOUS
  <2> QED BY <1>7, <2>1 DEF CommandTick
<1>8. CASE UNCHANGED commandVars
  BY <1>8 DEF commandVars
<1>9. ASSUME NEW n \in Name, LateKeepAlive(n) PROVE UNCHANGED orphan
  BY <1>9 DEF LateKeepAlive
<1>10. ASSUME NEW c \in Client, Interrupt(c)
       PROVE  orphan' \in [Name -> 0 .. Unprotected \cup {None}]
  BY <1>2, <1>3, <1>10, InterruptIs
<1> QED BY <1>1, <1>2, <1>3, <1>4, <1>5, <1>6, <1>7, <1>8, <1>9, <1>10 DEF CommandNext, Process

CommandTypes == TypeOK /\ Shapes /\ CommandTypeOK

LEMMA CommandTypesStep == CommandTypes /\ [CommandNext]_commandVars => CommandTypes'
<1> SUFFICES ASSUME TypeOK, Shapes, CommandTypeOK, [CommandNext]_commandVars
             PROVE  CommandTypes'
  BY DEF CommandTypes
<1>1. phase' \in [Client -> Phase] /\ \A c \in Client : Phased(c)'
  BY PhaseStep
<1>2. orphan' \in [Name -> 0 .. Unprotected \cup {None}]
  BY OrphanType DEF CommandTypeOK
<1>3. CommandTypeOK'
  BY <1>1, <1>2 DEF CommandTypeOK, Phased, Unprotected, Grace, Silence, KeepAliveInterval
<1> QED BY <1>3, CommandHoldTypes DEF CommandTypes

LEMMA CommandTypesInit == CommandInit => CommandTypes
<1> SUFFICES ASSUME CommandInit PROVE CommandTypes
  OBVIOUS
<1>1. TypeOK
  BY TypeInit DEF CommandInit
<1>2. Shapes
  BY DEF CommandInit, Init, Shapes, Shape
<1>3. CommandTypeOK
  BY DEF CommandInit, Init, CommandTypeOK, Phase
<1> QED BY <1>1, <1>2, <1>3 DEF CommandTypes

\* The variables keep their types, and in every process the phase of the command
\* says where the goroutine of its hold is.
THEOREM CommandTypeCorrect == CommandSpec => []CommandTypeOK
<1>1. CommandTypes => CommandTypeOK
  BY DEF CommandTypes
<1> QED BY <1>1, CommandTypesInit, CommandTypesStep, PTL DEF CommandSpec

-----------------------------------------------------------------------------
(* Names held, beside the other commands.                                  *)

LEMMA CommandHeldStep ==
  Margin /\ CommandTypes /\ HeldInv /\ [CommandNext]_commandVars => HeldInv'
<1> SUFFICES ASSUME Margin, CommandTypes, HeldInv, [CommandNext]_commandVars
             PROVE  HeldInv'
  OBVIOUS
<1>1. TypeOK /\ Shapes /\ TypeOK'
  BY CommandHoldTypes DEF CommandTypes
<1>2. CASE [Next]_vars
  BY <1>1, <1>2, HeldStep DEF IInv
<1>3. CASE Interferes
  <2> SUFFICES ASSUME ~misreleased', ~late', NEW c \in Client, NEW n \in Name, Owns(c, n)'
               PROVE  Kept(c, n)'
    BY DEF HeldInv
  <2>1. /\ UNCHANGED <<main, name, keeper, trial, clock, stop, errc, told, late>>
        /\ misreleased => misreleased'
        /\ \/ age'[n] = age[n]
           \/ age'[n] = 0
           \/ age'[n] = None /\ (misreleased' \/ \A d \in Client : ~Owns(d, n))
    BY <1>1, <1>3, InterferesIs
  <2>2. ~misreleased /\ ~late /\ \A d \in Client : Owns(d, n)' <=> Owns(d, n)
    BY <2>1 DEF Owns, GaveUp
  <2>3. Owns(c, n) /\ Kept(c, n)
    BY <2>2 DEF HeldInv
  <2>4. CASE age'[n] = age[n]
    BY <2>1, <2>2, <2>3, <2>4, StaysKept
  <2>5. CASE age'[n] = 0
    BY <1>1, <2>1, <2>3, <2>5, FresherKept
  <2> QED BY <2>1, <2>3, <2>4, <2>5
<1> QED BY <1>2, <1>3, HoldOrInterfere

-----------------------------------------------------------------------------
(* Names of commands that outlived their process.                          *)

\* With the margin the silence and the grace make up the period.
LEMMA GraceIsRest ==
  ASSUME Margin, AutoReleaseAfter > 0
  PROVE  Silence + Grace = AutoReleaseAfter
BY SilenceType, AutoReleaseAssumption DEF Margin, Silence, Grace

\* The name is in use, nobody owns it, and it is not older than the silence of its
\* keeper and the time since the death.
Cared(n) ==
  /\ age[n] # None
  /\ AutoReleaseAfter > 0 => age[n] <= Silence + orphan[n]
  /\ \A c \in Client : ~Owns(c, n)

OrphanInv == ~late /\ ~misreleased => \A n \in Name : orphan[n] \in 0 .. Grace => Cared(n)

CommandInv == CommandTypes /\ HeldInv /\ OrphanInv

LEMMA CaredNotGrantable ==
  ASSUME Margin, TypeOK, NEW n \in Name, orphan[n] \in 0 .. Grace, Cared(n)
  PROVE  ~Grantable(n)
<1>1. age[n] \in Nat
  BY DEF Cared, TypeOK, Age
<1>2. CASE AutoReleaseAfter > 0
  BY <1>1, <1>2, SilenceType, GraceType, GraceIsRest, AutoReleaseAssumption DEF Cared, Grantable
<1>3. CASE ~(AutoReleaseAfter > 0)
  BY <1>3 DEF Cared, Grantable
<1> QED BY <1>2, <1>3

\* When a process dies while its command runs, its keeper has been silent for no
\* longer than that.
LEMMA RunningSilence ==
  ASSUME Margin, CommandTypes, NEW c \in Client, NEW n \in Name, At(c, "running"),
         Owns(c, n), Kept(c, n), AutoReleaseAfter > 0
  PROVE  age[n] <= Silence
<1>1. /\ age[n] \in Nat /\ clock[c] \in Nat /\ trial[c] \in 1 .. Attempts
      /\ main[c] = "holding"
  BY DEF Kept, CommandTypes, TypeOK, Age, Clock, CommandTypeOK, At, Phase
<1>2. keeper[c] \in {"waiting", "calling", "applied"} /\ Fresh(c, age[n])
  BY <1>1 DEF Kept, Owns, GaveUp, CommandTypes, Shapes, Shape, Margin, TypeOK
<1> DEFINE t == trial[c] - 1
           most == Attempts - 1
<1>3. t \in Nat /\ most \in Nat /\ t <= most
  BY <1>1, AttemptsAssumption
<1>4. t * Latency <= most * Latency /\ t * Latency \in Nat /\ most * Latency \in Nat
  BY <1>3, ProductMonotone
<1>5. (Attempts + 1) * Latency = most * Latency + Latency + Latency
  <2>1. (most + 1) * Latency = most * Latency + Latency
    BY <1>3, ProductNext
  <2>2. (Attempts + 1) * Latency = Attempts * Latency + Latency
    BY AttemptsAssumption, ProductNext
  <2> QED BY <2>1, <2>2, AttemptsAssumption
<1>6. CASE keeper[c] = "calling"
  <2>1. age[n] <= Latency + KeepAliveInterval + t * Latency + clock[c] /\ clock[c] <= Latency
    BY <1>2, <1>6 DEF Fresh
  <2> HIDE DEF t, most
  <2> QED BY <2>1, <1>1, <1>4, <1>5, IntervalType, LatencyAssumption DEF Silence
<1>7. CASE keeper[c] \in {"waiting", "applied"}
  <2>1. age[n] <= Latency + KeepAliveInterval \/ age[n] <= Latency
    BY <1>1, <1>2, <1>7, LatencyAssumption, IntervalType DEF Fresh
  <2> HIDE DEF t, most
  <2> QED BY <2>1, <1>1, <1>4, <1>5, IntervalType, LatencyAssumption DEF Silence
<1> QED BY <1>2, <1>6, <1>7

\* What went wrong once is not forgotten.
LEMMA HistoryStays ==
  ASSUME TypeOK, [CommandNext]_commandVars
  PROVE  (late => late') /\ (misreleased => misreleased')
<1>1. ASSUME NEW c \in Client, Release(c) PROVE late' = late /\ (misreleased => misreleased')
  <2>1. CASE UNCHANGED <<age, misreleased>>
    BY <1>1, <2>1 DEF Release
  <2>2. CASE misreleased' = (misreleased \/ \E d \in Client \ {c} : Owns(d, name[c]))
    BY <1>1, <2>2, Zenon DEF Release
  <2> QED BY <1>1, <2>1, <2>2 DEF Release
<1>2. ASSUME NEW c \in Client, Keeper(c) PROVE UNCHANGED <<late, misreleased>>
  BY <1>2 DEF Keeper, SeeStop, Fire, Apply, Answer, Fail, Send
<1>3. ASSUME NEW c \in Client, NEW n \in Name, Hold(c, n) PROVE UNCHANGED <<late, misreleased>>
  BY <1>3 DEF Hold
<1>4. ASSUME NEW c \in Client, Receive(c) \/ CallRelease(c) \/ Stopped(c) \/ Crash(c)
      PROVE  UNCHANGED <<late, misreleased>>
  BY <1>4 DEF Receive, CallRelease, Stopped, Crash
<1>5. CASE Tick
  <2>1. late => late'
    BY <1>5, Zenon DEF Tick
  <2>2. UNCHANGED misreleased
    BY <1>5 DEF Tick
  <2> QED BY <2>1, <2>2
<1>6. (UNCHANGED vars) \/ (\E n \in Name : Deliver(n)) => UNCHANGED <<late, misreleased>>
  BY DEF vars, Deliver
<1>7. CASE [Next]_vars
  BY <1>1, <1>2, <1>3, <1>4, <1>5, <1>6, <1>7 DEF Next
<1>8. CASE Interferes
  BY <1>8, InterferesIs
<1> QED BY <1>7, <1>8, HoldOrInterfere

\* Neither older, nor owned by anybody new.
LEMMA StaysCared ==
  ASSUME TypeOK, NEW n \in Name, Cared(n), orphan[n] \in 0 .. Grace,
         orphan'[n] = orphan[n], age'[n] # None, age'[n] = age[n] \/ age'[n] = 0,
         \A c \in Client : Owns(c, n)' => Owns(c, n)
  PROVE  Cared(n)'
<1>1. Silence' = Silence
  BY DEF Silence, KeepAliveInterval
<1>2. age[n] \in Nat /\ Silence \in Nat /\ orphan[n] \in Nat
  BY SilenceType, GraceType DEF Cared, TypeOK, Age
<1>3. AutoReleaseAfter > 0 => age'[n] <= Silence + orphan'[n]
  BY <1>2 DEF Cared
<1> QED BY <1>1, <1>3 DEF Cared

LEMMA OrphanStep ==
  Margin /\ CommandInv /\ [CommandNext]_commandVars => OrphanInv'
<1> SUFFICES ASSUME Margin, CommandTypes, HeldInv, OrphanInv, [CommandNext]_commandVars,
                    ~late', ~misreleased', NEW n \in Name, orphan'[n] \in 0 .. Grace
             PROVE  Cared(n)'
  BY DEF CommandInv, OrphanInv, Grace, Silence, KeepAliveInterval
<1> USE GraceType
<1>0. /\ TypeOK /\ Shapes /\ ~late /\ ~misreleased
      /\ orphan \in [Name -> 0 .. Unprotected \cup {None}]
  BY HistoryStays DEF CommandTypes, CommandTypeOK
<1>c. orphan[n] \in 0 .. Grace => Cared(n)
  BY <1>0 DEF OrphanInv
<1>x. Unprotected \notin 0 .. Grace /\ None \notin 0 .. Grace
  BY NoneAssumption
<1>1. ASSUME NEW c \in Client, NEW m \in Name, StartHold(c, m) PROVE Cared(n)'
  <2>1. Hold(c, m) /\ orphan' = orphan
    BY <1>1 DEF StartHold
  <2>2. Cared(n) /\ n # m
    BY <1>0, <1>c, <2>1, CaredNotGrantable DEF Hold
  <2>3. age'[n] = age[n] /\ \A d \in Client : Owns(d, n)' => Owns(d, n)
    BY <1>0, <2>1, <2>2 DEF Hold, Owns, GaveUp, TypeOK
  <2>4. age'[n] # None
    BY <2>2, <2>3 DEF Cared
  <2> QED BY <1>0, <2>1, <2>2, <2>3, <2>4, StaysCared
<1>2. ASSUME Interferes, NEW S \in SUBSET Name, orphan' = Exposed(S),
             \A m \in Name \ S : age'[m] = age[m]
      PROVE  Cared(n)'
  <2>1. orphan'[n] = orphan[n] /\ Cared(n)
    BY <1>0, <1>c, <1>x, <1>2, ExposedIs
  <2>2. UNCHANGED <<main, name, keeper, errc, told>>
    BY <1>0, <1>2, InterferesIs
  <2>3. \A d \in Client : Owns(d, n)' => Owns(d, n)
    BY <2>2 DEF Owns, GaveUp
  <2>4. age'[n] # None /\ age'[n] = age[n]
    BY <1>0, <1>x, <1>2, <2>1, ExposedIs DEF Cared
  <2> QED BY <1>0, <2>1, <2>3, <2>4, StaysCared
<1>3. ASSUME NEW m \in Name,
             AcquireCommand(m) \/ KeepAliveCommand(m) \/ ReleaseCommand(m) \/ ResetCommand
      PROVE  Cared(n)'
  <2>1. CASE AcquireCommand(m)
    <3>1. /\ orphan' = Exposed({m}) /\ {m} \in SUBSET Name
          /\ \A l \in Name \ {m} : age'[l] = age[l]
      BY <1>0, <2>1 DEF AcquireCommand, TypeOK
    <3>2. Interferes
      BY <2>1 DEF Interferes
    <3> QED BY <1>2, <3>1, <3>2
  <2>2. ASSUME NEW S \in SUBSET Name, ReleaseAll(S), Interferes
        PROVE  Cared(n)'
    <3>1. orphan' = Exposed(S) /\ \A l \in Name \ S : age'[l] = age[l]
      BY <2>2 DEF ReleaseAll
    <3> QED BY <1>2, <2>2, <3>1
  <2>3. CASE KeepAliveCommand(m)
    <3>1. /\ UNCHANGED <<orphan, name, keeper, errc, told>>
          /\ age'[n] = age[n] \/ age'[n] = 0
      BY <1>0, <2>3 DEF KeepAliveCommand, held, TypeOK
    <3>2. Cared(n) /\ age'[n] # None
      BY <1>c, <3>1, NoneAssumption DEF Cared
    <3>3. \A d \in Client : Owns(d, n)' => Owns(d, n)
      BY <3>1 DEF Owns, GaveUp
    <3> QED BY <1>0, <3>1, <3>2, <3>3, StaysCared
  <2>4. CASE ReleaseCommand(m)
    <3>1. ReleaseAll({m}) /\ {m} \in SUBSET Name /\ Interferes
      BY <2>4 DEF ReleaseCommand, Interferes
    <3> QED BY <2>2, <3>1
  <2>5. CASE ResetCommand
    <3>1. ReleaseAll(Name) /\ Name \in SUBSET Name /\ Interferes
      BY <2>5 DEF ResetCommand, Interferes
    <3> QED BY <2>2, <3>1
  <2> QED BY <1>3, <2>1, <2>3, <2>4, <2>5
<1>4. ASSUME NEW c \in Client, Killed(c) PROVE Cared(n)'
  <2>1. /\ Crash(c) /\ age' = age
        /\ \A d \in Client : Owns(d, n)' => d # c /\ Owns(d, n)
    BY <1>0, <1>4, NoneAssumption DEF Killed, Crash, Forget, Owns, GaveUp, TypeOK
  <2>2. CASE orphan'[n] = orphan[n]
    <3>1. Cared(n) /\ age'[n] # None
      BY <1>c, <2>1, <2>2 DEF Cared
    <3> QED BY <1>0, <2>1, <2>2, <3>1, StaysCared
  <2>3. CASE orphan'[n] # orphan[n]
    <3>1. /\ At(c, "running") /\ n = name[c] /\ ~GaveUp(c) /\ orphan'[n] = 0
      BY <1>0, <1>4, <1>x, <2>3 DEF Killed
    <3>2. Owns(c, n) /\ Kept(c, n)
      BY <1>0, <3>1 DEF Owns, HeldInv
    <3>3. AutoReleaseAfter > 0 => age[n] <= Silence
      BY <3>1, <3>2, RunningSilence
    <3>4. Silence' = Silence /\ Silence + 0 = Silence
      BY SilenceType DEF Silence, KeepAliveInterval
    <3> QED BY <2>1, <3>1, <3>2, <3>3, <3>4 DEF Cared, Kept
  <2> QED BY <2>2, <2>3
<1>5. ASSUME NEW c \in Client, EndHold(c) PROVE Cared(n)'
  <2>1. orphan'[n] = orphan[n] /\ Cared(n)
    BY <1>0, <1>c, <1>x, <1>5, ExposedIs DEF EndHold
  <2>2. age'[n] = age[n]
    <3>1. CASE age' = age
      BY <3>1
    <3>2. CASE age' # age
      <4>1. orphan' = Exposed({name[c]}) /\ age' = [age EXCEPT ![name[c]] = None]
        BY <1>5, <3>2 DEF EndHold, Release
      <4>2. n # name[c]
        BY <1>0, <1>x, <4>1, ExposedIs
      <4> QED BY <1>0, <4>1, <4>2 DEF TypeOK
    <3> QED BY <3>1, <3>2
  <2>3. \A d \in Client : Owns(d, n)' => Owns(d, n)
    BY <1>0, <1>5, NoneAssumption DEF EndHold, Release, Forget, Owns, GaveUp, TypeOK
  <2>4. age'[n] # None
    BY <2>1, <2>2 DEF Cared
  <2> QED BY <1>0, <2>1, <2>2, <2>3, <2>4, StaysCared
<1>6. ASSUME NEW c \in Client, KeeperStep(c) PROVE Cared(n)'
  <2>1. orphan' = orphan /\ Keeper(c) /\ Cared(n)
    BY <1>6, <1>c DEF KeeperStep
  <2>2. age'[n] # None /\ (age'[n] = age[n] \/ age'[n] = 0)
    BY <1>0, <2>1, NoneAssumption
       DEF Cared, Keeper, SeeStop, Fire, Apply, Answer, Fail, Send, TypeOK
  <2>3. \A d \in Client : ~Hold(d, n)
    BY <1>0, <2>1, CaredNotGrantable DEF Hold
  <2>4. \A d \in Client : Owns(d, n)' => Owns(d, n)
    BY <1>0, <2>1, <2>3, OwnersOnlyByHold DEF Next
  <2> QED BY <1>0, <2>1, <2>2, <2>4, StaysCared
<1>7. ASSUME NEW c \in Client,
             \/ Notify(c) \/ Select(c) \/ SeeError(c) \/ KeeperGone(c)
             \/ LeaveByRelease(c) \/ CommandFails(c)
      PROVE  Cared(n)'
  <2>1. orphan' = orphan /\ age' = age /\ Cared(n)
    BY <1>7, <1>c DEF Notify, Select, SeeError, KeeperGone, LeaveByRelease, CommandFails,
                      Crash, Stopped, CallRelease, vars
  <2>2. \A d \in Client : Owns(d, n)' => Owns(d, n)
    BY <1>0, <1>7, NoneAssumption
       DEF Notify, Select, SeeError, KeeperGone, LeaveByRelease, CommandFails, Crash, Forget,
           Stopped, CallRelease, vars, Owns, GaveUp, TypeOK
  <2>3. age'[n] # None
    BY <2>1 DEF Cared
  <2> QED BY <1>0, <2>1, <2>2, <2>3, StaysCared
<1>8. CASE CommandTick
  <2>1. /\ orphan'[n] = IF AutoReleaseAfter > 0 /\ orphan[n] \in 0 .. Grace
                         THEN orphan[n] + 1 ELSE orphan[n]
        /\ age'[n] = IF age[n] = None \/ age[n] > AutoReleaseAfter THEN age[n] ELSE age[n] + 1
        /\ UNCHANGED <<name, keeper, errc, told>>
    BY <1>8 DEF CommandTick, Tick
  <2>2. orphan[n] \in 0 .. Grace /\ (AutoReleaseAfter > 0 => orphan'[n] = orphan[n] + 1)
    BY <2>1
  <2>3. Cared(n) /\ age[n] \in Nat /\ age[n] # None /\ Silence \in Nat
    BY <1>0, <1>c, <2>2, SilenceType DEF Cared, TypeOK, Age
  <2>4. age'[n] \in Nat /\ age'[n] # None /\ age'[n] <= age[n] + 1
    BY <2>1, <2>3, NoneAssumption
  <2>5. AutoReleaseAfter > 0 => age'[n] <= Silence + orphan'[n]
    BY <2>2, <2>3, <2>4 DEF Cared
  <2>6. Silence' = Silence /\ \A d \in Client : Owns(d, n)' <=> Owns(d, n)
    BY <2>1 DEF Silence, KeepAliveInterval, Owns, GaveUp
  <2> QED BY <2>3, <2>4, <2>5, <2>6 DEF Cared
<1>9. ASSUME (\E m \in Name : OrphanEnds(m)) \/ UNCHANGED commandVars
      PROVE  Cared(n)'
  <2>1. UNCHANGED vars /\ orphan'[n] = orphan[n]
    BY <1>0, <1>x, <1>9 DEF OrphanEnds, commandVars
  <2>2. UNCHANGED <<name, keeper, errc, told, age>>
    BY <2>1 DEF vars
  <2>3. Cared(n) /\ age'[n] = age[n] /\ age'[n] # None
    BY <1>c, <2>1, <2>2 DEF Cared
  <2>4. \A d \in Client : Owns(d, n)' => Owns(d, n)
    BY <2>2 DEF Owns, GaveUp
  <2> QED BY <1>0, <2>1, <2>3, <2>4, StaysCared
<1>10. ASSUME NEW m \in Name, LateKeepAlive(m) PROVE Cared(n)'
  <2>1. /\ UNCHANGED <<orphan, name, keeper, errc, told>>
        /\ age'[n] = age[n] \/ (age[n] # None /\ age'[n] = 0)
    BY <1>0, <1>10 DEF LateKeepAlive, Deliver, TypeOK
  <2>2. Cared(n) /\ age'[n] # None
    BY <1>c, <2>1, NoneAssumption DEF Cared
  <2>3. \A d \in Client : Owns(d, n)' => Owns(d, n)
    BY <2>1 DEF Owns, GaveUp
  <2> QED BY <1>0, <2>1, <2>2, <2>3, StaysCared
<1>11. ASSUME NEW c \in Client, Interrupt(c) PROVE Cared(n)'
  BY <1>4, <1>7, <1>11, InterruptIs
<1> QED BY <1>1, <1>3, <1>4, <1>5, <1>6, <1>7, <1>8, <1>9, <1>10, <1>11 DEF CommandNext, Process

LEMMA CommandInvariant ==
  ASSUME Margin
  PROVE  CommandSpec => []CommandInv
<1>1. CommandInit => CommandInv
  <2> SUFFICES ASSUME CommandInit PROVE CommandInv
    OBVIOUS
  <2>1. HeldInv
    BY NoneAssumption DEF CommandInit, Init, HeldInv, Owns
  <2>2. OrphanInv
    BY NoneAssumption, GraceType DEF CommandInit, OrphanInv
  <2> QED BY <2>1, <2>2, CommandTypesInit DEF CommandInv
<1>2. CommandInv /\ [CommandNext]_commandVars => CommandInv'
  BY CommandTypesStep, CommandHeldStep, OrphanStep DEF CommandInv
<1> QED BY <1>1, <1>2, PTL DEF CommandSpec

\* A command that outlives its "hold" has its name to itself for Grace ticks: in any
\* state of the keeper when the process died, in any retry, and whatever the other
\* commands do, unless one releases a name another process holds.
THEOREM CleanUpTimeCorrect ==
  ASSUME Margin
  PROVE  CommandSpec => []CleanUpTime
<1>1. CommandInv => CleanUpTime
  BY CaredNotGrantable DEF CommandInv, CommandTypes, OrphanInv, CleanUpTime, Cared
<1> QED BY <1>1, CommandInvariant, PTL

\* What Hold promises of a name held is true of the processes of the "hold" command
\* beside "acquire", "keep_alive", "release" and "reset" from other processes.
THEOREM CommandHeldNameKept ==
  ASSUME Margin
  PROVE  CommandSpec => []HeldNameKept
<1>1. CommandInv => HeldNameKept
  BY OwnedNotGrantable DEF CommandInv, CommandTypes, HeldInv, HeldNameKept, Kept
<1> QED BY <1>1, CommandInvariant, PTL
=============================================================================
