----------------------------- MODULE HoldProofs -----------------------------
(***************************************************************************)
(* A held name stays its holder's, the goroutine is quiet once the release *)
(* function goes on, and no hold is lost without an error: for any number  *)
(* of clients and names, any period, latency and number of attempts that   *)
(* leave the keeper room for its retries (Margin).                         *)
(***************************************************************************)
EXTENDS Hold, TLAPS

USE AutoReleaseAssumption, LatencyAssumption, AttemptsAssumption,
    RestIntervalAssumption, NoneAssumption

LEMMA IntervalType == KeepAliveInterval \in Nat
BY Z3 DEF KeepAliveInterval

\* The longest time between two signs of life of a keeper that does not give up is
\* within the period.
Margin ==
  AutoReleaseAfter > 0 =>
    /\ KeepAliveInterval > 0
    /\ KeepAliveInterval + (Attempts + 1) * Latency <= AutoReleaseAfter

-----------------------------------------------------------------------------
(* Types. *)

\* Where the goroutine and the release function can be at the same time, and what
\* the channels say of it.
Shape(c) ==
  /\ main[c] = "idle" <=> name[c] = None
  /\ main[c] = "idle" => keeper[c] = "none"
  /\ main[c] = "releasing" => keeper[c] \in {"none", "done"}
  /\ keeper[c] = "none" <=> main[c] = "idle" \/ KeepAliveInterval = 0
  /\ keeper[c] # "done" => errc[c] = 0 /\ ~told[c]
  /\ stop[c] <=> main[c] \in {"stopping", "releasing"} /\ keeper[c] # "none"
  /\ keeper[c] = "done" => stop[c] \/ errc[c] = 1 \/ told[c]

Shapes == \A c \in Client : Shape(c)

LEMMA TypeInit == Init => TypeOK
<1> SUFFICES ASSUME Init PROVE TypeOK
  OBVIOUS
<1>1. misreleased \in BOOLEAN /\ late \in BOOLEAN
  BY Zenon DEF Init
<1>2. stop \in [Client -> BOOLEAN] /\ told \in [Client -> BOOLEAN]
  BY DEF Init
<1> QED BY <1>1, <1>2, IntervalType DEF Init, TypeOK, Age, Clock

LEMMA TypeStep == TypeOK /\ Shapes /\ [Next]_vars => TypeOK'
<1> SUFFICES ASSUME TypeOK, Shapes, [Next]_vars PROVE TypeOK'
  OBVIOUS
<1> USE IntervalType DEF TypeOK, Age, Clock
<1>1. ASSUME NEW c \in Client, NEW n \in Name, Hold(c, n) PROVE TypeOK'
  BY <1>1 DEF Hold, firstKeeper
<1>2. ASSUME NEW c \in Client, Keeper(c) PROVE TypeOK'
  <2>1. CASE SeeStop(c)
    BY <2>1 DEF SeeStop
  <2>2. CASE Fire(c)
    BY <2>2 DEF Fire
  <2>3. CASE Apply(c)
    <3> DEFINE a == IF age[name[c]] = None THEN None ELSE 0
    <3>1. a \in Age \cup {None} /\ age' = [age EXCEPT ![name[c]] = a]
      BY <2>3 DEF Apply
    <3> HIDE DEF a
    <3>2. age' \in [Name -> Age \cup {None}]
      BY <3>1
    <3> QED BY <2>3, <3>2 DEF Apply
  <2>4. CASE Answer(c)
    BY <2>4 DEF Answer
  <2>5. CASE Fail(c)
    <3>1. keeper[c] = "calling" => name[c] \in Name
      BY DEF Shapes, Shape
    <3>2. delayed' \subseteq Name
      BY <2>5, <3>1 DEF Fail
    <3> QED BY <2>5, <3>2 DEF Fail
  <2>6. CASE Send(c)
    BY <2>6 DEF Send
  <2> QED BY <1>2, <2>1, <2>2, <2>3, <2>4, <2>5, <2>6 DEF Keeper
<1>3. ASSUME NEW c \in Client, Receive(c) PROVE TypeOK'
  BY <1>3 DEF Receive
<1>4. ASSUME NEW c \in Client, CallRelease(c) PROVE TypeOK'
  BY <1>4 DEF CallRelease
<1>5. ASSUME NEW c \in Client, Stopped(c) PROVE TypeOK'
  BY <1>5 DEF Stopped
<1>6. ASSUME NEW c \in Client, Release(c) PROVE TypeOK'
  <2>1. misreleased' \in BOOLEAN /\ late' \in BOOLEAN
    BY <1>6, Zenon DEF Release
  <2>2. age' \in [Name -> Age \cup {None}]
    BY <1>6 DEF Release
  <2> QED BY <1>6, <2>1, <2>2 DEF Release, Forget
<1>7. ASSUME NEW c \in Client, Crash(c) PROVE TypeOK'
  BY <1>7 DEF Crash, Forget
<1>8. CASE Tick
  <2>1. late' \in BOOLEAN /\ misreleased' \in BOOLEAN
    BY <1>8, Zenon DEF Tick
  <2>2. age' \in [Name -> Age \cup {None}]
    BY <1>8 DEF Tick
  <2>3. clock' \in [Client -> Clock]
    BY <1>8 DEF Tick
  <2> QED BY <1>8, <2>1, <2>2, <2>3 DEF Tick
<1>9. CASE UNCHANGED vars
  BY <1>9 DEF vars
<1>10. ASSUME NEW n \in Name, Deliver(n) PROVE TypeOK'
  <2> DEFINE a == IF age[n] = None THEN None ELSE 0
  <2>1. a \in Age \cup {None} /\ age' = [age EXCEPT ![n] = a]
    BY <1>10 DEF Deliver
  <2> HIDE DEF a
  <2>2. age' \in [Name -> Age \cup {None}]
    BY <2>1
  <2> QED BY <1>10, <2>2 DEF Deliver
<1> QED BY <1>1, <1>2, <1>3, <1>4, <1>5, <1>6, <1>7, <1>8, <1>9, <1>10 DEF Next

-----------------------------------------------------------------------------
(* The goroutine and the release function. *)

\* What an action of c leaves alone for the others.
LEMMA OtherShape ==
  ASSUME NEW d \in Client, Shape(d),
         main'[d] = main[d], name'[d] = name[d], keeper'[d] = keeper[d],
         stop'[d] = stop[d], errc'[d] = errc[d], told'[d] = told[d]
  PROVE  Shape(d)'
BY DEF Shape, KeepAliveInterval

LEMMA ShapesStep == TypeOK /\ Shapes /\ [Next]_vars => Shapes'
<1> SUFFICES ASSUME TypeOK, Shapes, [Next]_vars, NEW d \in Client PROVE Shape(d)'
  BY DEF Shapes
<1> USE IntervalType
<1>0. Shape(d)
  BY DEF Shapes
<1>1. ASSUME NEW c \in Client, NEW n \in Name, Hold(c, n) PROVE Shape(d)'
  <2>1. CASE c # d
    BY <1>0, <1>1, <2>1, OtherShape DEF Hold, TypeOK
  <2>2. CASE c = d
    BY <1>1, <2>2 DEF Hold, firstKeeper, TypeOK, Shape, KeepAliveInterval
  <2> QED BY <2>1, <2>2
<1>2. ASSUME NEW c \in Client, Keeper(c) PROVE Shape(d)'
  <2>1. CASE c # d
    BY <1>0, <1>2, <2>1, OtherShape
       DEF Keeper, SeeStop, Fire, Apply, Answer, Fail, Send, TypeOK
  <2>2. CASE c = d /\ SeeStop(c)
    BY <1>0, <2>2 DEF SeeStop, TypeOK, Shape, KeepAliveInterval
  <2>3. CASE c = d /\ (Fire(c) \/ Apply(c) \/ Answer(c) \/ Fail(c))
    BY <1>0, <2>3 DEF Fire, TimerDue, Apply, Answer, Fail, TypeOK, Shape, KeepAliveInterval
  <2>4. CASE c = d /\ Send(c)
    BY <1>0, <2>4 DEF Send, TypeOK, Shape, KeepAliveInterval
  <2> QED BY <1>2, <2>1, <2>2, <2>3, <2>4 DEF Keeper
<1>3. ASSUME NEW c \in Client, Receive(c) \/ CallRelease(c) \/ Stopped(c) PROVE Shape(d)'
  <2>1. CASE c # d
    BY <1>0, <1>3, <2>1, OtherShape DEF Receive, CallRelease, Stopped, TypeOK
  <2>2. CASE c = d /\ Receive(c)
    BY <1>0, <2>2 DEF Receive, TypeOK, Shape, KeepAliveInterval
  <2>3. CASE c = d /\ CallRelease(c)
    BY <1>0, <2>3 DEF CallRelease, TypeOK, Shape, KeepAliveInterval
  <2>4. CASE c = d /\ Stopped(c)
    BY <1>0, <2>4 DEF Stopped, TypeOK, Shape, KeepAliveInterval
  <2> QED BY <1>3, <2>1, <2>2, <2>3, <2>4
<1>4. ASSUME NEW c \in Client, Release(c) \/ Crash(c) PROVE Shape(d)'
  <2>1. CASE c # d
    BY <1>0, <1>4, <2>1, OtherShape DEF Release, Crash, Forget, TypeOK
  <2>2. CASE c = d
    BY <1>4, <2>2 DEF Release, Crash, Forget, TypeOK, Shape, KeepAliveInterval
  <2> QED BY <2>1, <2>2
<1>5. CASE Tick \/ UNCHANGED vars
  BY <1>0, <1>5, OtherShape DEF Tick, vars
<1>6. ASSUME NEW n \in Name, Deliver(n) PROVE Shape(d)'
  BY <1>0, <1>6, OtherShape DEF Deliver
<1> QED BY <1>1, <1>2, <1>3, <1>4, <1>5, <1>6 DEF Next

LEMMA ShapesInvariant == Spec => [](TypeOK /\ Shapes)
<1>1. Init => TypeOK /\ Shapes
  BY TypeInit DEF Init, Shapes, Shape
<1> QED BY <1>1, TypeStep, ShapesStep, PTL DEF Spec

\* The variables keep their types; in particular no attempt is made beyond the
\* last, and the error channel never holds more than it can.
THEOREM HoldTypeCorrect == Spec => []TypeOK
<1> QED BY ShapesInvariant, PTL

\* Once the release function closes errc and calls Release, the goroutine neither
\* sends nor keeps alive: whatever call it was in, or retry it was waiting for.
THEOREM QuietCorrect == Spec => []QuietAfterStop
<1>1. TypeOK /\ Shapes => QuietAfterStop
  BY DEF Shapes, Shape, QuietAfterStop
<1> QED BY <1>1, ShapesInvariant, PTL

\* A goroutine that ended under its holder has left an error, or delivered it.
THEOREM LossReportedCorrect == Spec => []LossReported
<1>1. TypeOK /\ Shapes => LossReported
  BY DEF Shapes, Shape, LossReported
<1> QED BY <1>1, ShapesInvariant, PTL

-----------------------------------------------------------------------------
(* The name is kept. *)

\* How old the name of c may be while nothing is late, at each point between two
\* signs of life.
Fresh(c, a) ==
  /\ main[c] # "releasing" /\ keeper[c] = "waiting" =>
       a <= Latency + clock[c] /\ clock[c] <= KeepAliveInterval
  /\ keeper[c] = "calling" =>
       /\ a <= Latency + KeepAliveInterval + (trial[c] - 1) * Latency + clock[c]
       /\ clock[c] <= Latency
  /\ keeper[c] = "applied" => a <= clock[c] /\ clock[c] <= Latency
  /\ main[c] # "releasing" /\ keeper[c] = "done" => a <= Latency + KeepAliveInterval
  /\ main[c] = "releasing" =>
       a <= Latency + KeepAliveInterval + clock[c] /\ clock[c] <= Latency

Kept(c, n) ==
  /\ age[n] # None
  /\ AutoReleaseAfter > 0 => Fresh(c, age[n])
  /\ \A d \in Client \ {c} : ~Owns(d, n)

HeldInv ==
  ~misreleased /\ ~late => \A c \in Client, n \in Name : Owns(c, n) => Kept(c, n)

IInv == TypeOK /\ Shapes /\ HeldInv

LEMMA ProductMonotone ==
  ASSUME NEW a \in Nat, NEW b \in Nat, a <= b
  PROVE  a * Latency <= b * Latency /\ a * Latency \in Nat
OBVIOUS

LEMMA ProductNext ==
  ASSUME NEW a \in Nat
  PROVE  (a + 1) * Latency = a * Latency + Latency
OBVIOUS

\* Every bound of Fresh is within the period.
LEMMA FreshInPeriod ==
  ASSUME Margin, TypeOK, Shapes, NEW c \in Client, NEW n \in Name, Owns(c, n),
         AutoReleaseAfter > 0, age[n] # None, Fresh(c, age[n])
  PROVE  age[n] <= AutoReleaseAfter
<1> USE IntervalType
<1>1. age[n] \in Nat /\ clock[c] \in Nat /\ trial[c] \in 1 .. Attempts
  BY DEF TypeOK, Age, Clock
<1> DEFINE t == trial[c] - 1
           most == Attempts - 1
<1>2. /\ t * Latency <= most * Latency
      /\ t * Latency \in Nat
      /\ most * Latency \in Nat
  BY <1>1, ProductMonotone
<1>3. (Attempts + 1) * Latency = most * Latency + Latency + Latency
  <2>1. (most + 1) * Latency = most * Latency + Latency
    BY ProductNext
  <2>2. (Attempts + 1) * Latency = Attempts * Latency + Latency
    BY ProductNext
  <2> QED BY <2>1, <2>2
<1>4. KeepAliveInterval + most * Latency + Latency + Latency <= AutoReleaseAfter
  BY <1>2, <1>3 DEF Margin
<1>5. keeper[c] \in {"waiting", "calling", "applied", "done"}
  BY DEF Owns, GaveUp, Shapes, Shape, Margin, TypeOK
<1>6. CASE main[c] = "releasing"
  BY <1>1, <1>2, <1>4, <1>6 DEF Fresh
<1>7. CASE main[c] # "releasing" /\ keeper[c] = "calling"
  <2>1. age[n] <= Latency + KeepAliveInterval + t * Latency + clock[c] /\ clock[c] <= Latency
    BY <1>7 DEF Fresh
  <2> HIDE DEF t, most
  <2> QED BY <2>1, <1>1, <1>2, <1>4
<1>8. CASE main[c] # "releasing" /\ keeper[c] \in {"waiting", "applied", "done"}
  <2>1. age[n] <= Latency + KeepAliveInterval
    BY <1>1, <1>8 DEF Fresh
  <2> HIDE DEF t, most
  <2> QED BY <2>1, <1>1, <1>2, <1>4
<1> QED BY <1>5, <1>6, <1>7, <1>8

LEMMA OwnedNotGrantable ==
  ASSUME Margin, TypeOK, Shapes, NEW c \in Client, NEW n \in Name, Owns(c, n), Kept(c, n)
  PROVE  ~Grantable(n)
<1>1. CASE AutoReleaseAfter > 0
  <2>1. age[n] <= AutoReleaseAfter
    BY <1>1, FreshInPeriod DEF Kept
  <2>2. age[n] \in Nat
    BY DEF Kept, TypeOK, Age
  <2> QED BY <2>1, <2>2 DEF Kept, Grantable
<1>2. CASE ~(AutoReleaseAfter > 0)
  BY <1>2 DEF Kept, Grantable
<1> QED BY <1>1, <1>2

\* c keeps n when neither the age of n nor anything of c but its errors changes, and
\* nobody becomes an owner of n.
LEMMA StaysKept ==
  ASSUME NEW c \in Client, NEW n \in Name, Kept(c, n),
         age'[n] = age[n], main'[c] = main[c], keeper'[c] = keeper[c],
         trial'[c] = trial[c], clock'[c] = clock[c],
         \A d \in Client : Owns(d, n)' => Owns(d, n)
  PROVE  Kept(c, n)'
BY DEF Kept, Fresh, KeepAliveInterval

\* A name that is fresher than it was is still kept.
LEMMA FresherKept ==
  ASSUME TypeOK, TypeOK', NEW c \in Client, NEW n \in Name, Kept(c, n),
         age'[n] = 0, UNCHANGED <<main, name, keeper, trial, clock, errc, told>>
  PROVE  Kept(c, n)'
<1>1. age[n] \in Nat /\ clock[c] \in Nat /\ trial[c] \in 1 .. Attempts /\ age'[n] # None
  BY NoneAssumption, IntervalType, LatencyAssumption DEF Kept, TypeOK, Age, Clock
<1>2. \A d \in Client \ {c} : ~Owns(d, n)'
  BY DEF Kept, Owns, GaveUp
<1>3. AutoReleaseAfter > 0 /\ Fresh(c, age[n]) => Fresh(c, 0)
  <2> SUFFICES ASSUME Fresh(c, age[n]) PROVE Fresh(c, 0)
    OBVIOUS
  <2> DEFINE p == (trial[c] - 1) * Latency
  <2>1. p \in Nat
    BY <1>1, ProductMonotone, AttemptsAssumption
  <2>2. keeper[c] = "calling" =>
          0 <= Latency + KeepAliveInterval + p + clock[c] /\ clock[c] <= Latency
    <3>1. keeper[c] = "calling" => clock[c] <= Latency
      BY DEF Fresh
    <3> HIDE DEF p
    <3> QED BY <2>1, <3>1, <1>1, IntervalType, LatencyAssumption
  <2>3. main[c] # "releasing" /\ keeper[c] = "waiting" =>
          0 <= Latency + clock[c] /\ clock[c] <= KeepAliveInterval
    BY <1>1, LatencyAssumption DEF Fresh
  <2>4. keeper[c] = "applied" => 0 <= clock[c] /\ clock[c] <= Latency
    BY <1>1 DEF Fresh
  <2>5. main[c] # "releasing" /\ keeper[c] = "done" => 0 <= Latency + KeepAliveInterval
    BY IntervalType, LatencyAssumption
  <2>6. main[c] = "releasing" =>
          0 <= Latency + KeepAliveInterval + clock[c] /\ clock[c] <= Latency
    BY <1>1, IntervalType, LatencyAssumption DEF Fresh
  <2> QED BY <2>2, <2>3, <2>4, <2>5, <2>6 DEF Fresh
<1>4. AutoReleaseAfter > 0 => Fresh(c, age[n])'
  BY <1>3 DEF Kept, Fresh, KeepAliveInterval
<1> QED BY <1>1, <1>2, <1>4 DEF Kept

\* No step of c but Hold makes it an owner, and no step but its own touches it.
LEMMA OwnersOnlyByHold ==
  ASSUME TypeOK, Shapes, [Next]_vars, NEW e \in Client, NEW n \in Name, Owns(e, n)',
         ~Hold(e, n)
  PROVE  Owns(e, n)
<1>1. ASSUME NEW c \in Client, NEW m \in Name, Hold(c, m) PROVE Owns(e, n)
  <2>1. c # e
    BY <1>1 DEF Hold, Owns, TypeOK
  <2> QED BY <1>1, <2>1 DEF Hold, Owns, GaveUp, TypeOK
<1>2. ASSUME NEW c \in Client, Keeper(c) PROVE Owns(e, n)
  <2>1. name' = name /\ told' = told
    BY <1>2 DEF Keeper, SeeStop, Fire, Apply, Answer, Fail, Send
  <2>2. CASE Send(c)
    BY <2>1, <2>2 DEF Send, Owns, GaveUp, TypeOK
  <2>3. CASE ~Send(c)
    <3>1. errc' = errc
      BY <1>2, <2>3 DEF Keeper, SeeStop, Fire, Apply, Answer, Fail
    <3>2. keeper[e] = "sending" => keeper'[e] = "sending"
      BY <1>2, <2>3 DEF Keeper, SeeStop, Fire, TimerDue, Apply, Answer, Fail, TypeOK
    <3> QED BY <2>1, <3>1, <3>2 DEF Owns, GaveUp
  <2> QED BY <2>2, <2>3
<1>3. ASSUME NEW c \in Client, Receive(c) \/ CallRelease(c) \/ Stopped(c) PROVE Owns(e, n)
  BY <1>3 DEF Receive, CallRelease, Stopped, Owns, GaveUp, TypeOK
<1>4. ASSUME NEW c \in Client, Release(c) \/ Crash(c) PROVE Owns(e, n)
  BY <1>4, NoneAssumption DEF Release, Crash, Forget, Owns, GaveUp, TypeOK
<1>5. CASE Tick \/ UNCHANGED vars
  BY <1>5 DEF Tick, vars, Owns, GaveUp
<1>6. ASSUME NEW m \in Name, Deliver(m) PROVE Owns(e, n)
  BY <1>6 DEF Deliver, Owns, GaveUp
<1> QED BY <1>1, <1>2, <1>3, <1>4, <1>5, <1>6 DEF Next

LEMMA HeldStep == Margin /\ IInv /\ [Next]_vars => HeldInv'
<1> SUFFICES ASSUME Margin, TypeOK, Shapes, HeldInv, [Next]_vars, ~misreleased', ~late',
                    NEW d \in Client, NEW n \in Name, Owns(d, n)'
             PROVE  Kept(d, n)'
  BY DEF IInv, HeldInv
<1> USE IntervalType
<1>0. ~misreleased /\ ~late
  <2>1. ASSUME NEW c \in Client, Keeper(c) PROVE ~misreleased /\ ~late
    BY <2>1 DEF Keeper, SeeStop, Fire, Apply, Answer, Fail, Send
  <2>2. ASSUME NEW c \in Client, NEW m \in Name, Hold(c, m) PROVE ~misreleased /\ ~late
    BY <2>2 DEF Hold
  <2>3. ASSUME NEW c \in Client, Receive(c) \/ CallRelease(c) \/ Stopped(c) \/ Crash(c)
        PROVE  ~misreleased /\ ~late
    BY <2>3 DEF Receive, CallRelease, Stopped, Crash
  <2>4. ASSUME NEW c \in Client, Release(c) PROVE ~misreleased /\ ~late
    <3>1. late' = late
      BY <2>4 DEF Release
    <3>2. CASE UNCHANGED <<age, misreleased>>
      BY <3>1, <3>2
    <3>3. CASE misreleased' = (misreleased \/ \E e \in Client \ {c} : Owns(e, name[c]))
      BY <3>1, <3>3, Zenon
    <3> QED BY <2>4, <3>2, <3>3 DEF Release
  <2>5. CASE Tick
    BY <2>5 DEF Tick
  <2>6. CASE UNCHANGED vars
    BY <2>6 DEF vars
  <2>7. ASSUME NEW m \in Name, Deliver(m) PROVE ~misreleased /\ ~late
    BY <2>7 DEF Deliver
  <2> QED BY <2>1, <2>2, <2>3, <2>4, <2>5, <2>6, <2>7 DEF Next
<1>k. \A c \in Client, m \in Name : Owns(c, m) => Kept(c, m) /\ ~Grantable(m)
  BY <1>0, OwnedNotGrantable DEF HeldInv
<1>1. ASSUME NEW c \in Client, NEW m \in Name, Hold(c, m) PROVE Kept(d, n)'
  <2>1. name'[c] = m /\ age'[m] = 0
    BY <1>1 DEF Hold, TypeOK
  <2>2. \A e \in Client : ~Owns(e, m)
    BY <1>1, <1>k DEF Hold
  <2>3. \A e \in Client \ {c} : Owns(e, n)' => Owns(e, n)
    BY <1>1 DEF Hold, Owns, GaveUp, TypeOK
  <2>4. CASE c = d
    <3>1. n = m
      BY <2>1, <2>4 DEF Owns
    <3>2. clock'[c] = 0 /\ main'[c] = "holding" /\ keeper'[c] \in {"none", "waiting"}
      BY <1>1 DEF Hold, firstKeeper, TypeOK
    <3>3. Fresh(d, age[n])'
      BY <2>1, <2>4, <3>1, <3>2 DEF Fresh
    <3>4. age'[n] # None
      BY <2>1, <3>1
    <3> QED BY <2>2, <2>3, <2>4, <3>1, <3>3, <3>4 DEF Kept
  <2>5. CASE c # d
    <3>1. Owns(d, n) /\ Kept(d, n)
      BY <1>k, <2>3, <2>5
    <3>2. n # m
      BY <2>2, <3>1
    <3>3. ~Owns(c, n)'
      BY <2>1, <3>2 DEF Owns
    <3>4. /\ age'[n] = age[n] /\ main'[d] = main[d] /\ keeper'[d] = keeper[d]
          /\ trial'[d] = trial[d] /\ clock'[d] = clock[d]
      BY <1>1, <2>5, <3>2 DEF Hold, TypeOK
    <3>5. \A e \in Client : Owns(e, n)' => Owns(e, n)
      BY <2>3, <3>3
    <3> QED BY <3>1, <3>4, <3>5, StaysKept
  <2> QED BY <2>4, <2>5
<1> SUFFICES ASSUME \A c \in Client, m \in Name : ~Hold(c, m)
             PROVE  Kept(d, n)'
  BY <1>1
<1>2. /\ \A e \in Client : Owns(e, n)' => Owns(e, n)
      /\ Owns(d, n)
      /\ Kept(d, n)
      /\ Shape(d)
  BY <1>k, OwnersOnlyByHold DEF Shapes
<1>3. \A e \in Client \ {d} : ~Owns(e, n)'
  BY <1>2 DEF Kept
<1>4. ASSUME NEW c \in Client, Keeper(c) PROVE Kept(d, n)'
  <2>1. CASE c # d
    <3>1. /\ main'[d] = main[d] /\ keeper'[d] = keeper[d]
          /\ trial'[d] = trial[d] /\ clock'[d] = clock[d]
      BY <1>4, <2>1 DEF Keeper, SeeStop, Fire, Apply, Answer, Fail, Send, TypeOK
    <3>2. ~(Apply(c) /\ name[c] = n)
      BY <1>2, <2>1 DEF Apply, Kept, Owns, GaveUp, Shapes, Shape, TypeOK
    <3>3. age'[n] = age[n]
      BY <1>4, <3>2 DEF Keeper, SeeStop, Fire, Apply, Answer, Fail, Send, TypeOK
    <3> QED BY <1>2, <3>1, <3>3, StaysKept
  <2>2. CASE c = d /\ Apply(c)
    <3>1. /\ age'[n] = 0 /\ age'[n] # None /\ clock' = clock /\ main' = main
          /\ keeper'[d] = "applied"
      BY <1>2, <2>2 DEF Apply, Owns, Kept, TypeOK
    <3>2. AutoReleaseAfter > 0 => Fresh(d, age[n])'
      BY <1>2, <2>2, <3>1 DEF Apply, Kept, Fresh, Shape, TypeOK, Clock
    <3> QED BY <1>3, <3>1, <3>2 DEF Kept
  <2>3. CASE c = d /\ ~Apply(c)
    <3>1. age' = age /\ main' = main
      BY <1>4, <2>3 DEF Keeper, SeeStop, Fire, Answer, Fail, Send
    <3>2. ASSUME AutoReleaseAfter > 0 PROVE Fresh(d, age[n])'
      <4>0. Fresh(d, age[n]) /\ age[n] \in Nat /\ clock[d] \in Nat /\ trial[d] \in 1 .. Attempts
        BY <1>2, <3>2 DEF Kept, TypeOK, Age, Clock
      <4>1. CASE SeeStop(d)
        BY <3>1, <4>0, <4>1, <1>2 DEF SeeStop, Fresh, Shape, TypeOK
      <4>2. CASE Fire(d)
        BY <3>1, <4>0, <4>2, <1>2 DEF Fire, TimerDue, Fresh, Shape, TypeOK, KeepAliveInterval
      <4>3. CASE Answer(d)
        BY <3>1, <4>0, <4>3, <1>2 DEF Answer, Fresh, Shape, TypeOK, KeepAliveInterval
      <4>4. CASE Fail(d)
        <5>1. keeper'[d] = "calling" /\ trial'[d] = trial[d] + 1 /\ clock'[d] = 0
          BY <4>4, <2>3 DEF Fail, Owns, GaveUp, TypeOK
        <5>2. main'[d] # "releasing"
          BY <3>1, <4>4, <1>2 DEF Fail, Shape
        <5> DEFINE t == trial[d] - 1
        <5>3. /\ t \in Nat /\ t * Latency \in Nat
              /\ (trial'[d] - 1) * Latency = t * Latency + Latency
          <6>1. t \in Nat /\ trial'[d] - 1 = t + 1
            BY <4>0, <5>1
          <6>2. (t + 1) * Latency = t * Latency + Latency
            BY <6>1, ProductNext
          <6> QED BY <6>1, <6>2, ProductMonotone
        <5>4. age[n] <= Latency + KeepAliveInterval + t * Latency + Latency
          <6>1. CASE keeper[d] = "calling"
            <7>1. age[n] <= Latency + KeepAliveInterval + t * Latency + clock[d] /\ clock[d] <= Latency
              BY <4>0, <6>1 DEF Fresh
            <7> HIDE DEF t
            <7> QED BY <7>1, <4>0, <5>3
          <6>2. CASE keeper[d] = "applied"
            <7>1. age[n] <= Latency
              BY <4>0, <6>2 DEF Fresh
            <7> HIDE DEF t
            <7> QED BY <7>1, <4>0, <5>3
          <6> QED BY <6>1, <6>2, <4>4 DEF Fail
        <5>5. age'[n] <= Latency + KeepAliveInterval + (trial'[d] - 1) * Latency + clock'[d]
          <6> HIDE DEF t
          <6> QED BY <3>1, <4>0, <5>1, <5>3, <5>4
        <5> QED BY <5>1, <5>2, <5>5 DEF Fresh, KeepAliveInterval
      <4>5. CASE Send(d)
        BY <4>5, <2>3 DEF Send, Owns, GaveUp, TypeOK
      <4> QED BY <1>4, <2>3, <4>1, <4>2, <4>3, <4>4, <4>5 DEF Keeper
    <3> QED BY <1>2, <1>3, <3>1, <3>2 DEF Kept
  <2> QED BY <2>1, <2>2, <2>3
<1>5. ASSUME NEW c \in Client, Receive(c) \/ CallRelease(c) \/ Stopped(c) PROVE Kept(d, n)'
  <2>1. CASE c # d \/ Receive(c)
    <3>1. /\ main'[d] = main[d] /\ keeper'[d] = keeper[d] /\ age'[n] = age[n]
          /\ trial'[d] = trial[d] /\ clock'[d] = clock[d]
      BY <1>5, <2>1 DEF Receive, CallRelease, Stopped, TypeOK
    <3> QED BY <1>2, <3>1, StaysKept
  <2>2. CASE c = d /\ CallRelease(c)
    <3>1. /\ main'[d] = "stopping" /\ keeper' = keeper /\ age' = age
          /\ trial' = trial /\ clock' = clock /\ main[d] = "holding"
      BY <2>2 DEF CallRelease, TypeOK
    <3>2. AutoReleaseAfter > 0 => Fresh(d, age[n])'
      BY <1>2, <3>1 DEF Kept, Fresh, KeepAliveInterval
    <3> QED BY <1>2, <1>3, <3>1, <3>2 DEF Kept
  <2>3. CASE c = d /\ Stopped(c)
    <3>1. /\ main'[d] = "releasing" /\ keeper' = keeper /\ age' = age
          /\ clock'[d] = 0 /\ main[d] = "stopping" /\ keeper[d] \in {"none", "done"}
      BY <2>3 DEF Stopped, TypeOK
    <3>2. ASSUME AutoReleaseAfter > 0 PROVE Fresh(d, age[n])'
      <4>1. keeper[d] = "done"
        BY <1>2, <3>1, <3>2 DEF Shape, Margin
      <4>2. age[n] <= Latency + KeepAliveInterval /\ age[n] \in Nat
        BY <1>2, <3>1, <3>2, <4>1 DEF Kept, Fresh, TypeOK, Age
      <4> QED BY <3>1, <4>1, <4>2 DEF Fresh, KeepAliveInterval
    <3> QED BY <1>2, <1>3, <3>1, <3>2 DEF Kept
  <2> QED BY <1>5, <2>1, <2>2, <2>3
<1>6. ASSUME NEW c \in Client, Release(c) \/ Crash(c) PROVE Kept(d, n)'
  <2>1. c # d
    BY <1>6, NoneAssumption DEF Release, Crash, Forget, Owns, TypeOK
  <2>2. age'[n] = age[n]
    <3>1. CASE Release(c) /\ age' = [age EXCEPT ![name[c]] = None]
                         /\ misreleased' = (misreleased \/ \E e \in Client \ {c} : Owns(e, name[c]))
      <4>1. ~Owns(d, name[c])
        BY <2>1, <3>1
      <4>2. name[c] # n
        BY <1>2, <4>1
      <4> QED BY <3>1, <4>2 DEF TypeOK
    <3>2. CASE age' = age
      BY <3>2
    <3> QED BY <1>6, <3>1, <3>2 DEF Release, Crash
  <2>3. /\ main'[d] = main[d] /\ keeper'[d] = keeper[d]
        /\ trial'[d] = trial[d] /\ clock'[d] = clock[d]
    BY <1>6, <2>1 DEF Release, Crash, Forget, TypeOK
  <2> QED BY <1>2, <2>2, <2>3, StaysKept
<1>7. CASE Tick
  <2>1. ~Urgent(d)
    BY <1>7 DEF Tick
  <2>2. age[n] # None /\ age[n] \in Nat /\ clock[d] \in Nat
    BY <1>2 DEF Kept, TypeOK, Age, Clock
  <2>3. age'[n] = IF age[n] > AutoReleaseAfter THEN age[n] ELSE age[n] + 1
    BY <1>7, <2>2 DEF Tick
  <2>4. age'[n] # None /\ age'[n] \in Nat /\ age'[n] <= age[n] + 1
    BY <2>2, <2>3
  <2>5. main' = main /\ keeper' = keeper /\ trial' = trial
    BY <1>7 DEF Tick
  <2>6. ASSUME AutoReleaseAfter > 0 PROVE Fresh(d, age[n])'
    <3>1. Fresh(d, age[n]) /\ keeper[d] \in {"waiting", "calling", "applied", "done"}
      BY <1>2, <2>6 DEF Kept, Owns, GaveUp, Shape, Margin, TypeOK
    <3>2. ~(main[d] = "stopping" /\ keeper[d] = "done")
      BY <2>1 DEF Urgent
    <3>3. ~(main[d] # "releasing" /\ keeper[d] = "done")
      BY <1>2, <3>2 DEF Shape, Owns, GaveUp
    <3>4. main[d] = "releasing" => keeper[d] = "done"
      BY <1>2, <3>1 DEF Shape
    <3>5. clock'[d] = IF clock[d] + 1 \in Clock THEN clock[d] + 1 ELSE clock[d]
      BY <1>7, <3>1, <3>3, <3>4 DEF Tick, Busy
    <3>6. CASE main[d] # "releasing" /\ keeper[d] = "waiting"
      <4>1. clock[d] < KeepAliveInterval
        BY <2>1, <2>2, <3>6 DEF Urgent, TimerDue
      <4>2. clock'[d] = clock[d] + 1
        BY <2>2, <3>5, <4>1 DEF Clock
      <4> QED BY <2>2, <2>4, <2>5, <3>1, <3>6, <4>1, <4>2 DEF Fresh, KeepAliveInterval
    <3>7. CASE main[d] = "releasing" \/ keeper[d] \in {"calling", "applied"}
      <4>1. clock[d] < Latency
        BY <2>1, <2>2, <3>7 DEF Urgent, Busy
      <4>2. clock'[d] = clock[d] + 1
        BY <2>2, <3>5, <4>1 DEF Clock
      <4>3. CASE main[d] = "releasing"
        BY <2>2, <2>4, <2>5, <3>1, <3>4, <4>1, <4>2, <4>3 DEF Fresh, KeepAliveInterval
      <4>4. CASE keeper[d] = "applied"
        BY <2>2, <2>4, <2>5, <3>1, <3>4, <4>1, <4>2, <4>4 DEF Fresh, KeepAliveInterval
      <4>5. CASE keeper[d] = "calling"
        <5> DEFINE p == (trial[d] - 1) * Latency
        <5>1. p \in Nat
          <6>1. trial[d] - 1 \in Nat
            BY DEF TypeOK
          <6> QED BY <6>1, ProductMonotone
        <5>2. age[n] <= Latency + KeepAliveInterval + p + clock[d]
          BY <3>1, <4>5 DEF Fresh
        <5>3. age'[n] <= Latency + KeepAliveInterval + p + clock'[d]
          <6> HIDE DEF p
          <6> QED BY <2>2, <2>4, <4>2, <5>1, <5>2
        <5> QED BY <2>5, <3>4, <4>1, <4>2, <4>5, <5>3, <2>2 DEF Fresh, KeepAliveInterval
      <4> QED BY <3>7, <4>3, <4>4, <4>5
    <3> QED BY <3>1, <3>3, <3>6, <3>7
  <2> QED BY <1>3, <2>4, <2>6 DEF Kept
<1>8. CASE UNCHANGED vars
  BY <1>2, <1>8, StaysKept DEF vars
<1>9. ASSUME NEW m \in Name, Deliver(m) PROVE Kept(d, n)'
  <2>1. /\ UNCHANGED <<main, name, keeper, trial, clock, errc, told>>
        /\ age'[n] = age[n] \/ age'[n] = 0
    BY <1>9, <1>2 DEF Deliver, Kept, TypeOK
  <2>2. TypeOK'
    BY TypeStep
  <2> QED BY <1>2, <2>1, <2>2, StaysKept, FresherKept
<1> QED BY <1>4, <1>5, <1>6, <1>7, <1>8, <1>9 DEF Next

LEMMA HeldInvariant ==
  ASSUME Margin
  PROVE  Spec => []IInv
<1>1. Init => IInv
  <2>1. Init => Shapes /\ HeldInv
    BY NoneAssumption DEF Init, Shapes, Shape, HeldInv, Owns
  <2> QED BY <2>1, TypeInit DEF IInv
<1>2. IInv /\ [Next]_vars => IInv'
  BY TypeStep, ShapesStep, HeldStep DEF IInv
<1> QED BY <1>1, <1>2, PTL DEF Spec

\* With a period that leaves room for every attempt, and while nothing is late, a
\* name stays its holder's from Hold to the end of the release function, through
\* all retries, and whatever the other clients do or however they die.
THEOREM HeldNameKeptCorrect ==
  ASSUME Margin
  PROVE  Spec => []HeldNameKept
<1>1. IInv => HeldNameKept
  BY OwnedNotGrantable DEF IInv, HeldInv, HeldNameKept, Kept
<1> QED BY <1>1, HeldInvariant, PTL

\* Under the same margin, and while nothing is late, nobody but a client whose
\* keeper gave up releases a name that has another owner by then.
THEOREM OwnReleaseCorrect ==
  ASSUME Margin
  PROVE  Spec => OwnRelease
<1>1. ASSUME IInv, NEW c \in Client, ~late, Release(c), misreleased' # misreleased
      PROVE  GaveUp(c)
  <2>1. /\ misreleased' = (misreleased \/ \E d \in Client \ {c} : Owns(d, name[c]))
        /\ main[c] = "releasing"
    BY <1>1 DEF Release
  <2>2. misreleased \in BOOLEAN
    BY <1>1 DEF IInv, TypeOK
  <2>3. ~misreleased /\ \E d \in Client \ {c} : Owns(d, name[c])
    BY <1>1, <2>1, <2>2, Zenon
  <2>4. name[c] \in Name
    BY <1>1, <2>1 DEF IInv, Shapes, Shape, TypeOK
  <2>5. ~GaveUp(c) => Owns(c, name[c])
    BY DEF Owns
  <2> QED BY <1>1, <2>3, <2>4, <2>5 DEF IInv, HeldInv, Kept
<1>2. IInv => [\A c \in Client :
                 ~late /\ Release(c) /\ misreleased' # misreleased => GaveUp(c)]_vars
  BY <1>1
<1> QED BY <1>2, HeldInvariant, PTL DEF OwnRelease
=============================================================================
