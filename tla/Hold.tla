-------------------------------- MODULE Hold --------------------------------
(***************************************************************************)
(* The holding mechanism common to all the backends                        *)
(* (pkg/internal/hold/hold.go): a goroutine keeps a name alive while its   *)
(* client uses it, and the release function stops the goroutine before it  *)
(* releases the name.  The two share three channels: stopKeepAlive and     *)
(* keepAliveDone, which are only ever closed, and errc, of capacity 1.     *)
(*                                                                         *)
(* The backend is a table of names with the age of the last sign of life   *)
(* of each, as in NameManager.  A call to it may fail before or after it   *)
(* took effect, and over REST it may still take effect after it failed; it *)
(* may take any time.  late records that one took longer than Latency, or  *)
(* that a goroutine that was ready was held up.  The pause of retry.Do     *)
(* before a new attempt is part of that attempt's latency.                 *)
(***************************************************************************)
EXTENDS Integers

CONSTANTS
  Client,            \* the users of Hold and TryHold
  Name,              \* the names of one family
  None,              \* the absent value
  AutoReleaseAfter,  \* options.autoReleaseAfter in ticks; 0 disables it
  Latency,           \* ticks an attempt takes when nothing is late
  Attempts,          \* retry.Attempts
  RestInterval       \* the keepAliveInterval of a REST URL; None for other backends

ASSUME AutoReleaseAssumption == AutoReleaseAfter \in Nat
ASSUME LatencyAssumption == Latency \in Nat
ASSUME AttemptsAssumption == Attempts \in Nat \ {0}
ASSUME NoneAssumption == None \notin Nat \cup Name
ASSUME RestIntervalAssumption == RestInterval \in Nat \cup {None}

\* A REST client does not know the period of the server it talks to.
KeepAliveInterval == IF RestInterval = None THEN AutoReleaseAfter \div 3 ELSE RestInterval

VARIABLES
  main,   \* where the client's own goroutine is
  name,   \* the name it was given
  keeper, \* where the keep-alive goroutine is
  trial,  \* the attempt retry.Do is at
  clock,  \* ticks since the keeper armed its timer, or began its attempt
  stop,   \* whether stopKeepAlive is closed
  errc,   \* number of errors in the error channel
  told,   \* whether the client received an error from it
  age,    \* the backend's table: age of the names in use, None for the free ones
  delayed,     \* names with a KeepAlive that failed and may yet reach the server
  misreleased, \* history: a client released a name another one kept alive
  late         \* history: a goroutine or a call took longer than it should

vars == <<main, name, keeper, trial, clock, stop, errc, told, age, delayed, misreleased, late>>

Age == 0 .. AutoReleaseAfter + 1
Clock == 0 .. KeepAliveInterval + Latency

TypeOK ==
  /\ main \in [Client -> {"idle", "holding", "stopping", "releasing"}]
  /\ name \in [Client -> Name \cup {None}]
  /\ keeper \in [Client -> {"none", "waiting", "calling", "applied", "sending", "done"}]
  /\ trial \in [Client -> 1 .. Attempts]
  /\ clock \in [Client -> Clock]
  /\ stop \in [Client -> BOOLEAN]
  /\ errc \in [Client -> 0 .. 1]
  /\ told \in [Client -> BOOLEAN]
  /\ age \in [Name -> Age \cup {None}]
  /\ delayed \subseteq Name
  /\ misreleased \in BOOLEAN
  /\ late \in BOOLEAN

Init ==
  /\ main = [c \in Client |-> "idle"]
  /\ name = [c \in Client |-> None]
  /\ keeper = [c \in Client |-> "none"]
  /\ trial = [c \in Client |-> 1]
  /\ clock = [c \in Client |-> 0]
  /\ stop = [c \in Client |-> FALSE]
  /\ errc = [c \in Client |-> 0]
  /\ told = [c \in Client |-> FALSE]
  /\ age = [n \in Name |-> None]
  /\ delayed = {}
  /\ misreleased = FALSE
  /\ late = FALSE

-----------------------------------------------------------------------------
(* Taking a name. *)

\* Free, or a zombie that the next acquisition releases.
Grantable(n) == age[n] # None => AutoReleaseAfter > 0 /\ age[n] > AutoReleaseAfter

\* holdCommon only starts the goroutine when there is an interval.
firstKeeper == IF KeepAliveInterval > 0 THEN "waiting" ELSE "none"

\* Hold and TryHold: the manager grants n, and holdCommon makes the channels and
\* starts the keeper.  When the manager refuses, nothing changes.
Hold(c, n) ==
  /\ main[c] = "idle"
  /\ Grantable(n)
  /\ age' = [age EXCEPT ![n] = 0]
  /\ name' = [name EXCEPT ![c] = n]
  /\ main' = [main EXCEPT ![c] = "holding"]
  /\ keeper' = [keeper EXCEPT ![c] = firstKeeper]
  /\ clock' = [clock EXCEPT ![c] = 0]
  /\ trial' = [trial EXCEPT ![c] = 1]
  /\ stop' = [stop EXCEPT ![c] = FALSE]
  /\ errc' = [errc EXCEPT ![c] = 0]
  /\ told' = [told EXCEPT ![c] = FALSE]
  /\ UNCHANGED <<delayed, misreleased, late>>

-----------------------------------------------------------------------------
(* The keep-alive goroutine. *)

\* The select statement.  When the timer is due and stop is closed, either
\* branch may be taken.
SeeStop(c) ==
  /\ keeper[c] = "waiting"
  /\ stop[c]
  /\ keeper' = [keeper EXCEPT ![c] = "done"]
  /\ UNCHANGED <<main, name, trial, clock, stop, errc, told, age, delayed, misreleased, late>>

TimerDue(c) == keeper[c] = "waiting" /\ clock[c] >= KeepAliveInterval

Fire(c) ==
  /\ TimerDue(c)
  /\ keeper' = [keeper EXCEPT ![c] = "calling"]
  /\ clock' = [clock EXCEPT ![c] = 0]
  /\ trial' = [trial EXCEPT ![c] = 1]
  /\ UNCHANGED <<main, name, stop, errc, told, age, delayed, misreleased, late>>

\* The backend applies the KeepAlive: a name in use is fresh again, whoever
\* uses it; a free one stays free, and that is no error.
Apply(c) ==
  /\ keeper[c] = "calling"
  /\ age' = [age EXCEPT ![name[c]] = IF @ = None THEN None ELSE 0]
  /\ keeper' = [keeper EXCEPT ![c] = "applied"]
  /\ UNCHANGED <<main, name, trial, clock, stop, errc, told, delayed, misreleased, late>>

\* Mutant of Answer: the goroutine ends after its first success.
AnswerOnce(c) ==
  /\ keeper[c] = "applied"
  /\ keeper' = [keeper EXCEPT ![c] = "done"]
  /\ clock' = [clock EXCEPT ![c] = 0]
  /\ UNCHANGED <<main, name, trial, stop, errc, told, age, delayed, misreleased, late>>

\* KeepAlive returns nil; the loop arms the next timer.
Answer(c) ==
  /\ keeper[c] = "applied"
  /\ keeper' = [keeper EXCEPT ![c] = "waiting"]
  /\ clock' = [clock EXCEPT ![c] = 0]
  /\ UNCHANGED <<main, name, trial, stop, errc, told, age, delayed, misreleased, late>>

\* Mutant of Fail: the goroutine returns without an error after the last attempt.
FailSilently(c) ==
  /\ keeper[c] \in {"calling", "applied"}
  /\ \/ /\ trial[c] < Attempts
        /\ trial' = [trial EXCEPT ![c] = @ + 1]
        /\ keeper' = [keeper EXCEPT ![c] = "calling"]
     \/ /\ trial[c] = Attempts
        /\ keeper' = [keeper EXCEPT ![c] = "done"]
        /\ UNCHANGED trial
  /\ clock' = [clock EXCEPT ![c] = 0]
  /\ UNCHANGED <<main, name, stop, errc, told, age, delayed, misreleased, late>>

\* Mutant of Fail: one attempt more than retry.Attempts.
FailOnceMore(c) ==
  /\ keeper[c] \in {"calling", "applied"}
  /\ \/ /\ trial[c] <= Attempts
        /\ trial' = [trial EXCEPT ![c] = @ + 1]
        /\ keeper' = [keeper EXCEPT ![c] = "calling"]
     \/ /\ trial[c] > Attempts
        /\ keeper' = [keeper EXCEPT ![c] = "sending"]
        /\ UNCHANGED trial
  /\ clock' = [clock EXCEPT ![c] = 0]
  /\ UNCHANGED <<main, name, stop, errc, told, age, delayed, misreleased, late>>

\* KeepAlive fails, whether or not it took effect; over REST the request may also
\* take effect later.  retry.Do tries again, without a look at stop, until its
\* attempts are used up or the error is unrecoverable, as the REST backend makes it
\* when it cannot read an answer.
Fail(c) ==
  /\ keeper[c] \in {"calling", "applied"}
  /\ \/ UNCHANGED delayed
     \/ /\ RestInterval # None
        /\ keeper[c] = "calling"
        /\ delayed' = delayed \cup {name[c]}
  /\ \/ /\ trial[c] < Attempts
        /\ trial' = [trial EXCEPT ![c] = @ + 1]
        /\ keeper' = [keeper EXCEPT ![c] = "calling"]
     \/ /\ trial[c] = Attempts \/ RestInterval # None
        /\ keeper' = [keeper EXCEPT ![c] = "sending"]
        /\ UNCHANGED trial
  /\ clock' = [clock EXCEPT ![c] = 0]
  /\ UNCHANGED <<main, name, stop, errc, told, age, misreleased, late>>

\* The request of a failed KeepAlive reaches the server after all.
Deliver(n) ==
  /\ n \in delayed
  /\ delayed' = delayed \ {n}
  /\ age' = [age EXCEPT ![n] = IF @ = None THEN None ELSE 0]
  /\ UNCHANGED <<main, name, keeper, trial, clock, stop, errc, told, misreleased, late>>

\* Mutant of Send: the channel is not buffered, the client must be receiving.
SendUnbuffered(c) ==
  /\ keeper[c] = "sending"
  /\ main[c] = "holding"
  /\ told' = [told EXCEPT ![c] = TRUE]
  /\ keeper' = [keeper EXCEPT ![c] = "done"]
  /\ UNCHANGED <<main, name, trial, clock, stop, errc, age, delayed, misreleased, late>>

\* errc <- err blocks while the buffer is full; then the goroutine returns.
Send(c) ==
  /\ keeper[c] = "sending"
  /\ errc[c] < 1
  /\ errc' = [errc EXCEPT ![c] = @ + 1]
  /\ keeper' = [keeper EXCEPT ![c] = "done"]
  /\ UNCHANGED <<main, name, trial, clock, stop, told, age, delayed, misreleased, late>>

-----------------------------------------------------------------------------
(* The client. *)

\* It may look at the error channel, or never do so.
Receive(c) ==
  /\ main[c] = "holding"
  /\ errc[c] > 0
  /\ errc' = [errc EXCEPT ![c] = @ - 1]
  /\ told' = [told EXCEPT ![c] = TRUE]
  /\ UNCHANGED <<main, name, keeper, trial, clock, stop, age, delayed, misreleased, late>>

\* The release function, called once, closes stopKeepAlive.
CallRelease(c) ==
  /\ main[c] = "holding"
  /\ main' = [main EXCEPT ![c] = "stopping"]
  /\ stop' = [stop EXCEPT ![c] = keeper[c] # "none"]
  /\ UNCHANGED <<name, keeper, trial, clock, errc, told, age, delayed, misreleased, late>>

\* Mutant of Stopped: the release function does not wait for keepAliveDone.
StoppedAtOnce(c) ==
  /\ main[c] = "stopping"
  /\ main' = [main EXCEPT ![c] = "releasing"]
  /\ clock' = [clock EXCEPT ![c] = 0]
  /\ UNCHANGED <<name, keeper, trial, stop, errc, told, age, delayed, misreleased, late>>

\* It waits for keepAliveDone if there is a goroutine, closes errc, and calls
\* Release on the manager.
Stopped(c) ==
  /\ main[c] = "stopping"
  /\ keeper[c] \in {"none", "done"}
  /\ main' = [main EXCEPT ![c] = "releasing"]
  /\ clock' = [clock EXCEPT ![c] = 0]
  /\ UNCHANGED <<name, keeper, trial, stop, errc, told, age, delayed, misreleased, late>>

\* The client no longer has its name, its goroutine or its channels.
Forget(c) ==
  /\ main' = [main EXCEPT ![c] = "idle"]
  /\ name' = [name EXCEPT ![c] = None]
  /\ keeper' = [keeper EXCEPT ![c] = "none"]
  /\ clock' = [clock EXCEPT ![c] = 0]
  /\ trial' = [trial EXCEPT ![c] = 1]
  /\ stop' = [stop EXCEPT ![c] = FALSE]
  /\ errc' = [errc EXCEPT ![c] = 0]
  /\ told' = [told EXCEPT ![c] = FALSE]

\* The keeper of c ran out of attempts.
GaveUp(c) == keeper[c] = "sending" \/ errc[c] = 1 \/ told[c]

Owns(c, n) == name[c] = n /\ ~GaveUp(c)

\* Release frees the name whoever uses it, or fails and leaves it in use.
Release(c) ==
  /\ main[c] = "releasing"
  /\ Forget(c)
  /\ \/ /\ age' = [age EXCEPT ![name[c]] = None]
        /\ misreleased' = (misreleased \/ \E d \in Client \ {c} : Owns(d, name[c]))
     \/ UNCHANGED <<age, misreleased>>
  /\ UNCHANGED <<delayed, late>>

\* The process dies; the name stays in use.
Crash(c) ==
  /\ main[c] # "idle"
  /\ Forget(c)
  /\ UNCHANGED <<age, delayed, misreleased, late>>

-----------------------------------------------------------------------------

Busy(c) == keeper[c] \in {"calling", "applied"} \/ main[c] = "releasing"

\* What c does next is late if it waits another tick.
Urgent(c) ==
  \/ TimerDue(c)
  \/ keeper[c] = "waiting" /\ stop[c]
  \/ keeper[c] = "sending"
  \/ main[c] = "stopping" /\ keeper[c] \in {"none", "done"}
  \/ Busy(c) /\ clock[c] >= Latency

Tick ==
  /\ late' = (late \/ \E c \in Client : Urgent(c))
  /\ age' = [n \in Name |-> IF age[n] = None \/ age[n] > AutoReleaseAfter
                           THEN age[n] ELSE age[n] + 1]
  /\ clock' = [c \in Client |->
                 IF (keeper[c] = "waiting" \/ Busy(c)) /\ clock[c] + 1 \in Clock
                 THEN clock[c] + 1 ELSE clock[c]]
  /\ UNCHANGED <<main, name, keeper, trial, stop, errc, told, delayed, misreleased>>

Keeper(c) == SeeStop(c) \/ Fire(c) \/ Apply(c) \/ Answer(c) \/ Fail(c) \/ Send(c)

Next ==
  \/ \E c \in Client, n \in Name : Hold(c, n)
  \/ \E n \in Name : Deliver(n)
  \/ \E c \in Client :
       Keeper(c) \/ Receive(c) \/ CallRelease(c) \/ Stopped(c) \/ Release(c) \/ Crash(c)
  \/ Tick

Spec == Init /\ [][Next]_vars

\* Goroutines run, and calls to the backend are answered.  Between two branches
\* that are ready, select chooses at random: it does not for ever pass over the
\* closed stopKeepAlive.
Fairness ==
  \A c \in Client :
    /\ WF_vars(Keeper(c)) /\ SF_vars(SeeStop(c))
    /\ WF_vars(Stopped(c)) /\ WF_vars(Release(c))

FairSpec == Spec /\ Fairness

-----------------------------------------------------------------------------
(* Properties. *)

\* From Hold to the end of the release function a name stays its holder's, unless
\* the keeper gave up: through every retry the code makes it does not get old
\* enough for the automatic release, and nobody else owns the same one.  This
\* needs a backend that answers in time and nobody who releases others' names.
HeldNameKept ==
  ~misreleased /\ ~late =>
    \A c \in Client, n \in Name : Owns(c, n) =>
      ~Grantable(n) /\ \A d \in Client \ {c} : ~Owns(d, n)

\* While nothing is late, the first release function that takes a name from its
\* new owner is that of a hold whose keeper gave up.  (The owner that lost its name
\* this way does not know, and may then take the name from the next one.)
OwnRelease ==
  [][\A c \in Client :
       ~late /\ Release(c) /\ misreleased' # misreleased => GaveUp(c)]_vars

\* From when the release function closes errc and calls Release, the goroutine
\* neither sends on the closed channel nor begins to refresh a name that may already
\* be somebody else's.  (A request of an attempt that failed before may still do so.)
QuietAfterStop ==
  \A c \in Client : main[c] \in {"idle", "releasing"} => keeper[c] \in {"none", "done"}

\* A holder whose keeper is gone has been told, or has the error waiting.
LossReported ==
  \A c \in Client : main[c] = "holding" /\ keeper[c] = "done" => errc[c] = 1 \/ told[c]

\* The release function returns, even if nobody ever reads the error channel.
ReleaseReturns == \A c \in Client : main[c] = "stopping" ~> main[c] = "idle"
=============================================================================
