--------------------------- MODULE TerminateWait ---------------------------
(***************************************************************************)
(* How a DiscoveryServerExample process ends.  Its main thread clears      *)
(* stop_ and waits on terminate_cv_ until stop_ is set; stop() sets it and *)
(* notifies WITHOUT taking terminate_cv_mtx_.  Whoever ends the process    *)
(* calls stop(): the SIGINT handler, the server's timeout thread, and the  *)
(* subscriber's data thread when it has counted max_messages_ samples,     *)
(* which it may have done before run() clears stop_.                       *)
(***************************************************************************)
EXTENDS Naturals

CONSTANTS
    Stoppers,       \* which of "data", "sigint", "timeout" may call stop()
    max_messages_,  \* 0 means no limit
    Sent            \* messages that will ever reach the reader

ASSUME StoppersAssumption == Stoppers \subseteq {"data", "sigint", "timeout"}
ASSUME CountsAssumption == max_messages_ \in Nat /\ Sent \in Nat

VARIABLES
    stop_,      \* the flag
    mpc,        \* the main thread: where it is in run()
    stopping,   \* each caller of stop(): before, between and after its two lines
    inbox,      \* samples in the reader's history
    arrived,    \* samples that have reached the reader
    samples_    \* samples counted by the listener

mainVars == <<mpc, stop_>>
readerVars == <<inbox, arrived, samples_>>
vars == <<mainVars, stopping, readerVars>>

TypeOK ==
    /\ stop_ \in BOOLEAN
    /\ mpc \in {"init", "installing", "check", "unlocking", "blocked", "done"}
    /\ stopping \in [Stoppers -> {"idle", "set", "notify", "over"}]
    /\ inbox \in 0..Sent
    /\ arrived \in 0..Sent
    /\ samples_ \in 0..Sent

\* init() has made the reader; run() is still to come.
Init ==
    /\ stop_ = FALSE
    /\ mpc = "init"
    /\ stopping = [c \in Stoppers |-> "idle"]
    /\ inbox = 0
    /\ arrived = 0
    /\ samples_ = 0

-----------------------------------------------------------------------------
(* The main thread.                                                        *)

\* stop_ = false, whatever the data thread has done since init().
Reset ==
    /\ mpc = "init"
    /\ stop_' = FALSE
    /\ mpc' = "installing"
    /\ UNCHANGED <<stopping, readerVars>>

\* signal(SIGINT, ..), and the timeout thread of the server.
Install ==
    /\ mpc = "installing"
    /\ mpc' = "check"
    /\ UNCHANGED <<stop_, stopping, readerVars>>

\* The predicate of wait(), evaluated under terminate_cv_mtx_.
Check ==
    /\ mpc = "check"
    /\ mpc' = IF stop_ THEN "done" ELSE "unlocking"
    /\ UNCHANGED <<stop_, stopping, readerVars>>

\* wait() releases the mutex and blocks.
Block ==
    /\ mpc = "unlocking"
    /\ mpc' = "blocked"
    /\ UNCHANGED <<stop_, stopping, readerVars>>

\* Definitions whose name ends in _bug are variants with a plausible mistake in
\* them; no action uses them.  They show that the properties can fail.

\* wait() without a predicate.
SpuriousWakeup_bug ==
    /\ mpc = "blocked"
    /\ mpc' = "done"
    /\ UNCHANGED <<stop_, stopping, readerVars>>

\* A condition variable may wake up for nothing.
SpuriousWakeup ==
    /\ mpc = "blocked"
    /\ mpc' = "check"
    /\ UNCHANGED <<stop_, stopping, readerVars>>

-----------------------------------------------------------------------------
(* stop().                                                                 *)

\* The user types CTRL+C, or the seconds of the timeout are over.  Before the
\* handler is installed SIGINT kills the process, and there is no thread.
Trigger(c) ==
    /\ c # "data" /\ stopping[c] = "idle"
    /\ mpc \in {"check", "unlocking", "blocked"}
    /\ stopping' = [stopping EXCEPT ![c] = "set"]
    /\ UNCHANGED <<mainVars, readerVars>>

\* stop_ = true;
SetStop(c) ==
    /\ stopping[c] = "set"
    /\ stop_' = TRUE
    /\ stopping' = [stopping EXCEPT ![c] = "notify"]
    /\ UNCHANGED <<mpc, readerVars>>

\* Nobody is notified.
Notify_bug(c) ==
    /\ stopping[c] = "notify"
    /\ stopping' = [stopping EXCEPT ![c] = IF c = "data" THEN "idle" ELSE "over"]
    /\ UNCHANGED <<mainVars, readerVars>>

\* terminate_cv_.notify_all(): wakes the main thread only if it is blocked now.
Notify(c) ==
    /\ stopping[c] = "notify"
    /\ mpc' = IF mpc = "blocked" THEN "check" ELSE mpc
    /\ stopping' = [stopping EXCEPT ![c] = IF c = "data" THEN "idle" ELSE "over"]
    /\ UNCHANGED <<stop_, readerVars>>

-----------------------------------------------------------------------------
(* The data thread of the subscriber: SubListener::on_data_available.      *)

Arrive ==
    /\ arrived < Sent
    /\ arrived' = arrived + 1
    /\ inbox' = inbox + 1
    /\ UNCHANGED <<mainVars, stopping, samples_>>

TakeNextSample == inbox > 0 /\ inbox' = inbox - 1

\* The count is compared with equality.
Enough_bug(n) == max_messages_ > 0 /\ n = max_messages_
Enough(n) == max_messages_ > 0 /\ n >= max_messages_

\* One turn of the loop: the sample is taken first and then dropped when the
\* process is stopping or its writer is gone.
Take ==
    /\ "data" \in Stoppers /\ stopping["data"] = "idle" /\ mpc # "done"
    /\ TakeNextSample
    /\ \/ UNCHANGED <<samples_, stopping>>
       \/ /\ ~stop_
          /\ samples_' = samples_ + 1
          /\ stopping' = IF Enough(samples_')
                         THEN [stopping EXCEPT !["data"] = "set"] ELSE stopping
    /\ UNCHANGED <<mainVars, arrived>>

-----------------------------------------------------------------------------
MainStep == Reset \/ Install \/ Check \/ Block
StopStep(c) == SetStop(c) \/ Notify(c)

Next ==
    \/ MainStep \/ SpuriousWakeup \/ Arrive \/ Take
    \/ \E c \in Stoppers : Trigger(c) \/ StopStep(c)

\* The threads keep running.  Nothing makes a message come, a user type
\* CTRL+C, or a condition variable wake up for nothing.
Fairness ==
    /\ WF_vars(MainStep) /\ WF_vars(Take)
    /\ \A c \in Stoppers : WF_vars(StopStep(c))

Spec == Init /\ [][Next]_vars
FairSpec == Spec /\ Fairness

-----------------------------------------------------------------------------
\* run() never returns by itself: somebody called stop() after stop_ was
\* cleared, and the data thread only when it had counted enough samples.
ReturnsForAReason ==
    mpc = "done" =>
        \/ \E c \in Stoppers \ {"data"} : stopping[c] \in {"notify", "over"}
        \/ max_messages_ > 0 /\ samples_ >= max_messages_

\* The subscriber counts one sample too many at the most, in the case that
\* run() cleared a stop_ the data thread had set.
OneTooManyAtMost ==
    max_messages_ > 0 => samples_ <= max_messages_ + 1

\* A stop() that sets stop_ while the main thread is blocked ends run(), even
\* when other calls of stop() wake it up first; the gap between the predicate
\* and the wait is the only place where one is lost after the start.
StopWhileBlockedEnds ==
    \A c \in Stoppers :
        (mpc = "blocked" /\ stop_ /\ stopping[c] = "notify") ~> mpc = "done"

\* DiscoveryServerSubscriber.h:136: "Waits during execution until SIGINT or
\* max_messages_ samples are received".
EnoughSamplesEnd ==
    (max_messages_ > 0 /\ samples_ >= max_messages_) ~> mpc = "done"
=============================================================================
