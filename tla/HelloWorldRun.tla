--------------------------- MODULE HelloWorldRun ----------------------------
(***************************************************************************)
(* The publisher of DiscoveryServerExample from run() to its end, together *)
(* with a subscriber, whose end TerminateWait describes.  The main thread  *)
(* of the publisher starts runThread() and joins it, runThread() publishes *)
(* and sleeps until enough samples are out or stop_ is set, and SIGINT,    *)
(* once its handler is installed, sets stop_.  What it publishes may reach *)
(* the subscriber.                                                         *)
(***************************************************************************)
EXTENDS TerminateWait

CONSTANTS
    Samples,    \* what the user may ask for; 0 means no limit
    Width       \* of the index: an unsigned long wraps around at Width

ASSUME WidthAssumption == Width \in Nat \ {0} /\ Samples \subseteq 0..(Width - 1)

VARIABLES
    samples,    \* what he asked for
    pub_stop,   \* HelloWorldPublisher::stop_, set by SIGINT
    pub_main,   \* the main thread
    worker,     \* runThread()
    handler,    \* is the SIGINT handler installed?
    index,      \* hello_.index()
    late,       \* samples written since pub_stop was set
    written     \* samples written, as far as Sent

publisherVars == <<samples, pub_stop, pub_main, worker, handler, index, late, written>>
helloVars == <<vars, publisherVars>>

PublisherInit ==
    /\ samples \in Samples
    /\ pub_stop = FALSE
    /\ pub_main = "start"
    /\ worker = "none"
    /\ handler = FALSE
    /\ index = 0
    /\ late = 0
    /\ written = 0

-----------------------------------------------------------------------------
(* run()                                                                   *)

\* stop_ = false; std::thread thread(&HelloWorldPublisher::runThread, ..)
StartThread ==
    /\ pub_main = "start"
    /\ pub_stop' = FALSE
    /\ worker' = "check"
    /\ pub_main' = "started"
    /\ UNCHANGED <<samples, handler, index, late, written>>

\* signal(SIGINT, ..): the thread may be anywhere by now, even done.
InstallHandler ==
    /\ pub_main = "started"
    /\ handler' = TRUE
    /\ pub_main' = "join"
    /\ UNCHANGED <<samples, pub_stop, worker, index, late, written>>

\* run() returns, and main() deletes the participant.
Join ==
    /\ pub_main = "join" /\ worker = "over"
    /\ pub_main' = "done"
    /\ UNCHANGED <<samples, pub_stop, worker, handler, index, late, written>>

-----------------------------------------------------------------------------
(* runThread()                                                             *)

AllSent == samples # 0 /\ index >= samples

\* Variants, as in TerminateWait: the thread stays when all is sent, and only
\* looks at stop_; or stop_ is not looked at.
CheckLoop_stays_bug ==
    /\ worker = "check"
    /\ worker' = IF pub_stop THEN "over" ELSE IF AllSent THEN "sleep" ELSE "publish"
    /\ UNCHANGED <<samples, pub_stop, pub_main, handler, index, late, written>>

CheckLoop_bug ==
    /\ worker = "check"
    /\ worker' = IF AllSent THEN "over" ELSE "publish"
    /\ UNCHANGED <<samples, pub_stop, pub_main, handler, index, late, written>>

\* The condition of the loop; stop_ is read before the index.
CheckLoop ==
    /\ worker = "check"
    /\ worker' = IF pub_stop \/ AllSent THEN "over" ELSE "publish"
    /\ UNCHANGED <<samples, pub_stop, pub_main, handler, index, late, written>>

\* publish()
Publish ==
    /\ worker = "publish"
    /\ index' = (index + 1) % Width
    /\ late' = IF pub_stop THEN late + 1 ELSE late
    /\ written' = IF written < Sent THEN written + 1 ELSE written
    /\ worker' = "sleep"
    /\ UNCHANGED <<samples, pub_stop, pub_main, handler>>

Wake ==
    /\ worker = "sleep"
    /\ worker' = "check"
    /\ UNCHANGED <<samples, pub_stop, pub_main, handler, index, late, written>>

-----------------------------------------------------------------------------
\* CTRL+C: stop() if there is a handler, else the process is killed.
Sigint ==
    /\ pub_main \notin {"done", "killed"}
    /\ IF handler
         THEN pub_stop' = TRUE /\ UNCHANGED <<pub_main, worker>>
         ELSE pub_main' = "killed" /\ worker' = "none" /\ UNCHANGED pub_stop
    /\ UNCHANGED <<samples, handler, index, late, written>>

-----------------------------------------------------------------------------
PublisherMain == StartThread \/ InstallHandler \/ Join
Worker == CheckLoop \/ Publish \/ Wake

\* A sample arrives after it was written, or never.
SubscriberStep ==
    /\ Next
    /\ arrived' # arrived => arrived < written
    /\ UNCHANGED publisherVars

HelloInit == Init /\ PublisherInit
HelloNext ==
    \/ (PublisherMain \/ Worker \/ Sigint) /\ UNCHANGED vars
    \/ SubscriberStep

\* The threads of both keep running; nobody has to type CTRL+C.
PublisherFairness == WF_publisherVars(PublisherMain) /\ WF_publisherVars(Worker)

HelloSpec == HelloInit /\ [][HelloNext]_helloVars /\ Fairness /\ PublisherFairness

-----------------------------------------------------------------------------
\* run() returns only because SIGINT came or as many samples are out as were
\* asked for, no more and no less, and never more than one is written after
\* the SIGINT, wherever in its turn it caught the thread.
EndsAsAsked ==
    /\ late <= 1
    /\ pub_main = "done" => pub_stop \/ (samples # 0 /\ index = samples)

\* The publisher ends once SIGINT has come, also before the thread was first
\* run, and without it if a number of samples was asked for, however the
\* index wraps around.
PublisherEnds ==
    (pub_stop \/ samples # 0) ~> pub_main \in {"done", "killed"}
=============================================================================
