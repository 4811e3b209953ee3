------------------------------ MODULE Lifespan ------------------------------
(***************************************************************************)
(* LifespanPublisher::run and LifespanSubscriber::run with the expiry of   *)
(* samples in both histories, in discrete time.                            *)
(*                                                                         *)
(* A sleep ends at its due time or up to Slack later; a sample leaves a    *)
(* history in the unit of time in which its lifespan ends, before or after *)
(* what a thread does in that unit; discovery and delivery take any time.  *)
(***************************************************************************)
EXTENDS Integers, FiniteSets

CONSTANTS samples,          \* the publisher's number of samples
          number,           \* what the subscriber waits for: always 10
          lifespans,        \* lifespans that the two may be given
          write_sleep, sleep, sub_sleep, poll_sleep,
          Slack,
          MaxTime           \* bound on the clock

ASSUME SampleAssumption == {samples, number} \subseteq Nat \ {0}
ASSUME TimeAssumption ==
  lifespans \cup {write_sleep, sleep, sub_sleep, poll_sleep, Slack, MaxTime}
    \subseteq Nat

VARIABLES lifespan,         \* lifespan of the publisher's samples
          sub_lifespan,     \* lifespan the subscriber was given
          now,
          born,             \* per sample: when it was written
          first_connected,
          pub_pc,           \* loop, sleep or cleared
          pub_wake,         \* when the publisher's sleep is over
          index,            \* samples written
          writer_history,
          removed,          \* what clear_history reported
          inflight,         \* written, not yet at the reader
          sub_pc,           \* poll, sleep, take or end
          sub_wake,
          n_samples,        \* calls of on_data_available
          reader_history,
          turns,            \* turns of the take loop
          taken             \* samples it took

pubVars == <<first_connected, pub_pc, pub_wake, index, born, removed>>
subVars == <<sub_pc, sub_wake, turns, taken>>
vars == <<lifespan, sub_lifespan, now, pubVars, writer_history, inflight,
          subVars, n_samples, reader_history>>

Sample == 1 .. samples

Init ==
  /\ lifespan \in lifespans /\ sub_lifespan \in lifespans
  /\ now = 0
  /\ born = [x \in Sample |-> 0]
  /\ first_connected = FALSE
  /\ pub_pc = "loop" /\ pub_wake = 0
  /\ index = 0
  /\ writer_history = {} /\ inflight = {} /\ reader_history = {}
  /\ removed = 0
  /\ sub_pc = "poll" /\ sub_wake = 0
  /\ n_samples = 0 /\ turns = 0
  /\ taken = {}

-----------------------------------------------------------------------------
on_publication_matched ==
  /\ ~first_connected
  /\ first_connected' = TRUE
  /\ UNCHANGED <<now, pub_pc, pub_wake, index, born, removed, writer_history,
                 inflight, subVars, n_samples, reader_history>>

(* publish() refuses until there was a match; the turn is then repeated.   *)
PublishTurn ==
  /\ pub_pc = "loop" /\ now >= pub_wake /\ index < samples
  /\ IF first_connected
     THEN /\ index' = index + 1
          /\ born' = [born EXCEPT ![index'] = now]
          /\ writer_history' = writer_history \cup {index'}
          /\ inflight' = inflight \cup {index'}
     ELSE UNCHANGED <<index, born, writer_history, inflight>>
  /\ pub_wake' = now + write_sleep
  /\ UNCHANGED <<now, first_connected, pub_pc, removed, subVars, n_samples, reader_history>>

PublishLoopEnds_bug ==
  /\ pub_pc = "loop" /\ now >= pub_wake /\ index = samples
  /\ pub_pc' = "sleep"
  /\ pub_wake' = now
  /\ UNCHANGED <<now, first_connected, index, born, removed, writer_history,
                 inflight, subVars, n_samples, reader_history>>

PublishLoopEnds ==
  /\ pub_pc = "loop" /\ now >= pub_wake /\ index = samples
  /\ pub_pc' = "sleep"
  /\ pub_wake' = now + sleep
  /\ UNCHANGED <<now, first_connected, index, born, removed, writer_history,
                 inflight, subVars, n_samples, reader_history>>

clear_history ==
  /\ pub_pc = "sleep" /\ now >= pub_wake
  /\ removed' = Cardinality(writer_history)
  /\ writer_history' = {}
  /\ pub_pc' = "cleared"
  /\ UNCHANGED <<now, first_connected, pub_wake, index, born, inflight,
                 subVars, n_samples, reader_history>>

-----------------------------------------------------------------------------
(* Fast DDS's timers.                                                      *)
ExpiredAtWriter_bug(x) == now >= born[x]

ExpiredAtWriter(x) == now >= born[x] + lifespan
ExpiredAtReader(x) == now >= born[x] + sub_lifespan

WriterExpires ==
  \E x \in writer_history :
    /\ ExpiredAtWriter(x)
    /\ writer_history' = writer_history \ {x}
    /\ UNCHANGED <<now, pubVars, inflight, subVars, n_samples, reader_history>>

ReaderExpires ==
  \E x \in reader_history :
    /\ ExpiredAtReader(x)
    /\ reader_history' = reader_history \ {x}
    /\ UNCHANGED <<now, pubVars, writer_history, inflight, subVars, n_samples>>

(* One or several samples reach the reader, oldest first, and the listener *)
(* is called once; it may not be for a sample that comes expired.          *)
on_data_available ==
  \E arrived \in (SUBSET inflight) \ {{}} :
    LET fresh == {x \in arrived : ~ExpiredAtReader(x)}
    IN /\ \A x \in arrived, y \in inflight \ arrived : x < y
       /\ inflight' = inflight \ arrived
       /\ reader_history' = reader_history \cup fresh
       /\ \/ n_samples' = n_samples + 1
          \/ fresh = {} /\ n_samples' = n_samples
       /\ UNCHANGED <<now, pubVars, writer_history, subVars>>

(* What the writer no longer has may never arrive.                         *)
NeverArrives ==
  \E x \in inflight \ writer_history :
    /\ inflight' = inflight \ {x}
    /\ UNCHANGED <<now, pubVars, writer_history, subVars, n_samples, reader_history>>

-----------------------------------------------------------------------------
SubscriberPolls ==
  /\ sub_pc = "poll" /\ now >= sub_wake
  /\ IF number > n_samples
     THEN sub_wake' = now + poll_sleep /\ UNCHANGED sub_pc
     ELSE sub_wake' = now + sub_sleep /\ sub_pc' = "sleep"
  /\ UNCHANGED <<now, pubVars, writer_history, inflight, turns, taken,
                 n_samples, reader_history>>

SubscriberWakes_bug ==
  /\ sub_pc = "poll" /\ n_samples >= number
  /\ sub_pc' = "take"
  /\ UNCHANGED <<now, pubVars, writer_history, inflight, sub_wake, turns, taken,
                 n_samples, reader_history>>

SubscriberWakes ==
  /\ sub_pc = "sleep" /\ now >= sub_wake
  /\ sub_pc' = "take"
  /\ UNCHANGED <<now, pubVars, writer_history, inflight, sub_wake, turns, taken,
                 n_samples, reader_history>>

(* take_next_sample; the loop's bound n_samples still grows.               *)
TakeTurn ==
  /\ sub_pc = "take" /\ turns < n_samples
  /\ turns' = turns + 1
  /\ \/ reader_history = {} /\ UNCHANGED <<reader_history, taken>>
     \/ \E x \in reader_history :
          /\ \A y \in reader_history : x <= y
          /\ reader_history' = reader_history \ {x}
          /\ taken' = taken \cup {x}
  /\ UNCHANGED <<now, pubVars, writer_history, inflight, sub_pc, sub_wake, n_samples>>

TakeLoopEnds ==
  /\ sub_pc = "take" /\ turns >= n_samples
  /\ sub_pc' = "end"
  /\ UNCHANGED <<now, pubVars, writer_history, inflight, sub_wake, turns, taken,
                 n_samples, reader_history>>

-----------------------------------------------------------------------------
(* Time passes while every timer and every sleeper is within its bounds.   *)
Tick ==
  /\ now < MaxTime
  /\ \A x \in writer_history : ~ExpiredAtWriter(x)
  /\ \A x \in reader_history : ~ExpiredAtReader(x)
  /\ pub_pc \in {"loop", "sleep"} => now < pub_wake + Slack
  /\ sub_pc \in {"poll", "sleep"} => now < sub_wake + Slack
  /\ now' = now + 1
  /\ UNCHANGED <<pubVars, writer_history, inflight, subVars, n_samples, reader_history>>

Publisher  == PublishTurn \/ PublishLoopEnds \/ clear_history
Subscriber == SubscriberPolls \/ SubscriberWakes \/ TakeTurn \/ TakeLoopEnds
Middleware == on_publication_matched \/ WriterExpires \/ ReaderExpires
              \/ on_data_available \/ NeverArrives

Next ==
  /\ Publisher \/ Subscriber \/ Middleware \/ Tick
  /\ UNCHANGED <<lifespan, sub_lifespan>>

Spec == Init /\ [][Next]_vars

-----------------------------------------------------------------------------
(* clear_history removes nothing if every sample's lifespan is over by     *)
(* then: it comes sleep after the loop, whose last turn sleeps as well.    *)
RemovesNothingIfShort ==
  lifespan < write_sleep + sleep => removed = 0

(* It removes the last sample at least if that outlives both sleeps, their *)
(* oversleeping included.                                                  *)
RemovesIfLong ==
  lifespan > write_sleep + sleep + 2 * Slack /\ pub_pc = "cleared" => removed > 0

(* A subscriber that waits for all of the publisher's samples, and then    *)
(* longer than their lifespan, takes none.                                 *)
TakesNothingIfShort ==
  samples <= number /\ sub_lifespan < sub_sleep => taken = {}
=============================================================================
