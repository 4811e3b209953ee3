------------------------------ MODULE Deadline ------------------------------
(***************************************************************************)
(* deadlinepayloadPublisher::run: three keys are written in turns, the     *)
(* third in every other turn only, and Fast DDS watches a deadline for     *)
(* each key from its first write on.                                       *)
(*                                                                         *)
(* Time is discrete.  A sleep ends at its due time or up to Slack later;   *)
(* the deadline timer runs in the unit in which a deadline falls, before   *)
(* or after a write in that unit.                                          *)
(***************************************************************************)
EXTENDS Integers

CONSTANTS Samples,      \* what --samples may be; 0, the default, means no end
          sleep,        \* --sleep
          deadline,     \* --deadline
          poll,         \* the 250 ms of the wait for a subscriber
          Slack,
          MaxTime       \* bound on the clock

ASSUME DeadlineAssumption ==
  /\ Samples \cup {sleep, poll, Slack, MaxTime} \subseteq Nat
  /\ deadline \in Nat \ {0}

Key == 0 .. 2
None == -1              \* no deadline is running yet

VARIABLES samples,      \* --samples
          now,
          n_matched,    \* info.total_count of the last (un)match, so never 0 again
          readers,      \* is a subscriber there?
          pc,           \* wait or loop
          wake,         \* when the publisher's sleep is over
          sample, double_time,
          writes,       \* per key: samples written
          due,          \* per key: the deadline that is running
          missed        \* per key: calls of on_offered_deadline_missed

deadlineVars == <<samples, now, n_matched, readers, pc, wake, sample, double_time,
          writes, due, missed>>

DeadlineInit ==
  /\ samples \in Samples
  /\ now = 0
  /\ n_matched = 0 /\ readers = FALSE
  /\ pc = "wait" /\ wake = 0
  /\ sample = 0 /\ double_time = FALSE
  /\ writes = [k \in Key |-> 0]
  /\ due = [k \in Key |-> None]
  /\ missed = [k \in Key |-> 0]

-----------------------------------------------------------------------------
(* total_count counts matches and is not lowered when a reader leaves.     *)
(* One subscriber comes and goes once.                                     *)
on_publication_matched ==
  /\ \/ ~readers /\ n_matched = 0 /\ readers' = TRUE
     \/ readers /\ readers' = FALSE
  /\ n_matched' = 1
  /\ UNCHANGED <<now, pc, wake, sample, double_time, writes, due, missed>>

WaitTurn ==
  /\ pc = "wait" /\ now >= wake
  /\ IF n_matched = 0
     THEN wake' = now + poll /\ UNCHANGED pc
     ELSE wake' = now + sleep /\ pc' = "loop"
  /\ UNCHANGED <<now, n_matched, readers, sample, double_time, writes, due, missed>>

AllSent == samples > 0 /\ sample = samples

(* double_time is turned over first: key 2 goes with turns 1, 3, 5, ...    *)
KeysOfTurn == {0, 1} \cup (IF double_time THEN {} ELSE {2})

(* The deadline a key has is not put off by its next write; or the period  *)
(* is set to twice of what was asked for.                                  *)
NextDeadline_bug(k) == IF due[k] = None THEN now + deadline ELSE due[k]

NextDeadline_twice_bug(k) == now + 2 * deadline

NextDeadline(k) == now + deadline

WriteTurn ==
  /\ pc = "loop" /\ now >= wake
  /\ ~AllSent
  /\ sample' = IF samples > 0 THEN sample + 1 ELSE sample
  /\ double_time' = ~double_time
  /\ writes' = [k \in Key |-> IF k \in KeysOfTurn THEN writes[k] + 1 ELSE writes[k]]
  /\ due' = [k \in Key |-> IF k \in KeysOfTurn THEN NextDeadline(k) ELSE due[k]]
  /\ wake' = now + sleep
  /\ UNCHANGED <<now, n_matched, readers, pc, missed>>

(* Stop sending samples but keep the publisher running.                    *)
IdleTurn ==
  /\ pc = "loop" /\ now >= wake
  /\ AllSent
  /\ wake' = now + sleep
  /\ UNCHANGED <<now, n_matched, readers, pc, sample, double_time, writes, due, missed>>

(* The timer of Fast DDS counts, and starts the next period of the key.    *)
on_offered_deadline_missed ==
  \E k \in Key :
    /\ due[k] # None /\ now >= due[k]
    /\ missed' = [missed EXCEPT ![k] = @ + 1]
    /\ due' = [due EXCEPT ![k] = @ + deadline]
    /\ UNCHANGED <<now, n_matched, readers, pc, wake, sample, double_time, writes>>

Tick ==
  /\ now < MaxTime
  /\ now < wake + Slack
  /\ \A k \in Key : due[k] = None \/ now < due[k]
  /\ now' = now + 1
  /\ UNCHANGED <<n_matched, readers, pc, wake, sample, double_time, writes, due, missed>>

DeadlineNext ==
  /\ \/ on_publication_matched \/ WaitTurn \/ WriteTurn \/ IdleTurn
     \/ on_offered_deadline_missed \/ Tick
  /\ UNCHANGED samples

DeadlineSpec == DeadlineInit /\ [][DeadlineNext]_deadlineVars

-----------------------------------------------------------------------------
(* As long as samples are sent, and a turn is shorter than the deadline,   *)
(* the first two keys miss none, oversleeping included.                    *)
FrequentKeysMeetDeadline ==
  sleep + Slack < deadline /\ ~AllSent => missed[0] = 0 /\ missed[1] = 0

(* If two turns are longer than the deadline, the third key misses one     *)
(* between any two of its samples.                                         *)
RareKeyMisses ==
  2 * sleep > deadline => missed[2] >= writes[2] - 1
=============================================================================
