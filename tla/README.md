# A TLA+ development for DDSTEST

DDSTEST is a collection of small C++ programs built on Fast DDS, plus one pair
of plain TCP programs.  What can go wrong in them is mostly in the order of
calls: callbacks of middleware threads against a main thread, samples against
discovery, destructors against the refusals of the library, sleeps against
timers; and in things written twice that must agree: QoS tables, generated
types, command lines and files that several processes read.  These modules state what the programs do in that
respect, check it on small instances with TLC, and prove the central results
for all instances with TLAPS.

## 1. The system

| Part | Source | State it keeps | Operations | Talks to |
|---|---|---|---|---|
| Entity classes | `ddsQos/Publisher.cpp`, `ddsQos/Subscriber.cpp`, and the publisher and subscriber of four examples | participant, group, topics, endpoints, the pointers to them | `init()`, destructor | Fast DDS factory; objects of one process share its participants |
| ddsQos programs | `ddsQos/Main.cpp` | the word's `m_type`, the loop's index | `main`, `RunPublisher`, `RunPubDataChunk`, `RunSubscriber`, `RunGrpc`, `RunDiscover` | each other, through DDS topics and a discovery server |
| ddsQos request/reply | `Subscriber.cpp:38-135`, `Main.cpp:35-62,99-137` | `m_matched`, `retry_count`, the temporary `MainPublisher` | `on_data_available`, `on_publication_matched`, `SendMsg` | client and server processes |
| ddsQos QoS tables | `Publisher.cpp:288-372`, `Subscriber.cpp:233-372` | none | `initPubType`, `initSubType` | decide who matches and what histories keep |
| Discover registry | `ddsQos/Discover.cpp`, `ddsQos/Discover.hpp` | `m_participant` (guid to name), two counters | three discovery callbacks | Fast DDS's list of participants, and its threads |
| OwnershipStrength | `OwnershipStrengthQoSExample/` | `strengthMap`, `n_msg` | `DeregisterPublisher`, `IsMessageStrong` | discovery thread and data thread |
| DiscoveryServerExample, start | `DiscoveryServer_main.cpp`, `arg_configuration.h`, the three `init()` | the configuration of a process, the participant it makes | parsing and checking the command line, `init()` | the servers it names, and through them clients of the other kind |
| DiscoveryServerExample, run | `DiscoveryServerPublisher.cpp`, `DiscoveryServerSubscriber.cpp`, `DiscoveryServerServer.cpp` | `stop_`, `terminate_cv_`, `samples_`, the index | `stop()`, `run()`, `runThread()`, `on_data_available` | main, data, publishing and timeout threads, SIGINT handler |
| Lifespan | `LifespanQoSExample/` | sample counts, histories with timers | both `run()` functions, `clear_history` | publisher, subscriber, timers |
| Deadline | `DeadlineQoSExample/` | counters, `double_time`, deadline timers per key | `run()`, missed-deadline callbacks | publisher, subscriber, timers |
| HistoryKind | `HistoryKind/pastsamples.cpp` | one writer, two readers | `pastsamples()` | middleware threads |
| BigDateTCP | `BigDateTCP/` | byte counts | the two `main()` | a TCP connection |
| Generated types | `DataDefine*`, `HelloWorld*`, `OwnershipStrength*`, `Lifespan*`, `deadlinepayload*`, `sample*` of the six directories | the members of a sample, `m_keyBuffer`, `m_typeSize` | accessors, copy and move, size provider, `serialize`, `deserialize`, `getKey` | writer and reader, perhaps built against different versions of fastcdr |
| Address helpers | `ddsQos/common.h`, `DiscoveryServerExample/common.h` | the files `DiscoverIP` and `DiscoverPort` | `getIP`, `getPort`, `get_ip_from_dns`, `is_ip`, the GUID prefix of an id | every process that starts |

What is hard in each, and what makes it correct:

- **Entity classes.**  No destructor looks at what a deletion returns, and Fast
  DDS refuses to delete what is in use.  Correct means: whatever step of
  `init()` failed, no endpoint survives the listener it calls, and the
  participant is given back.  The second half is true of seven of the ten
  classes and false of the three that delete the topic first.
- **Request/reply.**  The two ends of a match learn of it at different times,
  `m_matched` is read twice, the client creates its reader after it has asked,
  every answer costs a participant, messages are lost.  Correct means: at most
  one answer per request, printed at most once, never before the request; no
  request blocks the server for ever; a request is dropped for a reason.
- **Transfer of samples by word.**  A full history refuses `write()` and nobody
  looks, publishers delete their writer right after the loop, subscribers come
  late.  Correct means: no reordering, no hole in what a keep-all subscriber
  prints, late joiners catch up, and a measured interval covers the transfer.
- **Start-up by word.**  Four functions and two tables must agree, or programs
  started alike never meet.
- **Discover registry.**  Fast DDS changes its list first and calls back later,
  and the name recorded is the last of the list at that time.  Correct means:
  no entry outlives its participant, the counters follow the list, a loss names
  what the discovery named.
- **DiscoveryServerExample, start.**  Options come in any order, repeat, or are
  for another kind of process; processes start in any order; ids and addresses
  are compared in one form and used in another.  Correct means: nobody is linked
  to a server his command line does not name, and lines that lead to each other
  meet.
- **Generated types.**  Five functions walk five generated lists of one type's
  members, in two versions.  Correct means: what the size function promises
  suffices for what `serialize` writes, what is read is what was written into
  whatever object, and handles tell keys apart.
- **OwnershipStrength.**  Sample and registration are two steps, and a
  deregistration may come between them.  Correct means: ownership goes upwards
  only, weaker publishers take over when the stronger left, and who left is
  forgotten.
- **Process end.**  `stop()` notifies without the mutex, `run()` clears the flag
  late, the publishing thread starts before the handler is installed.  Correct
  means: a process returns for a reason, when it should, and with as many
  samples out as were asked for.
- **Lifespan, Deadline, HistoryKind.**  Threads that sleep against timers that
  run.  Correct means: the outputs that the READMEs announce, under the
  conditions that make them true.
- **BigDateTCP.**  Partial sends and reads, close, kill, reset.  Correct means:
  reports that are true, and an end.

The complete list of hazards, each with its line and the properties against it,
is in `PROJECT.json`.

## 2. The modules

Abstract specifications:

- `CallOnce`: what request/reply promises (asked, answered, got).
- `ByteTransfer`: what the TCP pair promises.

Components:

| Module | Models | State and actions against the code |
|---|---|---|
| `EntityLifecycle` | all ten publisher and subscriber classes | `class` fixes the order of the destructor; `part` is what the factory holds for the object; `CreateParticipant`, `CreateGroup`, `InitType` are the calls of `init()`, each of which may fail; `Delete...` the calls of the destructor, one per action; the `After...` operators are the library's refusals |
| `ReplyServer` | the exchange with `type` Test or Grpc | `spc`, `serving`, `retries`, `match` are the locals and the listener of one run of `on_data_available`; client actions are the lines of `RunGrpc`/`RunPublisher`; matching, unmatching and losing messages are actions of Fast DDS |
| `TestTypes` | the word's type, topic, partition and both QoS tables | operators only |
| `SampleHistory` | histories of one writer and its readers | operators and variables, no specification; instantiated by `TargetTransfer` and `PastSamples` |
| `TargetTransfer` | `RunPublisher`, `RunPubDataChunk` and `RunSubscriber` for the twelve words other than Test and Grpc | `index` and `pc` of the publisher, what each subscriber printed, and the histories of `SampleHistory` under the tables of `TestTypes` |
| `Main` | `main()` and the switch, for three processes, `Discover::init`, `getIP` and `getPort` | `word`, `m_type`, where each process is, who met whom; `file` is what `DiscoverIP` and `DiscoverPort` hold, `server` what each process made of them when it started |
| `DiscoverNames` | the three callbacks of `DiscoverListenler` | `list` is Fast DDS's, `came` and `told` count the changes of a participant and those the listener knows; `m_participant` and the counters are the listener's |
| `DiscoveryArguments` | `main()` of DiscoveryServerExample up to its switch, the option table | operators: `Configuration` folds the options over the defaults, `Outcome` is usage, error or start |
| `DiscoveryStart` | the three `init()`, and the network of servers | `Start` is all of `main()` up to `run()`; `participant` is what it made; `Link` and `Match` are Fast DDS |
| `OwnershipStrength` | publishers, hierarchy, two threads of the subscriber | `levels` and `registered` are `strengthMap`; `taken` is the sample between `take_next_sample` and `IsMessageStrong`, `notifying` a callback on its way to `DeregisterPublisher` |
| `TerminateWait` | `stop()`, `run()`, `on_data_available` of the subscriber, `stop()` and `run()` of the server | `mpc` separates the predicate, the unlocking and the blocking of the wait; `stopping` separates the two lines of `stop()` |
| `HelloWorldRun` | `run()`, `runThread()`, `publish()` and `stop()` of the publisher, joined to the subscriber of `TerminateWait` | `pub_main` and `worker` are the two threads, `handler` whether SIGINT is handled yet; a sample reaches the subscriber only after it was written |
| `Cdr` | what fastcdr does with a list of members | operators: size, stream and parse of a structure in XCDRv1 and XCDRv2, key bytes, room in a payload pool |
| `TypeBuilds` | the shape of what fastddsgen makes of one structure | operators only |
| `DataDefine`, `ExampleTypes` | the five types of ddsQos and the five of the examples, for fastcdr 1 and 2 | one table per type: members, accessors, and the list each generated function walks |
| `SampleExchange` | a writer and a reader of one type | `data` is the publisher's object, `msg` the subscriber's, both reused; `Write` is fill, `getKey`, size, pool, `serialize`; `Take` is `deserialize` |
| `BigDateTcp` | `sender.cpp`, `receiver.cpp` | byte counts, both program counters, both reports, the socket buffers as one count |
| `PastSamples` | `pastsamples()` | the ten creations, three of them unchecked, the write loop, the sleep, the two read loops, with discovery and delivery going on |
| `Lifespan` | both `run()` functions | discrete time, the wake-up times of both sleepers, both histories with their timers |
| `Deadline` | the publisher's `run()` | discrete time, a running deadline per key, missed counts |

`X` and `XProofs` belong together: the theorems about a component are in a module
that extends it.  Five of these modules speak of several components:
`TerminateWaitProofs` of the subscriber and of its pair with the publisher
(`HelloWorldRun`), `HistoryProofs` of `Lifespan` and `PastSamples`,
`OwnershipDeadlineProofs` of `OwnershipStrength` and `Deadline`,
`MainTcpProofs` of `Main`, `DiscoverNames` and `BigDateTcp`, `FoldProofs` of
`SampleExchange` and `DiscoveryStart`, which share the lemmas about folds.
`MCX` instantiates a component for TLC.
`TargetTransfer` composes `TestTypes` and `SampleHistory`; `Main` uses `TestTypes`; `HelloWorldRun`
composes a publisher with `TerminateWait`; `DiscoveryStart` rests on
`DiscoveryArguments`, and `SampleExchange` on the tables of types and `Cdr`;
`ReplyServer` and `BigDateTcp` implement `CallOnce` and `ByteTransfer`.

Four MC modules hold two components each and choose one of them in the first
state of a behaviour (`part`); the other component's variables stay as they
are.  `MCDiscoveryServerExample` holds `DiscoveryStart` and `HelloWorldRun`,
`MCMain` holds `Main` and `DiscoverNames`, `MCDeadline` holds `Deadline` and
`SampleExchange`, `MCHistories` holds `Lifespan` and `PastSamples`.  Fairness is asked of the component that was chosen.

Fast DDS is not part of the repository.  Its behaviour (matching, histories,
refused deletions, timers, loss under BEST_EFFORT) is modelled from how the code
relies on it, and marked external in `PROJECT.json`.  The choices that matter:
a writer is RELIABLE and TRANSIENT_LOCAL by default and a reader is BEST_EFFORT
and VOLATILE; samples of a writer reach a reader in order; a full KEEP_ALL
writer history replaces only samples that every reliable reader has; a
participant is deleted only when it is empty; callbacks about participants come
one at a time, and those about one participant in the order of its changes; a
client or server is linked to a server that answers at one of the locators of
its list with the prefix it expects and not its own; a payload pool of
PREALLOCATED_WITH_REALLOC has entries of the type's size and larger ones when
the size function asks for them.

The types are modelled member by member: a primitive has its width, a string or
a sequence its length, and padding, delimiters and encapsulation have theirs;
the characters are not modelled.

Definitions ending in `_bug` are plausible mistakes.  No action uses them; put
in the place of the definition they vary, each makes one property fail, which
shows that the property can see the code it is about.

## 3. The runs

Every run explores its instance completely.

| Run | Instance | Distinct states | What it shows |
|---|---|---|---|
| `lifecycle` | 2 objects of any class, 2 topics, 1 slot | 44 352 | no endpoint outlives its listener; endpoint-first classes never leak; topic-first classes never release a participant that had an endpoint |
| `reply_server` | 2 clients, 1 server, Test and Grpc, 2 retries, 1 slot | 22 264 | implements `CallOnce`; answers bounded by participants; no drop without a reason; the callback comes back |
| `ownership_hierarchy` | 3 publishers, two tied and one stronger, 2 messages each | 543 185 | ownership moves upwards; a deserted level stays so until an equal comes; only a writer overtaken by its own deregistration stays behind |
| `ownership_weaker` | the same | violation | a weaker publisher is not always accepted after the stronger left |
| `ownership_forgotten` | 2 publishers, 1 message each, both threads fair | violation | a publisher that ended may stay registered for ever |
| `wait_subscriber` | start: 2 clients with 9 or 7 lines, 2 servers with 3 or 4; run: a publisher asked for 0, 1 or 7 samples with an index below 8, a subscriber that wants 2 of up to 4, SIGINT for each | 258 897 | who is linked asked for that server; lines that lead to each other meet; a publisher ends as asked, and ends; a subscriber returns for a reason, counts at most one sample too many, and a stop while blocked ends it |
| `wait_enough` | data thread only, 2 wanted, 2 sent | violation | enough samples do not always end `run()` |
| `tcp_transfer` | 7 bytes, buffers of 3 | 1 862 | implements `ByteTransfer`; reports are true; a connected pair ends |
| `transfer` | 12 words, 2 subscribers, 4 samples or 5 chunks, limits 2 and 4 | 603 066 | printed in order; no gap; late joiners catch up; times span the transfer |
| `histories` | past: 6 samples, depth 2, any creation failing; lifespan: 3 samples, lifespans 2 and 6 for each side, waits 1, 2, 3, slack 1 | 336 621 | the announced output if all arrived in time; the KEEP_LAST reader always holds the newest; when `clear_history` finds nothing, and something; when the subscriber takes nothing |
| `words` | words: 1 discover, 1 publisher, 1 subscriber, any words, 6 contents of the files, 1 edit; registry: 2 publishers and 1 subscriber, up to 3 comings and goings | 2 400 973 | equal words that look at one server meet; nobody gets less than it asked for; the registry follows the list; a loss names what the discovery named |
| `deadline` | timers: 4 samples or no end, turns of 3, deadline 5, slack 1, 26 units; exchange: 10 types, 2 builds on each side, 2 representations, 2 values per member | 23 745 | frequent keys meet the deadline, the rare key misses it; no write is refused, what is taken is what was written, samples fit the type's size, handles are keys |

Why the bounds are enough:

- *lifecycle*: objects interact through the number of free slots only.  Two
  objects and one slot show a slot that is missed; two topics show a loop over
  entries that is interrupted at any point by a failed creation.
- *reply_server*: with two clients an answer can reach the one that did not ask
  for it, and with one slot the second request meets a server that cannot make
  a participant.  Ten retries differ from two in number only.
- *ownership*: a tie and a stronger publisher with the highest GUID are the two
  cases of `Outranks`; two messages allow one before and one after a
  deregistration.
- *wait, run*: more samples than wanted, so that the count can go too far; 0, 1
  and 7 are no limit, the least, and the last index before the wrap at 8.
- *wait, start*: the lines are those a check or a default of the code tells
  apart: nothing said, an option said twice, the second time with a port that
  does not fit 16 bits, one for another kind of process,
  one given by name, another family of addresses, each transport with a
  branch of its own, another topic, an id at the wrong port, ids 256 apart, and
  one line for each way in which `main()` or `init()` refuses.
- *words*: the contents are an address, a name, nothing, another host, the port
  modulo 65536 and no port; one edit puts processes before and after it.  Three
  changes are come, go, come back: the least for a stale entry.
- *exchange*: two values on both sides of every boundary a function has: a
  string that fits `fixed_string<256>` or a default bound and one that does
  not, a key with its octets swapped, a number with zero octets.  Writer and
  reader keep one object for ever, so two samples after each other are all that
  can influence a third.
- *tcp*: 7 is no multiple of 3, so the last buffer is not full, and reads
  straddle sends.
- *transfer*: the limits 2 and 4 stand for 100 and 1000, four samples for 200 and
  five chunks for `total_chunks`; a small history overflows, a large one does
  not with four and does with five, as 200 exceeds 100 and not 1000.
- *histories*, past samples: 6 and 2 for 20 and 10: the KEEP_LAST reader overwrites
  several times, the writer never.
- *histories*, lifespan; *deadline*, timers: time is bounded by `MaxTime`, past
  the end of both programs, or (deadline without end) past four samples of the rare key.  The
  durations are chosen next to the thresholds: 2 < 1 + 2 and 6 > 1 + 2 + 2,
  3 + 1 < 5 and 2 * 3 > 5.

Deadlock is not checked: the programs end, and a model at its bound or a process
that waits for a partner that never comes has no step left.

### Fairness

Fairness is assumed of threads that the code keeps runnable, and of nothing that
a user, a network or a scheduler's whim decides:

- `ReplyServer`: `WF(ServerStep(s))`: the thread of the callback runs and its
  sleeps end.  Discovery, loss and clients have no fairness, so
  `ServerComesBack` holds with nobody matching.
- `OwnershipStrength`: both threads of the subscriber go on, and Fast DDS notices
  a writer that is gone; for `GoneIsForgotten` only.  Publishers need not write,
  end or be matched.
- `TerminateWait`: the main thread, the data thread and a started `stop()` go
  on.  Messages, CTRL+C and spurious wake-ups need not happen.
- `BigDateTcp`: both programs go on; `send()` with room and `read()` with data,
  an end or an error return.
- `TargetTransfer`: the publisher, the delivery of what is pending to a reader
  with room, and each reader's callback; for reliable readers Fast DDS repeats
  what was lost.  Matching has no fairness: `LateJoinersCatchUp` starts from a
  match.
- `Main`: processes run, and two endpoints that fit and are served are
  eventually discovered.
- `HelloWorldRun`: both threads of the publisher and those of the subscriber go
  on, and the sleep ends.  SIGINT need not come, so `PublisherEnds` is about a
  publisher that was given a number or a signal.
- `DiscoveryStart`: what is to be started is started, announcements are repeated
  until a server answers, and endpoints that know each other match.  Nobody has
  to stop.
- The registry, the deadlines and the exchange need none: their properties are
  about what was told, written or elapsed.

### The three disagreements

- `ownership_weaker`: `OwnershipStrengthSubscriber.cxx:124` says that a writer is
  deregistered "to make sure messages from weaker publishers are accepted".
  The GUID goes, the level stays; an empty strongest level makes
  `IsMessageStrong` dereference the end of a set, whose outcome the model
  leaves open, so a weaker message may be refused.  `DesertedUntilAsStrong`
  says what does hold.
- `ownership_forgotten`: `README.txt:46` of that example has the listener remove a
  publisher "during the unmatching process", and `README.txt:14` allows it "until
  unmatched".  `on_data_available` takes a sample (line 177) and registers its
  writer afterwards (line 180); if the discovery thread deregisters the writer
  in between, it is registered again and nobody removes it, with its level, any
  more.  `OnlyOvertakenStay` says that no other order of samples, matches and
  departures does so.  Both rest on the two callbacks running in threads of
  their own, which is what `mapMutex` is there for (`README.txt:51`).  The
  variable `overtaken` records the order and is not in the code.
- `wait_enough`: `DiscoveryServerSubscriber.h:136` promises a wait "until SIGINT
  or max_messages_ samples are received".  The samples may be counted before
  `run()` clears `stop_` (line 313), or `notify_all` may fall between the
  predicate and the wait; then `run()` waits although all samples were
  counted.  `ReturnsForAReason` and `StopWhileBlockedEnds` say what does hold.

Remarks, met while modelling and not among the runs:

- The lifespan example's README compares the lifespan with "the wait time", but
  the publisher sleeps `write_sleep` after its last sample too, so the threshold
  is the sum of both (`RemovesNothingIfShort`, `RemovesIfLong` state it exactly);
  its subscriber takes nothing only if the publisher writes no more than the 10
  samples the subscriber waits for (`samples <= number` in
  `TakesNothingIfShort`).  The deadline example's README names 10 samples as the
  default, where the code's 0 means no end.
- `DiscoveryServerExample/common.h:43` makes one octet of a server's id, after
  `DiscoveryServer_main.cpp:272` compared whole ids: a server 256 and a server 0
  have one prefix and never find each other.  `WordsMeet` leaves them out by
  `Names`.
- `DiscoveryServer_main.cpp:283` compares addresses as they were typed, before
  `init()` resolves names, so `localhost` and `127.0.0.1` pass.
- `DiscoveryServerSubscriber.cpp:150` calls `setIPv4` in the branch of TCPv6, where
  publisher and server call `setIPv6`: such a subscriber runs and looks for its
  server nowhere.  `WordsMeet` leaves it out, and the run starts one.
- `Discover.cpp:27` records the last name of the list, which may be another's if
  the list changed since, or the process's own if it is empty;
  `LossNamesDiscovery` holds all the same.
- The counters of `Discover.hpp:40` are never initialized: a printed total is off
  by what they held, and only differences mean something (`RegistryIsList`).

## 4. The proofs

| Theorem | Module | Says |
|---|---|---|
| `TypeCorrect` | six of the `...Proofs` modules | `Spec => []TypeOK`; no run repeats it |
| `ListenerSafe`, `EndpointFirstReleases`, `TopicFirstKeeps` | `EntityLifecycleProofs` | `NoListenerAfterFree`, `NoLeak`, `TopicFirstNeverReleases` |
| `SlotsBoundAnswers`, `DropsHaveAReason`, `RepliesImplementCallOnce` | `ReplyServerProofs` | `AnswersBoundedBySlots`, `DropsOnlyForAReason`, refinement of `CallOnce` |
| `OwnershipMovesUpward`, `WeakerCannotRevive`, `OvertakenAloneStay` | `OwnershipDeadlineProofs` | the two action properties of `OwnershipStrength`, and `OnlyOvertakenStay` |
| `FrequentKeysAlwaysMeet`, `RareKeyAlwaysMisses` | `OwnershipDeadlineProofs` | `FrequentKeysMeetDeadline`, `RareKeyMisses` of `Deadline` |
| `RunReturnsForAReason`, `CountsOneTooManyAtMost` | `TerminateWaitProofs` | the two invariants of `TerminateWait` |
| `PublisherEndsAsAsked` | `TerminateWaitProofs` | `EndsAsAsked` of `HelloWorldRun` |
| `PairContainsSubscriber`, with `PairReturnsForAReason`, `PairCountsOneTooManyAtMost` | `TerminateWaitProofs` | `HelloSpec` implies the `Spec` of `TerminateWait`, so the pair has both invariants of the subscriber |
| `SuccessMeansComplete`, `EndOfFileMeansTooFew`, `TransferImplementsAbstract` | `MainTcpProofs` | the two invariants, refinement of `ByteTransfer` |
| `PrintsInOrder`, `KeepAllLeavesNoGap`, `TimesSpan` | `TargetTransferProofs` | `PrintedInOrder`, `NoGap`, `TimesSpanTransfer` |
| `ShortLifespanRemovesNothing`, `LongLifespanRemoves`, `ShortLifespanTakesNothing` | `HistoryProofs` | `RemovesNothingIfShort`, `RemovesIfLong`, `TakesNothingIfShort` of `Lifespan` |
| `NewestHeld`, `PrintsAsAnnounced` | `HistoryProofs` | `HoldsTheNewest`, `PrintsWhatReadmeSays` of `PastSamples` |
| `MetAskedForIt` | `MainTcpProofs` | `MeetsWhatItAskedFor` of `Main` |
| `RegistryFollowsList`, `LossPrintsDiscovered` | `MainTcpProofs` | `RegistryIsList`, `LossNamesDiscovery` of `DiscoverNames` |
| `NeverRefused`, `ArrivesAsWritten`, `FitsItsType`, `InstancesAreKeys` | `FoldProofs` | `NoWriteRefused`, `TakenAsWritten`, `FitsTypeSize`, `InstanceIsKey` of `SampleExchange` |
| `LinksAsAsked` | `FoldProofs` | `LinkedAsAsked` of `DiscoveryStart` |

They hold for any number of objects, topics, slots, clients, servers, retries,
publishers, strengths, samples, subscribers, participants, comings and goings,
limits, depths, bytes, buffer sizes, durations, periods and oversleepings, and
for all values that a publisher gives the members of a sample, and for any
processes, addresses and command lines.  The
assumptions are those named in the components: counts and times are naturals,
sizes that must not be zero are positive, the set of objects is finite, GUIDs
and the values of members are naturals, an option of a command line has a number
or a word, a name stands for addresses of the host, `NoClient` is no client, and the depth of pastsamples' second
reader is no more than the samples written, which fit the limits.  TLC evaluates
each of them in the runs.

The arguments, and why an invariant of its own is needed:

- *EntityLifecycle.*  "Freed implies released" is not inductive: it does not
  say what an earlier destructor call left.  The invariant relates each
  object's records (`entries`, `groupPtr`, `pending`) to what the factory holds
  and to the calls already made: after the call for the endpoint none is left,
  after the one for the topic none of these, and so on to the participant.
  `TopicFirstNeverReleases` is the reverse: in a topic-first class an object
  that had an endpoint keeps a topic whose endpoint is still to be deleted, or
  was deleted only after the topic had been asked for (`Kept`); the participant
  stays because of that topic.
- *ReplyServer.*  `IInv` follows a request through its life: on the wire, in
  the hands of one server, or answered, never two of these.  That makes an
  answer unique, and hence the refinement.  `SlotInv` keeps, for every answered
  request, the participant that its publisher still holds; the bound on answers
  is the bound on held participants.  `WaitInv` carries the first look at
  `m_matched` to the second.
- *OwnershipStrength.*  The invariant is that every registered publisher has
  its level; the two action properties are then facts about one step.
  `OnlyOvertakenStay` is not inductive: it says nothing of the sample in the data
  thread's hands, whose writer will be registered next.  `Accounted` extends it
  to that writer, and adds that one notification runs at a time.
- *Deadline.*  `ClockInv`: the clock passes neither the latest moment at which
  the publisher wakes up nor a deadline that is running.  `FrequentInv` puts the
  deadline of a frequent key after that latest moment, which a write restores.
  `RareInv` puts the deadline of the rare key one or two turns before the next
  write, according to `double_time`, unless it was missed already: when two
  turns are longer than the deadline, the clock cannot have come to the next
  write without a miss.
- *TerminateWait.*  `stop_` seen by the main thread has a caller: either one
  that is in the second line of `stop()` or past it, or the data thread with
  enough samples.
- *HelloWorldRun.*  `PublisherInv` relates the two threads (`ThreadInv`), the
  index, which wraps, to the samples asked for (`IndexInv`), the reason for
  which the worker left its loop (`ReasonInv`) and the place in the turn at
  which SIGINT caught it (`LateInv`).  The publisher never writes a variable of
  the subscriber, so the pair implies `TerminateWait`, its fairness included.
- *BigDateTcp.*  Unless reset, `sent = received + wire`; a report follows the
  count.
- *TargetTransfer.*  A sample passes three stages: pending, held, printed.  The
  order invariant says that each stage holds only older samples than the one
  before.  For words that keep all, `GapParts` adds that a pending sample is
  still in the writer's history (it is not replaceable), so what a reader has or
  will get is closed upwards among the accepted samples; order and closure
  leave no gap.  The two times then enclose everything.
- *Lifespan.*  `Timing` bounds how late anybody is, `LastSample` fixes the
  distance between the last write and `clear_history`.  For the subscriber,
  `Counting` relates callbacks, `n_samples` and what is in flight, and
  `AllArrived` says that a subscriber past its poll has nothing more to come;
  with the timers of `ReaderTiming`, nothing is left when its sleep is over.
- *PastSamples.*  `HoldsTheNewest` alone does not say what is still to come.
  `ReadersInv` names one number per reader: the first `n` samples have arrived,
  the rest up to `j` is pending if the reader is matched, and what it holds is a
  function of `n` and the depth (`Arrived`).  The writer never replaces a sample
  because its limit is not reached.  `ShownInv` adds that if all arrived in
  time, the histories no longer change under the reading loops, and each loop
  ends with all that is there.
- *Main.*  `MetInv` keeps, for every pair that met, that both are past `main()`
  and that the offer of one word satisfies the request of the other, an unset
  `m_type` included; `MatchMeans` reads off the two QoS tables what that says of
  the words.
- *DiscoverNames.*  Three relations: the list holds just the participants whose
  comings outnumber their goings, each once (`ListInv`), however the gap of one
  that went was closed (`GapClosed`, `GapFilled`); the map knows just those
  that were announced and not lost, each with the name printed for it
  (`MapInv`); the counters are ahead of where they began by the number of these
  (`CountInv`).  When every change was told, the second set is the first.
- *SampleExchange.*  `Size`, `Stream`, `Parse` and `KeyBytes` are folds over the
  generated lists of members, and the induction theorems of the library take an
  operator, so the proofs bring their own: `Induct` for sets of numbers, from
  the well-foundedness of the naturals; `FoldExists`, that the function which a
  fold chooses exists; and a reading of each fold as a walk (`Walks`), the
  offset after each member.  All three functions take the same walk when they
  go over the same list, so what `serialize` writes ends where the size function
  said (`StreamAsSize`).  Offsets only grow (`WalkGrows`), so no two members
  share one (`CellsApart`), and a reader that goes over the same list finds at
  each offset the value of that member, whatever its object held
  (`ParsedAsMeant`).  That the lists are the same and complete, in both builds,
  is a fact about the tables and proved for each of the ten types (`Uniform`);
  so are the bounds on their sizes, from offsets rounded up to the next
  alignment (`Within`), and their keys (`Keyed`).  `ExchangeIInv` then adds that
  the wire always holds the stream of the publisher's present object and the
  values meant by it, and that the first bytes of `m_keyBuffer` are its key: the
  bytes behind it never change, because all keys of one type are equally long.
- *DiscoveryStart.*  `Configuration` folds over the options of a line and is
  read as a walk too (`ConfigWalk`).  One turn sets at most the field of its
  option (`AssignFields`), so at the end a field holds what the last option for
  it said, or its default (`LastGiven`, `LastOfConfiguration`); for a line that
  passed the checks of `main()` that is what the line says, to 16 bits
  (`StartUnderstands`).  `StartIInv` adds that a process runs with the
  participant that `init()` makes of such a line (`ParticipantOf`); when a
  server answers, prefix and locator agree, and so do the two lines (`LinkAsks`).

The invariants were checked by TLC on instances like those of the runs before
they were proved.  Three attempts found something about a model: `Lifespan` had
`\E arrived \in SUBSET inflight \ {{}}`, which TLC and the prover parse
differently, and now has the parentheses that say what TLC checked;
`SampleExchange` never said that values are numbers, which `ValuesAssumption`
now does; and `DiscoveryArguments` had a `CASE` whose guards overlapped, of
which TLC takes the first and the language any, and a property that took two
ports 65536 apart for two, which to the code are one.

Only model-checked:

- the liveness properties `ServerComesBack`, `StopWhileBlockedEnds`,
  `PublisherEnds`, `WordsMeet`, `ConnectedPairEnds`, `LateJoinersCatchUp` and
  `SameWordMeets`: liveness under fairness is beyond the prover;
- the three properties that are violated (section 3).

## 5. What is not modelled

- Deadline's subscriber, which takes one sample per callback and prints, and
  keeps five samples per key: how many callbacks the middleware makes for
  samples that arrive together is not visible in the code.
- The option parsing of the lifespan, deadline and ownership examples and of
  HistoryKind: straight-line configuration; the values are constants or initial
  choices of the models.
- `--samples`, `--interval` and `--timeout` in `DiscoveryArguments`: they reach
  `run()` only, where they are constants of `HelloWorldRun` and `TerminateWait`.
- A `DiscoverIP` that exists and cannot be read; the clock of `common.h`.
- `mapableKey.h`: included, not used.  (Its `operator <` goes on after a greater
  octet, so each of two keys may be less than the other.)
- NULs inside a text.  The code for fastcdr 1 streams `m_message.c_str()`
  (`Lifespanv1.cxx:188`, `OwnershipStrengthv1.cxx:208` and their siblings), which
  ends at the first NUL, while the size it announces uses `size()`.  A text is
  its length in the models; the texts the programs send are literals without one.
- The characters of strings, the wording of what is printed, the payloads, and
  the bytes lost by rounding `total_chunks` down.

## 6. Plan

Done, in this order: process-level core (`EntityLifecycle`, `ReplyServer`,
`OwnershipStrength`, `TerminateWait`, `BigDateTcp`), then the words and histories
(`TestTypes`, `SampleHistory`, `TargetTransfer`, `PastSamples`, `Main`), then the
timed examples (`Lifespan`, `Deadline`), with proofs for seven of them; then the
generated types (`Cdr`, `TypeBuilds`, `DataDefine`, `ExampleTypes`,
`SampleExchange`), the start and the publisher of DiscoveryServerExample
(`DiscoveryArguments`, `DiscoveryStart`, `HelloWorldRun`), the registry
(`DiscoverNames`) and the files that all ddsQos programs read (`Main`).

Then the proofs for `HelloWorldRun`, `Lifespan`'s subscriber, `PastSamples`,
`Deadline`, `Main`, `DiscoverNames`, the topic-first classes, `SampleExchange`
and `DiscoveryStart`.  Every invariant and every action property that a passing
run checks is now stated by a theorem.

Next:

1. Deadline's subscriber: one sample per callback against its backlog.
2. Invariants that the liveness properties rest on, such as that a pair whose
   lines ask for it keeps a server they can both reach.
