# A TLA+ verification of yaddnsc

yaddnsc is a dynamic-DNS client: a daemon that watches the addresses of its
host and keeps DNS records at a provider up to date. This directory holds a
TLA+ model of its core, the TLC configurations that check the model on small
instances, and TLAPS proofs of its main properties. Paths below are relative
to the repository; `dispatcher.cpp:385` means `src/dns/dispatcher.cpp`, line 385.

```
tlc -workers 2 -config MC_Dispatcher.cfg MC_Dispatcher      # one run
tlapm BackendsProofs.tla                                    # one proof module
```

`PROJECT.json` lists the components, the runs with the properties they check,
a mutant of the model per property, the source lines behind each definition,
the hazards, the findings and the theorems.

## 1. The system

| component | state it keeps | operations | hard behaviour |
|---|---|---|---|
| **Process life** `main.cpp`, `core/signal_watcher.cpp` | pending signals, stop source, SIGINT count, the Manager | `install`, `signal_loop`, `~SignalWatcher`, construction and destruction of the Manager | signals merge while pending; the destructor wakes the watcher with a real SIGINT; any step of the start-up may throw |
| **Scheduler** `core/scheduler.cpp` | timer queue, time of the last forced run, condition variable | `pop_all_due`, `wait_for_next`, stop callback | late and spurious wake-ups, stop between predicate and sleep |
| **Manager** `core/manager.cpp` | pool, scheduler, updater, drivers | `run` | unbounded queue, drain before destruction |
| **Updater** `core/updater.cpp` | none | `process` (address, lookup, compare, driver) | two updates of one record overlap; the address changes in between; a provider's answer is lost |
| **Resolver dispatcher** `dns/dispatcher.cpp`, `util/retry_util.hpp` | per batch: counters, flags, promise | `resolve` with retries, fallback or concurrent batches | races between atomics and promise, joins without timeout, thread creation that fails |
| **Classic resolver** `dns/resolver/classic_native.cpp` | one socket per query | `query`: UDP, then TCP if truncated | forged and late datagrams, a stream cut anywhere, timeouts, cancellation |
| **Sockets** `network/socket.cpp` | a descriptor, its mode | construct, close, move, `connect`, `send`, `recv_exact`, `wait_for` | descriptors that the kernel gives to another thread at once; short transfers; six ways out of `connect` |
| **DoT / DoH resolvers** `dns/resolver/dot.cpp`, `doh.cpp`, `network/tls_connection.cpp` | one persistent connection, a mutex, time of last use | `query` in two attempts | an aborted exchange leaves the connection out of step; the mutex is released between the attempts |
| **HTTP exchange** `http/*.cpp` | a growing buffer | `exchange`, `read_response`, `read_body` | limits met exactly, framing split anywhere |
| **TTL cache** `util/cache.hpp` | entries, running computations | `get_or_compute`, `set`, `get`, `remove`, `clear` | callers between the end of a computation and its storage; a computation that throws |
| **Validator, parser, builder** `dns/validator.cpp`, `dns/parser/`, `dns/wire/` | none | pure functions of a packet | name compression, limits of names and labels, off-by-one at the packet's end, one writing what the other reads |
| **Configuration** `config/` | immutable after start | parse, validate; `dns/factory.cpp` makes the resolvers | the bounds that the scheduler relies on; resolvers are made before anything is validated |
| **Driver manager** `core/driver_manager.cpp`, `driver_loader.cpp` | loaded shared objects | load, register, unload | order of destruction, duplicates |
| **Provider drivers** `driver/`, `include/driver/base.h` | none | `generate_request`, `check_response` | refusals that look like successes, answers lost after the fact, two readings of the clock |
| **IP sources** `ip_source/iface.cpp`, `http.cpp` | the cache above | `resolve` | interfaces that change, an error page in place of an address |
| **mDNS source** `ip_source/mdns.cpp` | socket and group membership of one query | `resolve` | one wait, the first datagram decides; destructors that need each other's resources; interfaces that change meanwhile |
| **System backend** `dns/dispatcher_system.cpp`, `resolver/classic_system.cpp`, `parser/parser_system.cpp` | per batch: a result, two errors, a count | the dispatcher on libresolv | detached threads that outlive the lookup |
| **URI, HTTP client** `network/uri.cpp`, `http_client.cpp` | none | `parse`, `get_origin`, `exchange` | two directions of one notation |
| **Command line, signing, certificates** | none | one-shot functions | - |

How they interact. `main` blocks SIGINT and SIGTERM, starts the watcher's
thread, loads the configuration and the drivers and calls `Manager::run`. That
loop takes due tasks from the scheduler and hands each to the thread pool,
where `Updater::process` asks an IP source for the local address, the resolver
dispatcher for the record's current content and, if they differ, a driver to
update it. The dispatcher runs its resolvers on the calling thread or on one
`jthread` each, and cancels the losers through a pipe they poll. A stop request
reaches the scheduler by a `stop_callback`. Resolvers and the cache are shared
by the pool's threads; everything else is owned by one thread.

What makes each part correct: see the properties of its run in section 3.

## 2. The modules

| module | models | extends or instantiates |
|---|---|---|
| `DnsError` | error codes, their classes, `try_resolve` | - |
| `Lookup` | the contract of a lookup (abstract) | `DnsError` |
| `ConcurrentRunner` | `ConcurrentRunner`, `BatchRunner` | `DnsError`, `Lookup` |
| `SequentialRunner` | `SingleResolverRunner` with `retry_on_error`, `FallbackRunner` | `DnsError` |
| `Dispatcher` | `ResolverDispatcher::Impl::resolve`: composes the runners | `ConcurrentRunner`, `SequentialRunner`, `Lookup` |
| `SystemDispatcher` | the dispatcher of the system backend | `SequentialRunner`, `DnsError` |
| `Backends` | a lookup with either backend | `Dispatcher`, `SystemDispatcher` |
| `Scheduler` | timer queue and the loop's wait | - |
| `Manager` | the daemon: loop, pool, updater, outside world | `Scheduler` |
| `TlsResolver` | what the TLS resolvers share: mutex, connection, attempts | `DnsError` |
| `DotResolver`, `DohResolver` | the exchange of each protocol | `TlsResolver` |
| `EncryptedResolver` | a resolver of either protocol | `DotResolver`, `DohResolver` |
| `ClassicResolver` | one query over UDP and TCP | `DnsError` |
| `HttpExchange` | reading and framing of one response | - |
| `Validator` | the checks of the response validator, as operators | - |
| `DnsMessage` | `parse_message` with `decompress_name` | `Validator` |
| `QueryBuilder` | the builder of queries | `DnsMessage` |
| `Socket` | sockets, and other threads' descriptors | - |
| `Mdns` | one query of the mDNS source | `IpSources` |
| `Uri` | the URI parser and what writes URIs | - |
| `Network` | the seven parts above that face the network, side by side | `HttpExchange`, `QueryBuilder`, `Uri`, `ClassicResolver`, `Socket`, `Mdns` |
| `SignalWatcher` | `main`, the watcher's thread, user signals | - |
| `DriverManager` | driver loader, `DriverModule`, the registry of drivers | - |
| `ConfigValidator` | the validator and the resolver factory, as predicates | - |
| `Process` | the whole life of the process | `SignalWatcher`, `DriverManager`, `ConfigValidator` |
| `TtlCache` | the cache | - |
| `IpSources` | interfaces, addresses and the sources, as operators | - |
| `Drivers` | requests and verdicts of the twelve drivers, as operators | - |
| `Updater` | the rounds of one task, down to the provider's zone | `IpSources`, `Drivers` |
| `Updates` | an updater, or the cache that updaters share | `TtlCache`, `Updater` |
| `SequentialRunnerProofs`, `BackendsProofs` | theorems about lookups | the module each is named after |
| `ManagerProofs` | theorems about the timer queue and the daemon | `Manager` |
| `EncryptedResolverProofs`, `ProcessProofs`, `UpdatesProofs` | theorems | the module each is named after |
| `MessageProofs` | lemmas about messages, queries and the validator | `QueryBuilder` |
| `NetworkProofs` | theorems about what faces the network | `Network`, `MessageProofs` |
| `MC_*` | instances for TLC | their module |

**Lookups.** In `ConcurrentRunner` `main` is where the calling thread is and
`pc[r]` where the thread of resolver `r` is. Each access to an atomic and to
the promise is a step, because their order decides the outcome. Launching may
fail (`std::system_error`); the destructor of the vector of `jthread`s stops
and joins one thread after the other. What a query returns is any member of
`QueryResponses`, except that a cancellation needs a stop request and a pipe.
`SequentialRunner` has the counter of `retry_on_error` and the set of resolvers
already visited in the shuffled order. `Dispatcher` selects between them as
`resolve` does; `last_error`, `reply` and `outcome` are common to all runners.
The dispatcher of the system backend runs the same sequential loops, but maps
their outcomes differently (most errors become an empty list), and its
concurrent mode detaches its threads: in `SystemDispatcher` a thread goes on
after the lookup has returned, and its critical section is one step. Its
resolvers are the classic one over libresolv and, as in every build, those over
TLS and HTTPS: what libresolv returns passes through the translation of its
errors, what the others return is any error or message of theirs
(`encrypted_query`), and the messages of all pass through the parser of records,
which refuses one for a single record that it does not know. A query is
cancelled only after the first result, and a cancelled one is not counted.
`Backends` picks one of the two dispatchers, as the build does.

**Daemon.** `Scheduler` keeps, per task, the age of the last run and of the
last forced run instead of absolute times, so that the state space is finite;
the loop may come back up to `MaxLate` ticks late. The wait is three steps
(predicate, sleep, wake-up), and a stop is two (request, notify). `Manager`
adds the pool (external: `BS::thread_pool`, a FIFO queue and `Workers`), the
steps of `Updater::process` and a world that changes addresses, fails and loses
answers until it `Heal`s. A task in `NoDriver` takes the `catch` branch of
`Manager::run`; `validate_config` normally excludes it. Time stands still while
more than `MaxBacklog` jobs wait, the bound on the otherwise unbounded queue.

**TLS resolvers.** A connection is the queries not yet answered, the answers
not yet read, whether reading starts at a message boundary, and whether the
peer has closed. A read that times out or is cancelled leaves what it has not
read; a DoT read may stop inside an answer, and what is then taken for a length
is anything. DNS over HTTPS closes the connection after a failed exchange.

**Updates.** `Updater` follows `process` in finer steps than `Manager`: the
source enumerates interfaces through the cache or asks a web service (which may
be wrong: any member of `WebAnswers`, of whatever family and kind), the lookup reads the provider's zone or fails, the driver's request says which
record it designates, the provider accepts or refuses in its own format, and
the driver judges the answer. A request is what a provider reads off it, an
answer a status and a function from member paths to values. A filter keeps the
positions of what it keeps (a restriction of the sequence), since the code takes
the first of the rest; `IsFirst` is that one. The answer may be
lost, be a gateway's, with any status, or hold members nobody knows; the date of
a signature may change between two readings of the clock. The field `from` of an
answer is a history variable: it says whose answer it is, which no driver sees.
`MaxTrouble` bounds what goes wrong.

**Classic resolver.** Datagrams may be forged, late or truncated; over TCP the
bytes of prefix and message arrive in any pieces, or the peer closes or falls
silent. `poll` wakes for data, for the cancellation pipe or at the timeout, and
`connect` ignores the pipe, as in the code.

**Sockets.** `owner` says whom each descriptor belongs to; other threads open
and close theirs at any time and get the lowest-level view there is: any free
number. A transfer is the sequence of positions that its bytes were taken from.
`EINTR` repeats a call and changes nothing, so it is not a step.

**mDNS.** `at` is the place in `resolve_mdns`; an exception at any place goes
to `leave` and `close`, the destructors that are due there. The kernel keeps
the membership and gives it up for the same request only. The first datagram
decides, whoever sent it.

**Queries and URIs.** `QueryBuilder` builds packets byte by byte, and `Network`
has the parser of `DnsMessage` read them. A name is encoded position by
position: a label's length stands where the dot before it was. A URI is a
sequence of delimiters and words, with one `://` at most, behind the scheme; it
is written out as an origin, or as a base URL, and parsed again.

**HTTP.** A response is a header size, a framing (length, chunked, or neither,
which the code takes for an empty body instead of reading until the close) and
sizes of its parts; bytes are counted, not spelled out. The reads
cut it anywhere. The reference is what a reader with the whole response in
hand would decide. picohttpparser is external.

**DNS messages.** A message is a sequence of bytes and a list of the entries
that its header claims. `decompress_name` is a loop whose steps are a label, a
pointer, the root or an exception; `parse_message` adds the fixed part of an
entry and the skipped RDATA. The header is read in `QueryBuilder`. An entry
carries the number of bytes behind its name, 4 and 10 in the protocol and in
the program's own queries; the run gives messages from the network 1 and 2, and
2 allowed pointers, so that short messages reach every case. Writing past the array `visited` would be undefined behaviour; the model
has a state for it, which is never reached. The reference reads a name as a
path through the message and takes its labels, its end and its pointers from
the path. Record types and the texts of
records are left out.

**Process.** A pending signal is a flag, as in POSIX. `main` is followed from
`install` to the return, the watcher from `sigwait` to the handling of each
signal. That `run()` returns after a stop is taken from `Manager`, for a
configuration with tasks; of one without, nothing is assumed. `Process`
refines the set-up of `SignalWatcher`: the Manager's constructor makes the
resolvers (`create`), the drivers are loaded one by one (`todo`, `module`), the
configuration is validated, and an exception at any of these unwinds through
the destructors. `handles` counts the open handles of a library and `drivers`
its live objects; a `DriverModule` on the stack is `module`, with its place in
construction or destruction, and the map of drivers owns the others. A library
is a model of its faults. `unload_driver` is left out: only tests call it.

**Cache.** `get_or_compute` step by step, because the factory runs outside the
mutex; the other operations are one step. Values are told apart by the
computation that produced them.

## 3. The runs

| run | question | result |
|---|---|---|
| `lookup` | Does a lookup, under each strategy, with either backend and every interleaving, return something genuine, lose nothing on the way out, give nothing up early, leave no thread behind (native), and end? Does the native dispatcher implement `Lookup`? | holds, 165,177 states |
| `lost_success` | Is an answer ever dropped? | **violated** |
| `definitive_overwritten` | Does a definitive error end the iteration over batches? | **violated** |
| `scheduler` | Are runs spaced, forced runs in time, does the loop neither spin nor die? | holds |
| `lost_wakeup` | Is a stop during the wait always noticed? | **violated** |
| `daemon` | Is the pool empty when `run` returns, does stop lead there if there is a task, is no excluded address published, and do records converge? | holds, 288,048 states |
| `encrypted` | Does each query on a shared TLS connection get its own answer or an error, and end? | holds, 651,762 states |
| `dot_stale` | Is a DoT connection with a left-over answer replaced? | **violated** |
| `network` | Is a returned message the whole answer to this query, and cancellation prompt? Does the outcome of an HTTP exchange depend on the bytes alone? Is a decompressed name what the message says, and a query read as it was built? Do sockets keep to their descriptors and do all of their work? Is the multicast group left on every path? Does an origin survive being written out? Does each of these end? | holds, about 193,000 states |
| `process` | Does a signal end a process with tasks at any moment and only the third SIGINT kill it? Does `run` start only on what the program assumes, do drivers go in order and without a rest, does what `config test` accepts start? | holds, 450,983 states |
| `updates` | Does a provider's driver report success only if the record has the address, whatever is refused or lost, and which of them also if a gateway answers? Is an interface's address of the record's family, an AAAA record's of a permitted kind, and only the task's record written? Do updates come to rest? And of the cache: one computation at a time, no stale result, no cached failure, no waiter left | holds, 352,762 states |
| `apex` | Is the provider left alone when the record is right? | **violated** for the apex |

### Findings

* `lost_success`: `resolve_one` counts itself (`dispatcher.cpp:385`) before it
  sets the promise. A failing resolver that counts last in between sets the
  empty vector, and the answer is lost. `Lookup!Spec` therefore lets a
  concurrent lookup fail although a resolver answered; `StrictNext` does not.
* `definitive_overwritten`: a transient error stored last replaces a definitive
  one in `batch_error_`, and the next batch is asked.
* `lost_wakeup`: the stop callback notifies without the mutex
  (`scheduler.cpp:72`), so a stop between predicate and sleep is noticed only
  at the next deadline. `RunReturns` holds because that deadline comes, which it
  does only with a task in the queue. `domains: []` is a configuration that the
  parser and the validator accept; then there is no deadline
  (`scheduler.cpp:149`), the same lost wake-up leaves `run` asleep for ever, and
  `RunReturns` without its condition is violated.
* `dot_stale`: `ensure_connection` takes a connection with an unread answer for
  healthy. The next query then reads a foreign answer, which validation
  rejects (`OwnAnswer` holds), so there is no wrong answer. But the connection
  stays open then, too (`dot.cpp:149-152`), now with this query's answer on it:
  each query fails on the answer to the one before it, until a send or read fails
  (the second attempt reconnects), the peer closes, or the connection has been
  idle for too long.
* `apex`: the record named "@" is looked up as `@.domain` (`scheduler.cpp:75`),
  which does not exist: every round calls the provider, and the Route 53 driver
  updates a record of that name.
* Not a run of its own: the HTTP source takes whatever address the service's body
  parses as (`ip_source/http.cpp:49`), and nothing behind it looks at the family,
  although `README.md:453` says of a record's type that it "determines address
  family automatically". The client is bound to the family of the record, so an
  honest service sees no other; one behind a proxy may. `PublishedFits` says of
  the family only what holds, that an interface's address has the right one.
* Not a run of its own: in the system backend a refusal that is reported before
  the NXDOMAIN of another resolver of the batch stays in `definitive_error`
  (`dispatcher_system.cpp:293`), and the lookup ends with it (`:445`), although
  `:450` calls a refusal "per-resolver". `SystemLosesNothing` allows for it.
* Not a run of its own: seven drivers take a gateway's page for a success,
  `godaddy`, `linode` and `simple` any with status 200, `vultr` any with 204,
  `alibaba_cloud` and `digital_ocean` an empty JSON object, `duckdns` a text that
  begins with OK. The documentation of `simple` says so (`DRIVERS.md:239`), and
  nothing is said of the others; the next lookup finds the old record, and the
  update is repeated (`Settles`).
* Not a run of its own: `README.md` says that the fallback strategy asks the
  resolvers in order, while `FallbackRunner::run` shuffles them; the model
  visits them in any order.
* Met while reading, outside the model: `README.md:413` gives `true` as the
  default of `auto_discover`, `config.h:31` has `false`. A comment in
  `decompress_name` calls `MAX_POINTER_DEPTH` 16, its value is 7. The OPT record
  is recognised by a name of one character (`parser_native.cpp:472`), while the
  root name decompresses to the empty text, so EDNS is not read. A port above
  65535 passes the validator and is narrowed to 16 bits later. An empty label
  within a name ends it in the packet. The base URL of an IPv6 host lacks its
  brackets (`http_client.cpp:32`). A failed lookup of the system backend looks
  like a name without records, except for definitive errors of several
  resolvers.

### Bounds

* `lookup`: 4 resolvers and batches of 3, so that there is a full and a partial
  batch; three threads are enough for one that answers, one that fails and one
  that counts in between. One response per class that the code tells apart;
  the sequential runners get every response and `max_retries` 2, so that there
  is a first, a middle and a last try.
* `scheduler`: two tasks whose intervals are not multiples of each other, one
  with forced updates; up to 2 ticks late, more than the smallest interval.
* `daemon`: one record and two workers, so that two updates of it overlap; a
  task without driver; two address lists; every second update forced.
* `encrypted`: three queries - one cut off, one that finds what it left, one
  that comes between the attempts of another.
* `network`: messages of up to 4 bytes over TCP with a limit of 3, timeout 2.
  Initial buffer 2, header limit 4 (one doubling), body limit 3; 185 responses
  below, at and above each limit. All DNS messages of up to 6 bytes over 0, 1,
  2, 4 and a pointer, and of 4 bytes over the edges of the label types, with 2
  pointers allowed: three pointers fit, and so do circles of one, two and three,
  forward pointers, a pointer into a label and a cut at any place. Queries with
  names of 0 to 256 octets and labels of 63 and 64. Two sockets and three
  descriptors, so that a number can be given away while both live; three calls
  (open, fail to connect, connect again). mDNS with and without an interface,
  also one that is gone, on two states of the interfaces.
* `process`: three sends of each signal, the number that kills. 49
  configurations: a right one, and ones that differ from it in one place, for
  each check of the validator, of the factory and of the loader, at and on both
  sides of each bound. Libraries: a sound one, a second one with the same
  driver, one of another ABI, one of another compiler, one that is missing.
* `updates`: 46 tasks - each driver with both record types, with a complete and
  an incomplete configuration, both sources, the apex; three states of the
  interfaces, two things that go wrong; web services that answer with an address
  of either family and of each kind, and gateways with four pages and three
  statuses, so that each driver that can be misled is. The cache: three threads (computing,
  waiting, late), one key as in the program, TTL 1 and clock up to 2, so that
  entries expire; two computations.

### Fairness

Weak fairness of each thread: the system schedules it. A query ends, because
every wait in a resolver is a `poll` with a timeout; that is what `network`
shows with fairness of the query's own steps and the clock, and nothing of the
network. In `Manager` a wait that has a deadline times out (strong fairness,
since spurious wake-ups disable it), and the clock ticks. Convergence assumes
that the world heals; nothing is assumed of when. The factory of the cache
ends; it enumerates interfaces. In `network` the reader's thread runs and time
passes, and nothing is assumed of the peer. In `updates` rounds begin and end,
the cache expires, and all but a bounded number of refusals have a reason.

`CHECK_DEADLOCK FALSE` is used where a run really stops: one lookup, a fixed
set of queries, one response or message, one life of the process, a bounded number of
computations. The daemon and the scheduler are checked for deadlock.

### Mutants

Beside each definition that a property depends on stands a mutant, marked
`Mutant:`, that changes it the way a slip in the code would. `PROJECT.json`
pairs each property with one or two that break it.

## 4. The proofs

The theorems hold for every value of the constants: any number of resolvers,
tasks, threads, queries, sockets or libraries, any intervals, timeouts and
sizes. They rest on these assumptions, which TLC evaluates in the runs:

| assumption | what it says | why the code justifies it |
|---|---|---|
| `DispatchAssumption`, `RetryAssumption` | types; a batch is not empty | `MAX_CONCURRENT_RESOLVERS` is 3, `max_retries` unsigned |
| `ScheduleAssumption` | positive intervals, `force_update` zero or not below the interval | the validator; `RunIsAsAssumed` proves that `run` starts with nothing else. The least interval is a build option and must be positive |
| `ManagerAssumption`, `CacheAssumption`, `SendsAssumption`, `NetworkAssumption`, `HttpAssumption` | types; timeouts, packets, buffers, reads and transfers are not empty | constants of the code; the bounds of the model are numbers |
| `LibraryAssumption` | types; no library is the null pointer | - |
| `ConfigAssumption` | the list of drivers is a list; what parses as an address has no scheme | `config.h`; an address literal contains no `://` |
| `MessageAssumption`, `QueryAssumption` | messages are bytes, the fixed part of a record has room for its RDLENGTH, queries have the types of their fields | `RR_FIXED_SIZE` is 10; `builder.h` |
| `UriAssumption` | at most one `://` token, behind something; words are no delimiters; the default ports can be written as words; a lower-case form stays as it is; an IPv6 address has two colons and no bracket | `uri.cpp` looks for the first `://` only and tests that it is not at the beginning; `std::to_string`, `std::tolower`, `inet_pton` |
| `TaskAssumption` | records of type A or AAAA, names not empty, one of the twelve drivers | `validator.hpp:187`; the other types hold no address |

Each safety property follows from an inductive invariant that TLC checked on
the run's instance before it was proved (but for the ones of messages and
queries, which quantify over the numbers of steps). Below, what each adds to its property.

**`BackendsProofs`**, the concurrent strategy: `TypeOK`, `NoStraggler`, `OutcomeIsGenuine` and
that the runner implements `Lookup` (`Contract`). That an answer is genuine depends on who
may still write the promise, and that on which threads are alive. The invariant
adds `ThreadInv` and `LaunchInv` (which threads exist at each place of the main
program, and that earlier batches have ended), `OutcomeInv` (what `main =
"done"` implies), `PromiseInv` (whose records the promise holds), `ErrorInv` and
`NxInv` (whose error `batch_error_` and the flag reflect). The refinement also
needs that a reply of the current batch is no cancellation when it is reported
(`Untainted`), and maps `Return` to `Hear`, the last step to `Return` or
`Throw`, and the rest to stuttering.

**`SequentialRunnerProofs`**: retrying and fallback implement the strict
contract of `Lookup`, if no response is a cancellation (`Uncancelled`; neither
strategy passes a token). The invariant `SeqInv` says that those asked are those
who replied, that no earlier reply decides the lookup, and that `last_error` is
what the last of them said. The module is instantiated once per backend.

**`BackendsProofs`**, the dispatcher, carries these results over:
`NoStraggler`, `OutcomeIsGenuine`, `NotGivenUpEarly` and `SequentialIsStrict`
hold whichever strategy and backend are used. `NativeInv`
says which runner's invariant holds and that the state of the other is
untouched. `ImplementsLookup` is about the native dispatcher (`DispatcherSpec`)
with all of its strategies: what Lookup's caller has is `Returned`, which for a
concurrent lookup is set when the threads are joined and for a sequential one
when its runner decides. For the former the refinement of the concurrent runner
is used (`BatchStepServes`); for the latter, that the runner keeps the strict
contract, whose steps `StrictHear` and `StrictReturn` are ones of `Lookup`
(`SequentialStepServes`). `SystemLosesNothing` has to cope with threads that go on after the
lookup: `StateIsTrue` ties the counter of failures to the cardinality of the set
of threads that have failed, from which it follows that nobody is running when
the wait ends without an answer (`LeftIsFinal`). A cancelled thread is not in
that set, but it needs a result first. What is thrown is definitive, or a refusal
together with an NXDOMAIN.

**`ManagerProofs`**: for the timer queue `TypeOK`, `ForceNotStarved`,
`NoBusyLoop` and the action property `SpacingKept`, with ages related to
deadlines (`RunAgeInv`, `ForceAgeInv`). The daemon implements `Scheduler`, so
the spacing carries over; `DrainedAtReturn` needs that nothing is submitted once
the loop has been left; `OnlyPermittedPublished` that what a worker has in hand
has passed the filter of its own task, although candidates change under it.

**`EncryptedResolverProofs`**: `OwnAnswer`, `RetryIsClean` and `SentInStep`. The
mutex has one holder (`MutexHeld`), an exchange has an open connection
(`OpenForUse`), and from taking the lock on the second attempt meets nobody
else's messages (`RetryAlone`). DNS over HTTPS has at most one request or
response on the connection, and only during the exchange (`OneRequest`); for
DNS over TLS this is false, see `dot_stale`.

**`ProcessProofs`**: the process implements `SignalWatcher`. `KillNeedsThree` is
a matter of counting: as long as the destructor has sent nothing, SIGINTs
counted, taken and pending are no more than the user's; afterwards those
counted and being handled are, because a request to stop precedes the
destructor's signal. `DriversGoInOrder`: handles and objects of a library are
what the registry and the module on the stack own, each at most once (`Owned`),
and what is registered has passed all checks. `RunsAsAssumed` and
`TestedConfigStarts` follow from the validator, for every configuration.

**`UpdatesProofs`**: of the cache `SingleFlight` and `ResultIsCurrent`: whoever
computes has an entry in `pending_` of its own, an entry leaves it when its
computation is over, and what is cached was stored at its time stamp. Of the
updater `SuccessMeansPublished` and `PublishedFits`: what a round has in hand at
each step is a permitted address (`LocalFits`: the family if it is an
interface's, the kind if it is for an AAAA record), a request for the task's own
record, and an answer that its driver takes for a success only if the zone holds
the address (`InHand`). That needs that no driver takes its provider's refusal
for a success (`RefusalIsSeen`), and that the five of `ReadConsent` take no page
of a gateway for one (`GatewayIsSeen`); of the others nothing is claimed when a
gateway has answered. The generic driver takes any non-empty body for a success
and is left out of `SuccessMeansPublished`. It, too, sends only permitted
addresses, but which record it writes is up to the user's URL template; TLC
checks that for templates that make sense.

**`NetworkProofs`**: `AnswerIsOwn` and `CancelIsPrompt` of the classic resolver
(the buffer is a gapless prefix of what follows the length; time passes after a
cancellation in `connect` only), `DescriptorsAreOwn` and `SuccessIsWhole` of the
sockets (the objects hold the thread's descriptors one to one; what a transfer
has moved is a prefix; the saved mode is that of the descriptor in use), and
`MulticastIsClean` of the mDNS source (membership and open socket are functions
of the place in `resolve_mdns`). Of the HTTP exchange `SplitIndependent`: what
has been read never passes the end of the response, the header is either
incomplete or within its limit (`ReadIsBounded`, `HeaderIsRead`), and the body
so far is a prefix or, in chunks, the data among what has been decoded, in
ascending order, before any end of the chunks (`ChunksAreDecoded`). Both the
decoder and the reference order sets of positions (`Ascending`), so that a step
appends what `AscendingUnion` says, and the first position at which decoding
stops exists because positions are well-founded.

**`MessageProofs`** and `NetworkProofs`: `NameIsReference`, for every message,
layout and limit on pointers. The reference is a path through the message
(`PathFrom`) and the text along it (`TextFrom`), both recursive functions of the
number of steps; `PathEquation` and `TextEquation` show that they exist. The
invariant says that the loop has walked n steps of that path (`Walked`): where
it is, the text, the pointers it has followed and, before the first pointer,
the offset. A path that has not ended after as many steps as the message has
bytes is in a circle (two of its positions are equal, and the path repeats from
there), so that a name is refused for a pointer too many only if it has too many
or no end. `skip_name` runs along the same path up to the first pointer.

`QueryIsRead`, for every set of queries. The bytes of a built packet are given
section by section (`IsPacket`: where each question and the OPT record begins
and which bytes it has) and those of a name mark by mark (`Marks`, `Spelled`:
the length of each label stands where the name has a dot). The invariant of the
parser (`QueryRead`) is that the entry in hand starts where its section does.
A name that was written is read along its marks, the fixed part ends where the
next section starts, the header's fields come back from its twelve bytes, and
the validator's comparison of two question sections is one of names, types and
classes because `encode_name` can be undone (`ValidatorCompares`).

`OriginIsStable`, for every URI. What `parse` finds in a URI with an origin is in
normal form (`Originates`): lower case is a fixed point, the host has none of the
delimiters that would end it, brackets and colons only as the kind of address
allows, and the port has a word. An authority written from these parts is read
back as them (`PlainIsRead`, `PlainAndPortIsRead`, `BracketsAreRead`), and so is
the URI around it (`WrittenIsRead`); a port that is left out is the default of
the scheme. The invariant is that the URI stays a sequence of tokens with one
`://` at most.

Where these arguments go by induction, it is over a set of numbers that has 0
and the successor of each of its members (`Induction`, from the least element of
its complement): the induction theorems of the library, which take an operator,
cannot be used with the provers at hand.

### Only model-checked

* Liveness: `ResolveEnds`, `EveryTaskRuns`, `RunReturns` and `ProcessEnds` (both
  of configurations with tasks), `Converges`, `QueriesEnd`, `CallsEnd`, `Settles`,
  `NetworkEnds`. The prover has neither fairness nor `ENABLED`.
* The second half of `PublishedFits` for the generic driver, as above.

## 5. Not modelled

* The texts of records, EDNS options in answers, query strings and URL
  encoding: pure functions of texts. What an address parses as is part of a
  configuration.
* Options of sockets without a bearing on the above, and `listen` and `accept`,
  which only tests use.
* TLS handshake, OpenSSL, cpp-httplib, picohttpparser, libresolv, the thread
  pool: libraries, modelled as far as the code observes them.
* An exception in the constructor of `TlsConnection`, which `query` catches and
  reports as UNKNOWN; a driver library whose `create` returns null or throws;
  memory that runs out, which in a detached thread of the system backend ends the
  process.
* The pipe of a cancelled batch of the system backend: its descriptors are closed
  while detached threads may still poll them (`dispatcher_system.cpp:434`).
* Texts: requests, log messages, signatures, formatting of records; one-shot
  commands of the command line, except that `config test` is compared with the
  start-up (`TestedConfigStarts`).

## 6. Plan

1. Core, done: lookups, scheduler and daemon with proofs; resolvers, HTTP, DNS
   messages, the life of the process with drivers and configuration, and the
   cache with TLC.
2. Breadth, done: the system backend, the updates with sources and drivers, the
   query builder and the validator on bytes, sockets, mDNS and URIs.
3. Proofs, done: every safety property of a passing run, invariants and action
   properties, for every value of the constants.
4. Left: liveness, which stays with TLC, and the parts of section 5.
