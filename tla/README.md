# Mockintosh in TLA+

Mockintosh mocks HTTP services and asynchronous ones (Kafka, AMQP, Redis,
MQTT, Amazon SQS, Google PubSub) from one configuration file. A management API
changes the running process: it replaces the configuration, resets counters
and iterators, switches logs on and triggers producers. One Tornado event loop
serves all HTTP requests; producers, consumers, triggers and the rendering of
templates run in threads beside it, and share plain Python attributes with it
and with each other, without locks.

The modules here are models of `src/mockintosh`, translated from the code.
They are checked with TLC on small instances; the theorems are proved with
TLAPS for all values of the constants. Paths below are relative to
`src/mockintosh/` unless they begin with `docs/` (of `src/`).

| module | models | run by | proofs |
|---|---|---|---|
| `AsyncProducer` | a producer and the threads that call it | `MCAsyncProducer` | `AsyncProducerProofs` |
| `ConsumerGroup` | the consumers of a topic and the threads that feed them | `MCConsumerGroup` | `ConsumerGroupProofs` |
| `Capture` | abstract: what a list of captured messages shows; `ConsumerGroup` implements it | `MCConsumerGroup` | `ConsumerGroupProofs` |
| `RenderQueue` | the rendering thread, its queue, SIGHUP | `MCRenderQueue` | `RenderQueueProofs` |
| `HttpAlternative` | multiple responses and datasets of an HTTP endpoint | `MCHttpAlternative` | `HttpAlternativeProofs` |
| `HttpService` | routing, statistics, logs, unhandled requests, management API | `MCHttpService` | `HttpServiceProofs` |
| `Lifecycle` | start, `POST /config`, SIGHUP, and the threads of earlier configurations | `MCLifecycle` | `LifecycleProofs` |
| `ConfigBuilder`, `Resources` | the files a configuration refers to, `/resources` | `MCResources` | `ResourcesProofs` |
| `Listing` | abstract: what `GET /resources` promises; `Resources` implements it | `MCResources` | `ResourcesProofs` |
| `Recognizers`, `Documents` | matching of paths, headers, query strings; OAS documents, prototypes of unhandled requests | `MCDocuments` | `DocumentsProofs` |

To run: `tlc -config <run>.cfg <MC module>`, `tlapm <proof module>`.
`PROJECT.json` lists the runs with what each shows, the source lines of every
definition (`map`), the hazards of the code with the properties aimed at them,
and for every checked property a mutant: an operator marked *a faulty variant*
or *Mutated* that TLC must find to violate the property when it takes the place
of the definition after it.

## 1. The system

### Asynchronous producers — `services/asynchronous/__init__.py`
*State*: `payload_iteration`, `dataset_iteration`, `lock_payload`,
`lock_dataset`, `counter` of a producer; `stop`, `limit` of its actor; `tags`
of its service. *Operations*: `run_produce_loop`, `produce` (by the loop, by a
trigger of the management API, an HTTP endpoint or a consumed message),
`POST /tag`, `stop_loops`. *Interaction*: each trigger starts a daemon thread;
all of them and the loop's share the attributes. *Hard*: the increment, the
test and the reset of an index are separate steps of several threads; a search
for an active tag runs through all of them; a broker may refuse or raise half-way.
*Correct when*: indexes return into their lists, limits and locks bound what
is sent, only active items are sent and in their order, the count of messages
is not above what was sent, a stop takes effect.

### Asynchronous consumers — `services/asynchronous/{__init__,kafka,redis,amqp,mqtt,amazonsqs,gpubsub}.py`
*State*: of each consumer the list `log` and the records of its log service;
`stop` of the group; what the broker still has. *Operations*: receive a
message, match it with the consumers of the topic, append, trim to `capture`,
trigger the actor's producer, acknowledge; `DELETE` of captured messages;
`stop_loops`. *Interaction*: `run_loops` starts every group made so far once
per service, so one group may be read by several threads. *Hard*: tests and
pops on shared lists, a `DELETE` between them, brokers that give messages back,
a message that is half-way in when it turns out that it cannot be counted.
*Correct when*: lists keep the last `capture` messages, no reader dies of
another one, every matching message is captured and reacts, captures are not
repeated beyond what the broker repeats.

### Template rendering — `templating.py`, `handlers.py`, `hbs/`, `j2/`
*State*: the queue, `RenderingJob.stop`, the dictionary of counters, a result
queue per task. *Operations*: push a task and wait, render, write the counters
back, `kill`. *Interaction*: the event loop and the actors' threads block on
one rendering thread; SIGHUP's handler runs on the main thread in between.
*Hard*: the dictionary is iterated by one thread and extended by others; the
handler needs a mutex that the code it interrupted may hold; nobody answers
after the thread ended. *Correct when*: no task is lost or rendered twice,
everyone is answered while the job lives, counters agree with their uses,
`kill` ends the thread.

### HTTP endpoints — `handlers.py`, `services/http.py`
*State*: `multi_responses_index`, `dataset_index`, the loaded dataset of an
alternative. *Operations*: a request that the alternative accepts,
`POST /tag`, `/reset-iterators`, `/config`. *Hard*: `loop_alternative` is
recursive, increments without a bound and restarts; a response is taken before
the dataset is known to have a row. *Correct when*: selectable items come in
their order, each once if the list is not looped, and the index stays usable.

### HTTP services and the management API — `handlers.py`, `servers.py`, `stats.py`, `logs.py`, `management.py`
*State*: the path-to-method table of each application, `Stats` (global, per
service, per endpoint), traffic logs, `unhandled_data`, requests that await the
fallback server. *Operations*: every way a request can end; `/stats`,
`/traffic-log`, `/unhandled`, `/config`, of all services and of one. *Hard*:
three structures are indexed by positions and replaced at different moments; a
handler awaits in the middle; a posted configuration can fail half-way; a
status is counted by five different pieces of code. *Correct when*: the first
endpoint that fits answers, counters of the three levels add up and agree with
the routes and with the log, and every request that ended is counted or is of a
kind that is known not to be.

### Start, stop and reload — `__init__.py`, `_looping.py`, `definition.py`, `servers.py`
*State*: class-level lists of services, actors, groups and HTTP services, the
`stop` of every loop, the applications of the server, `data` and `config_root`
of the definition; statistics and logs at module level, which survive the
restart by SIGHUP. *Operations*: `run`, `analyze`, `load`, `run_loops`,
`stop_loops`, SIGHUP, `POST /config`. *Interaction*: every list is indexed by
ids that were handed out while another list had the same length. *Hard*:
threads of the old configuration outlive it and count in the statistics of the
new one; a post may raise after half of its services; the signal may come at
any of these steps. *Correct when*: loops of old configurations are told to stop
and end, ids point to their own endpoints, an application serves the service
that has its port, the total is not above what was counted, no thread that
should go on is ended by statistics that were emptied under it.

### Resources — `builders.py`, `config.py`, `management.py`
*State*: one list of all external files; each object keeps its position in it;
the files below the configuration's directory. *Operations*: building and
destroying services, which add and take out objects; `GET`, `POST`, `DELETE`
`/resources`. *Hard*: the position must follow every removal; a new service is
built before the old one is destroyed, and either may stop half-way; a
configuration that is refused has already emptied the list. *Correct when*: the
list is what the configuration in force refers to, and no request changes a
file that it does not refer to.

### Documents the program writes itself — `management.py`, `transpilers.py`, `services/http.py`, `recognizers.py`
*State*: the endpoints of a service with the patterns and priorities that the
recognizers made of them, the unhandled requests per identifier. *Operations*:
`GET /oas`, start from an OAS document, `GET /unhandled` and adopting its
prototypes. *Hard*: the document is made from the first endpoint of each
method and path, and names and expressions of segments are lost on the way;
prototypes keep only the headers that all requests of an identifier have.
*Correct when*: a service that was given prototypes answers the requests they
were made from; the document has every path, and a service started from it has
its operations and describes itself by the same paths and conditions; static
paths come before others.

### The rest
Performance profiles, template helpers and replicas, interceptors, command
line, the management pages: see section 7.

## 2. The modules and the code

**AsyncProducer.** One step per attribute access: CPython 3.9, which the
`Dockerfile` runs, may switch threads between any two bytecodes, and `+=` on an
attribute is a read and a write (`LoadIteration`, `StoreIteration`;
`LoadCounter`, `StoreCounter`). `ReadCurrent` is `get_current_payload` and
`get_current_dataset_row`, `TestEnd`, `SetLock`, `ResetIteration` the
increment functions, `TestTag` and `CheckAny` the `if`/`while` over tags.
Payloads and rows are walked by the same lines written twice; `kind` says
which. `LoopTop` and `LoopCount` are `run_produce_loop`; the triggers' checks
are `TriggerByRequest` and `TriggerByConsumer`. Messages are pairs of item
numbers: `tried` has those handed to the broker, `sent` those that it took. An
actor may have no dataset or an empty one (`HasDataset`); the code tells them
apart. `ResetIterators` changes nothing, because `/reset-iterators` assigns
an attribute that no other line reads.

**ConsumerGroup, Capture.** `Receive`, `Match`, `AppendLog`, `CannotCount`,
`AddRecord`, `TestLog`, `PopLog`, `TestRecords`, `PopRecords`, `React`, `Settle`
are `consume_message` and `after_consume_match` statement by statement;
`TestStop`, `PollNothing` the polling loops. The brokers differ in the operators
`Polls`, `Subscription`, `GivenBack` and `Survives`, and Redis by `Reappear`:
RSMQ hides what it hands out and nobody deletes it, so each message is there
again after its visibility timeout. `CannotCount` is the `IndexError` of
`endpoints[actor_id]` between the log and the record: of consumers that were
`uncounted` from the start (an actor before them neither consumes nor produces,
so their number is past the end), and of any once the loops are stopped, when a
posted configuration replaces the statistics. The patterns of consumers and the
contents of messages are *kinds*: a consumer matches a set of kinds, and some
raise `KeyError` where `match_attr` reads a header by another case than it
tested. `returned` (what was sent again), `unfinished` (how many could not be
counted) and `owing` (the readers whose records a DELETE replaced between their
test and their pop) are history. `Capture` knows nothing of loops and threads: a
consumer's list has messages stored at its end and dropped at its beginning, and
it bounds how far the list may be from the last `capture` ones. With one reader
that is the message just stored; each reader more may leave one message too
many, or have taken one too many away, since tests and pops of the same list
overlap; and one that is `owed` may take one of the list that a DELETE left. A
reader may also break off (`BreakOff`) and leave its message behind, which
nobody cuts any more. The log and the records of a consumer are each shown to
implement it, the log with nobody `owed`, because `DELETE` leaves the log alone,
the records with nothing left behind, because they come after the message was
counted.

**RenderQueue.** A requester passes `put`, `locked`, `wait`, `populate`; the job
`check`, `pop`, `update`, `iterate`, `render`. `LockQueue` and `Push` show the
mutex inside `queue.Queue`, because the signal's handler may interrupt the main
thread between them. `JobIterate` is the loop over the dictionary that raises
when its size changed. After the handler of the signal has returned the main
thread may come with another template (`Request`). What a template computes is
left out, except the counter it uses and whether it raises.

**HttpAlternative.** A request is one step: Tornado's handlers run to the end
unless they await. `Loop` is the outcome of the whole recursion of
`loop_alternative`; `LoopAlternative` has the recursion as in the source, as a
recursive function, and `LoopIsTheCode` compares them. The five actions of
`Request` are the ways out of `match_alternative`: responses exhausted,
answered, file not readable, looped dataset without rows, row. An empty string
among several responses (`Empty`) ends the request before the dataset is looked
at.

**HttpService.** A request is routed by `Route` (the first path that fits, in
the order in force) and then by method and conditions. Actions `Gone`, `NoRow`,
`Uncounted`, `Answer`, `Close`, `Reset`, `Cors`, `Refuse`, `Forward` are its
ends, with `on_finish` (`Ends`) as part of each that gets there. `Forward` and
`Forwarded`/`ForwardFails` are two steps, since the handler awaits the answer
and everything may be replaced meanwhile. `Tallies` are the counters of the
three levels. `Configure` is `POST /config`; `FailConfigure(k)` an `analyze()`
that raises after `k` services; `ConfigureService` the one of a service. A
request is an URL class, a method and a *content*, and an endpoint lists the
contents that its conditions accept: header, query and body matching is that
set; `silent` are the contents whose failing condition notes no endpoint
(GraphQL). Requests for images are not recorded as unhandled (`Images`). The
global counters (`Globals`) are there only where all services are HTTP: with
actors their threads add to them without a lock, and they are `Lifecycle`'s
`total`. `ended` are the requests that ended since the statistics were reset,
`missed` those of them that the code passes over; these, `forwarded`, `since`,
`failed`, `reply` are history.

**Lifecycle.** `at` is the next step of the main thread: `Build` (the builder
numbers the services), `Analyze` (one service: its entry in statistics and logs,
its objects, or the exception in the middle of it), `Analyzed`, `Load`,
`Register` (the handler of SIGHUP), `RunLoops`, `StartService` (a produce loop
per actor, a group per topic, and a thread for *every* group listed so far),
`Started`; a post goes through `Post`, `Build`, `Analyze`, `Update`
(`update_service`), `Reset` and the loops. `Hangup` may come between any two of
them: it stops and empties everything, and the main thread finishes on the
emptied lists before `Restart`. A thread is a record with the id of its actor or
group; `Message`, `ReadTotal`, `WriteTotal`, `Finish` are what it counts, an
`IndexError` being an outcome of the positions (`HasEndpoint`), not a choice.
Analysing raises at an actor whose produce list names two queues, or at an HTTP
endpoint whose template or query cannot be read (`Unreadable`): the service has
then the endpoints before it (`ReadTo`). An endpoint is known by the hint it is
listed under, so that `CountsAtHome` can say whether a position belongs to whom
it was given.

**ConfigBuilder, Resources, Listing.** `ConfigBuilder` maps a configuration to
the files it registers, in the order of `ConfigRootBuilder`, with `Refused`
where `CommaInTagIsForbidden` is raised. In `Resources` a post is a loop:
`Build` makes one object, `BuildRaises` ends it; of a whole configuration
`Analyze` ends it, of one service `Built` and `Destroy` take the objects of the
old one out again, each at its own `_index`. Two exceptions of that handler have
no step: where a whole post was refused while it built, `config.py:44` raises
for a service past the refused one before anything but an `oas` object is made,
and the analysis of the new service may raise when its objects are those of
`config_root` already. Paths are sequences of names and the tree is a set of
files and a set of directories; an upload is a sequence of parts, written one
after the other; `Write`, `Emptied`, `TakeAway` are `POST` and `DELETE
/resources`. `Listing` knows nothing of objects and positions: its `Replace`,
`ReplaceOne`, `Refuse` and `Spoil` are what may become of a posted
configuration, and `List` is the promise.

**Recognizers, Documents.** A segment of a path is text, a name in braces or an
expression in braces; `Priority` and `Pattern` are what `handle_param` and
`handle_new_parts` make of them, `FitsPath`, `FitsHeaders` and `FitsQuery` what
the handler does with it. `Documents` is one service: `Ask`, `SetCapture`,
`DeleteUnhandled`, `Post`, `Adopt` (the prototypes, alone or after the
endpoints, posted or at a new start) and `Import` (a start from the service's
own document). `Document` is `GET /oas`, `Transpile` the way back. A response is
its status, whether it is one or a list, and whether it has headers: the
importer makes lists of all, and the document has the status of single ones
only. A document with response headers stops the import with a `KeyError`, which
is the guard of `Import`. Two tables stand for Python's strings: `Numbered` has
the names `param1`, `param2`, ... that a document gives to expressions, `Rank`
the order in which the segments of sorted paths come.

The modules share no state. What they leave to one another: a consumed message
triggers a producer (`React` / `TriggerByConsumer`), rendering an answer asks
the queue, an accepted alternative chooses by `HttpAlternative` (its results are
outcomes of `HttpService`), `Lifecycle` starts and stops the threads that
`AsyncProducer` and `ConsumerGroup` look into, and has of `HttpService` only
what depends on the ids.

## 3. The runs

| run | question | result |
|---|---|---|
| `producers` | loop and trigger at once, lists with tags that change once, a stop, failing brokers | the race on the index is repaired (`IndexSafeAtRest`), limit, stop, count and tags hold; before the trigger comes the order is kept; a search that is left alone ends |
| `producer_once` | docs/Async.md:359 a list that is not looped | violated: the search that exhausts it sends its first payload again |
| `render` | two requesters, two counters, SIGHUP, templates that raise | one task each, counters, `kill`, everyone answered |
| `render_hup` | docs/index.md:172 SIGHUP restarts the server | violated: main waits for a dead thread |
| `alternative` | 32 alternatives, tags, resets, configurations | order, once, exhaustion; the closed form is the recursion |
| `alternative_always` | docs/Configuring.md:185 responses without a tag are always selected | violated by a looped list that begins with an inactive one |
| `consumers` | six types of broker, one or two readers, DELETE, stop, a message seen again, one that cannot be counted | capture kept, both lists implement `Capture`, deaths, repeats, everyone handled |
| `http` | two services, all outcomes, all management requests | first match, statistics add up, every end of a request counted or known not to be, log |
| `http_static` | docs/Matching.md:100 static paths first | violated after `POST /config` |
| `reload` | posts, failed posts, SIGHUP at every step, messages meanwhile | old loops are told and end, ids point home, applications serve their port, the total is not above, no current thread dies of a reload |
| `resources` | posts of everything and of one service, accepted and refused, requests between | positions, the list implements `Listing`, only referenced files change |
| `documents` | requests recorded and adopted, documents written and read again | static first at a start, prototypes answer, the document is complete and comes back but for the statuses |

The runs that end in a violation are disagreements of the code with its
documentation (`findings` in `PROJECT.json`), each a property of its own.

### Bounds
* *Threads*: a loop and a trigger, with a limit of two messages; two readers;
  the event loop and a worker. `producer_once` has the loop alone, without a
  limit and with four messages at most (`MaxSent`). Every race in the code is
  between a step of one thread and one of another; the theorems on
  `AsyncProducer` hold for any number of triggers.
* *Lists*: two or three items, with and without tags, with the first, the last
  or all of them inactive; datasets also empty, with an empty row, or absent.
  Enough to wrap around and to skip at both ends. `MaxAnswers = 5` goes around
  a list of three with the 410 in between.
* *Messages*: up to six, of all four kinds, one kind three times, with `capture`
  2 and 0. Two is the least size at which a pop that a DELETE came before can take
  one of several messages. Where each reader has a subscription, or messages come
  back, five are published, with Redis three (`Published`); x or y is there more
  often all the same. One message is seen again with Redis (`MaxReturns`) and one
  cannot be counted (`MaxUnfinished`), either by a consumer that never can
  (`Beyond`) or after the stop.
* *Requests*: two to a service and two to the management API in `http`: a
  request before and one after a change, or two changes around a wait for the
  fallback server. Both services are HTTP, so that the global counters are
  there; one of them has conditions that fail in silence. `MaxTagChanges`,
  `MaxChanges`, `MaxDeletes`, `MaxRequests`, `MaxSent` bound counters only; none
  is in the code.
* *Reload*: `MaxPosts = 2`, `MaxHangups = 1`, `MaxMessages = 2`, and
  `MaxEvents = 4` of all three together: a failed or interrupted post followed
  by another one, a restart before or after it, and two messages that are
  counted at once or across the reset. Five posted configurations: actors
  without endpoints before one that has them, one that raises at its first
  service, one that raises in the middle of an HTTP service, HTTP services that
  change their place, and other routes for both.
* *Resources*: three posts and two requests, four events together: a refused
  post between two accepted ones, a request before and after. Five paths: next
  to the configuration, below one and two directories, a directory, a template.
  `MaxParts = 3`: an upload of any three of them, the same one twice included.
* *Documents*: three requests, three changes: two requests of an identifier
  that agree in some headers, recorded, adopted and asked again, and a document
  of what was adopted. `c+` stands for a path that is not its own regular
  expression.
* *Configurations* of `http`: two, whose endpoints cover a parameter before a
  static path, two alternatives of a path with one in between, OPTIONS, a
  condition that fails without noting its endpoint, and every outcome of an
  endpoint.

The type invariants of the modules that have proofs are theorems and no longer
part of a run.

All runs but the violations stop where the bounds are used up or the threads
have ended, as the program's own requests may, so deadlock is not checked.
The model of a thread that blocks for ever is found by the liveness properties.

## 4. Fairness
Only threads are fair. Daemon threads that were started and can run are run by
the operating system: `WF` on the steps of a producing or consuming thread, of
the rendering job, of a requester. `SF` stands where a step needs something that
others hold again and again but release: the queue's mutex (`LockQueue`,
`JobPop`, `HupPush`), and a message that stays at the broker while polls return
nothing (`Receive`). In `Lifecycle` only the threads that look at `stop` and
have been told are fair (`WF` on `StoppedSteps`): they are scheduled and their
poll returns, with a message or without; the main thread is not, since nothing
that is promised waits for it. Requests, triggers, signals, tag changes, resets,
failures of a broker and templates that raise are never fair: nobody has to
cause them.

## 5. What is proved
From the named assumptions on the constants (`ProducerAssumption`,
`RenderAssumption`, `AlternativeAssumption`, `GroupAssumption`,
`ServiceAssumption`, `LifecycleAssumption`, `ResourcesAssumption`,
`DocumentsAssumption`) only. They say what the constants are: lists are lists,
tags are not the mark of an item without one, priorities are natural numbers,
the files below `source_dir` are a tree, and in `Documents` paths are sequences
of segments of which the names have braces, plain texts do not look like names,
and two segments that sort alike are equal. TLC evaluates them in every run.

**AsyncProducerProofs** — for any number of triggers, any lists and tags, any
limit. `TypeCorrect` is inductive by itself. `IndexRepaired`: with `TypeOK`,
`IndexSafeAtRest` is inductive: after an increment its thread is *repairing*
until it has tested the index, and every test that leaves `repairing` without a
reset has just seen the index inside. `LimitKept` needs `LimitInv`: messages
sent, plus the one under way, plus what is left of `limit` stay within the
limit. `StopKept` needs `StopInv`: `late` is 1 only where the loop is past its
send, and 0 elsewhere until stop. `CountKept` needs `CountInv`: the counter, and
every value read from it, stays below the messages sent by as many as there are
threads between their send and their write (`Pending`); lost updates only widen
the gap. `SentActive` (`OnlyActiveSent`) needs of every thread that it holds an
active item wherever it is past its search (`HoldsActive`), as long as no tag
has changed. `ConfiguredOrder` (`InConfiguredOrder`) is about what the loop
hands to the broker until a trigger is accepted, and says so: with a second
thread it is false. It has two halves: each item is the one due, and in a list
that is not looped the loop goes back only in the search that finds the list
exhausted, of which the message is its last. That this one may be a payload that
was sent before is the code's (`producer_once`). `OrderInv` follows each list
through the loop. What matters of an index is which item a search from there
would find (`Due`); waiting, the index is in the same turn as the place after
the last message (`SameTurn`), every inactive item that the search steps over
keeps it there (`TurnPast`), and what it stops at is the item due.

**RenderQueueProofs** — for any number of requesters and counters. `TypeCorrect`
is inductive. `TasksKept` (`OneTaskEach`) rests on `TaskInv`: a requester waits
exactly when its task is in the queue or with the job, not both, and no task is
in the queue twice; `CopiesOfOne` turns that into the count. `KillKept` needs
`LateInv`, as `StopKept` does. `CountersBehind` is the half of the documents'
promise that holds with any number of threads: no number is above the uses of
its counter; `AheadInv` has it of the dictionary, the job's copy and every
result. `NumbersInOrder` (`CountersConsecutive`) is the other half, as long as
only the event loop renders: `SingleInv` follows the dictionary, the copy and
the result through a task.

**HttpAlternativeProofs** — for lists of any length. `LoopResult` is the lemma
on what the loop returns from any index; `IInv` is `TypeOK`, `IndexInLoop`,
`Unused` (the index of a list that the alternative does not have stays None),
`Walked` (what was given last is at or below the index of a non-looped list) and
`NonLoopedOnce`. It is inductive list by list (`RequestKeepsList`), and gives
`TypeCorrect`, `IndexKept`, `OnceKept`, and the action property
`ExhaustedIsFinal`. `ConfiguredOrder` (`InConfiguredOrder`) needs that the index
tells what was given last (`IndexTells`): it is that item's, or behind the list
after a 410, or 0 where a looped list has started over from a first item that
cannot be selected. Of a looped list without items (`Barren`) nothing is ever
taken. `LoopTranslated` (`LoopIsTheCode`) says of every list, index and set of
tags that the recursive function of the source and the closed form `Loop`
agree. `LoopUnfolds` shows that the closed form satisfies the equation of the
recursion, so that the function exists; `LoopIsRecursion` that nothing else
does: where two solutions differ, take an index the fewest calls from the end of
the search, and the equation has them differ nearer to it.

**ConsumerGroupProofs** — for any number of readers, consumers and captures, and
every type of broker. `LocalInv` (`TypeOK` and `Held`: a reader that handles a
message has one, and a consumer once it matched) gives `TypeCorrect`. `LateInv`
(`late` is 0 until stop and wherever a reader waits for a message) gives
`StopKept`. `CaptureBounds` and `DeathsExplained` come from `ListInv`: a list is
at most `capture` plus the number of readers between their append and the end of
their trimming (`Trimmers` of the log, `Cutters` of the records), the log by the
messages that could not be counted as well, because a reader that leaves without
a pop has just read a length within `capture`. The log is also at least as long
as the number of its `Trimmers`, since each of them has appended one and pops at
most one, so no pop finds it empty; of the records that is so only until a
DELETE empties them under their readers, and that is the one way a pop can fail;
a reader that could not count its message is dead of that (`DeathHasCause`).
`OncePerSubscription` (`CapturedOnce`) treats a message that the broker has not
sent again as a token: it is in its subscription's queue or with one reader that
may still append it, never both and never twice (`TokenInv`), and a consumer has
captured it at most as often as there are subscriptions that have spent theirs
(`CountInv`). Of Redis it says something only of messages whose visibility
timeout has not ended. `LastOnesStored` is about a reader that is alone: in
`LastInv` a list is the last `capture` of what was captured, and one more while
it is being trimmed. Its `StoresLast` is checked by no run, because
`CaptureKept` and `ListsCapture` leave a single reader no other choice.

`ListsImplement` (`ListsCapture`) is the refinement of `Capture`, by the log
(`CapturesLog`) and by the records (`CapturesRecords`): each step of the group
is one of the list or a stutter. Beside `ListInv`, which bounds a list from
above, they need `SlackInv`, which bounds it from below where a pop is about to
come: the messages of the list and the readers that are at no pop of it are
together more than `capture` (`LogSlack`). The reader that decided last has just
seen it so, and each pop of another one since then takes a message and adds a
reader that is at no pop. Of the records that holds only if some reader at its
pop is not `owing` (`RecordsSlack`): one that is owing decided on a list that is
gone. A reader owes only until its pop (`OwingPops`), and stores only messages
that are its consumer's (`OwnMessage`).

**HttpServiceProofs** — for any number of services, all configurations, requests
and waiting handlers. `IInv` is `TypeOK`, `StatsMatchRoutes`, `AnsweredCounted`
and `LogInv`, which adds to `LogsCoverStats` that a service whose log covers its
statistics is logging now. Every request that ends is entered in `ended`, by its
kind and not by what the code does with it; it is passed over if it is a 500, or
a 400 or an empty row of which no condition noted an endpoint. Every end
`Settles` its service: it logs what it counts, and where the statistics match
the routes it counts one status unless the request is passed over, and at most
one for a forwarded request; `SettlesKeeps` shows once that this keeps the
invariant. That the endpoint an answer is counted for exists at all
(`AnsweringIn`, `BlamedIn`) rests on `LeastExists`: a nonempty set of natural
numbers has a least element, here from the well-founded order of the library.
The management steps reset whole services (`ResetFacts`). It gives
`TypeCorrect`, `StatsMatch`, `EachCounted` and `LogCovers`. `FirstAnswers`
(`FirstMatch`) has no invariant: the answer is a function of the routes in
force, and the lemmas on `Route` (the least path that fits, in either order)
show it of every endpoint and request. `CountersAddUp` (`StatsAddUp`) is
`SumInv`: a service's requests are the sum of its endpoints', its statuses at
least the sum below them, and so are the totals where all services are HTTP.
With asynchronous ones the total may be too small, which `TotalNotAbove` of
`Lifecycle` is about. `IncreaseSums` does the three levels of a `+=` at once;
the sums are cardinalities of disjoint sets (`Units`), so that no induction over
a fold is needed.

**LifecycleProofs** — for any configurations and any number of posts, signals,
messages and threads. `OldToldToStop` (`OldStopped`) rests on `StopInv`: whoever
looks at `stop` is told already or is in a list that `stop_loops` goes through
(`Known`), so is every actor still to be started (`TodoKnown`, `AsyncsKnown`),
and `Orderly` says what the main thread has at each of its steps unless a signal
came between: while a configuration is prepared everyone is told and no group is
listed, and what is started is of the configuration in force. `ServesItsPort`
(`AppsServe`) rests on `Sited`: the list of HTTP services comes from the
configuration, place by place, and the ports of `data` are those of the
applications, which the check of restricted fields hands on to what is posted.
`TotalWithin` (`TotalNotAbove`) needs that a thread between the read and the
write of its `+=` holds no more than was counted. `CurrentGoOn`
(`CurrentSurvive`) rests on `HomeInv`: whoever was not told to stop counts at
endpoints that exist (`Homes`); statistics only grow (`Grown`), except where a
post empties them, and by then everyone was told and no group is left
(`PostQuiet`). `CountAtHome` (`CountsAtHome`) rests on `PlaceInv`: between a
post, or the first start, and the next one, service `i` of the configuration has
entry `i` of the statistics, in which its actors have appended endpoints one
after the other (`Entered`), and those of HTTP services are their routes
(`Counted`). The lemmas on `FlattenSeq` say where in the whole list an actor's
own endpoints are. `TypeCorrect` adds to the invariants before it
that generations begin before anything carries them (`Dated`, `Begun`).

**ResourcesProofs** — for any configurations and any sequence of posts and
requests. `IInv` is `TypeOK`, `IndexIsPosition`, `FilesRight` (the list has the
objects of the services, of refused single services and of the post under way),
`Apart` (no object belongs to two services) and `JobFits`. It gives
`TypeCorrect` and `Positions`, and `Implements`: every step of `Resources` is
one of `Listing` or leaves what `Listing` sees alone. `OnlyReferenced`
(`OnlyReferencedChange`) needs that what is below `source_dir` stays a tree
(`TreeInv`): a part of an upload creates a listed file and the directories above
it, a deletion walks up through directories that it has emptied. An upload has
any number of parts (`MaxParts` is any natural number): `FoldExists` gives the
function that the library's fold is defined by, for a sequence of any length,
and `PartsFine` takes the first part after which the tree would not be one.

**DocumentsProofs** — for any configurations, paths, requests and posts. The
inductive `Inv` has four parts, and `Configured` is that it holds: the endpoints
are a configuration (`IsConfiguration`), what is recorded is under its own
identifier (`Recorded`), every adopted request has rows whose prototype is among
the endpoints (`Learnt`), and a service that came from a document has the
endpoints that `Transpile` makes of a document that could have been written
(`Came`). `StaticPathsFirst` (`StaticFirst`) follows from the closed form of
`Priority` (`PriorityIs`): a path has the least priority exactly if all its
segments are text. `PrototypesAnswer` (`LearntAnswered`) follows the conditions
of a prototype from `Learnt` to the request; `PathsDocumented` (`Documented`)
and `DocumentsReturn` (`ComesBack`) go through the document: its paths are those
of the routes (`PathReturns`, `PatternTells`), sorting them loses none (`Sooner`
is a strict total order, `SortedIs`), flattening puts each operation in a place
of its own (`FlattenIs`), and the first endpoint of a method is the one that was
written (`FirstMethodsAre`). What comes back is the same document with 200 in the
place of every status (`Retold`), while the endpoints have the statuses of the
document (`StatusKept`).

Only model-checked: liveness (`ProduceEnds`, `KillEndsJob`, `EveryTaskRendered`,
`EachHandled`, `StoppedEnd`), for which the prover has no rules for fairness and
ENABLED. Every invariant, action property and refinement that a passing run
checks is a theorem.

## 6. Where the code and the documents part without a run
* Two triggers at once may send one payload twice and skip the next
  (docs/Async.md:355). `IndexSafeAtRest` says what does hold.
* `limit` bounds the scheduled loop only (docs/Async.md:114).
* `/reset-iterators` does nothing for asynchronous producers
  (`management.py:88`, docs/Async.md:389).
* Counters of two threads may show the same number (docs/Templating.md:175).
* docs/Matching.md:3 has the first endpoint that fully matches; the code takes
  the first path that fits and then only the endpoints of that path
  (`FirstMatch` states it), and answers 405 or 400 where the page says 404.
* Statuses 400 and 410 are counted without a request counter; a
  request without an endpoint for its method that was forwarded is counted
  nowhere unless the answer is 405 too, since `on_finish` raises for want of an
  endpoint. So are a 400 and an empty row where every condition that failed was
  one of GraphQL's, which note no endpoint (`handlers.py:969`, `:1041`).
* The unhandled requests of a service are stored by its number among all services
  and read by its number among the HTTP ones (`management.py:317`,
  `handlers.py:1305`): with an asynchronous service before it, its own are not
  shown (docs/Management.md:74).
* `POST /unhandled` overwrites the tags of asynchronous services
  (`management.py:356`). The model has it in no module: tags belong to
  `AsyncProducer`, where `SetTags` allows any change.

Asynchronous, and found by variants of the runs that are no longer kept: an
index past the end, which a second thread leaves for a moment, is read and ends
the thread that reads it (`services/asynchronous/__init__.py:427`,
docs/Async.md:359 "indefinitely"); two readers that both trim keep fewer
messages than `capture` (`:248`, docs/Async.md:184), by one for each reader but
the first: `Capture` has that bound.

Asynchronous, and built into the model:
* Redis messages are never deleted (`redis.py:95`) and are captured again after
  every visibility timeout.
* The schema allows an actor that neither consumes nor produces. It has no
  endpoint in the statistics, and a consumer behind it counts at a number past
  the end: the message stays in its log without a record, and the thread dies
  (`handlers.py:1593`).
* PubSub's, AMQP's and MQTT's groups of an old configuration go on after
  `POST /config`. Where they cannot count in the new statistics nothing trims
  their logs any more; PubSub survives that, and its log grows.

Reload:
* `POST /config` compares the port with the service at the same position, but
  `update_service` counts the HTTP services alone: where a service changed its
  type, another one is served on its port (`management.py:212`,
  docs/Management.md:46). `AppsServe` is about services that keep their places.
* A SIGHUP in the middle of a post empties the lists, the post goes on entering
  the rest of its services, and the restart serves them beside those of the file
  (`servers.py:583`). `AppsServe` leaves such runs out (`torn`).
* With a list of services on the command line, `POST /config` raises
  `AttributeError` for a service that has no application, is answered 500 and
  starts no loop again. So does a post whose `analyze()` raises.
* After a restart statistics and logs have the services of both starts, and the
  new ones count in the entries of the old ones until the next post.
* Kafka's group waits for its topic before it looks at `stop`; AMQP's, MQTT's
  and PubSub's never look.

Resources:
* `forbid_comma_in_tag` returns at the first plain string of a list, so a tag
  with a comma after it is accepted.
* A configuration that is refused half-way leaves the list of external files
  emptied or half-filled until the next accepted one; a later post of one
  service may then take out another object's entry or raise (`DestroyRaises`).
* Files given as `@/...` are served but not listed; the deletion of a directory
  prunes none of its parents, that of a file does.

Documents and prototypes:
* docs/Management.md:74 has prototypes for the requests that were not handled.
  They do not answer them where the path, which is read as a regular
  expression, does not fit itself (`c+`), where a key of the query string came
  several times (the prototype takes the first value, the handler compares the
  last), or where an earlier path fits too after `POST /config`.
* All operations of a path share one dictionary of query parameters
  (`services/http.py:303`), so later methods require the keys of earlier ones;
  paths that are written alike in a document overwrite each other; `param2` of a
  user may meet the `param2` of an expression.
* The statuses RST, FIN and templates are exported as `default`, and come back
  as 200. The importer makes a list of every response (`transpilers.py:241`), and
  the export has the status of single responses only (`services/http.py:318`): a
  service that was imported answers 201 and documents 200.
* A document whose responses have headers, as `config.py:298` writes them, cannot
  be imported: `KeyError` (`transpilers.py:249`, `:142`).
* By reading only: `servers.insert(0, ...)` on a service's own document grows
  with every GET; a restart reuses the configuration that an OAS input was
  transpiled to and does not read the input again; the builders look for
  `performance_profile` where the schema has `performanceProfile`.

## 7. What is not modelled, or partly
* *Which requests the event loop and actors count together* in the global
  counters: `HttpService` has those of HTTP services alone, `Lifecycle` the
  total of both.
* *Two subscriptions of one PubSub group* (a group started twice is called back
  twice): the model has one.
* *Connecting* to brokers, creating topics, retries before the first message.
* *Hostnames and SSL* of HTTP services: `Lifecycle` has one service per port.
* *JSON schema, templates of the configuration file*: `analyze()` raises or not.
* *Bodies, response schemas, a service's own OAS document*: contents.
* *Status and time counters of actors' messages*: `Lifecycle` has the request
  counter, and the positions at which the others are added.
* *GET of one resource, paths that leave the directory*: nothing changes.
* *Interceptors*: user code. *Command line, pages*: no state.
* *Replicas, helpers, performance profiles*: random data, or outcomes that the
  models already allow.

## 8. Plan
1. Composition: a consumer that triggers a producer that feeds a topic
   (`ConsumerGroup` with `AsyncProducer`).
2. The handlers of the management API that await a form, between two of which
   a configuration may change.
3. Two subscriptions of one PubSub group.
