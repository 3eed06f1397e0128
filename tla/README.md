# Verification of lib45d

TLA+ modules for lib45d (`src/src`), TLC configurations that model-check them on
small instances, and theorems about them that TLAPS proves for every value of
the constants.  File names below are relative to `src/src`.

lib45d is a C++ library of largely independent parts.  Two of them are hard to
test: `MTDirCrawler`, whose threads share a queue and detect termination by
themselves, and the sockets, whose two ends talk over a byte stream.  The
configuration parser is sequential, but long sequences of legal calls change
the state that later calls read through; `pattern_match` is a small search
whose comment promises more than the loop does.

## 1. Inventory

| Component | State | Operations | Interacts with | What is hard |
|---|---|---|---|---|
| `MTDirCrawler` (`incl/45d/MTDirCrawler.hpp`) | `queue_`, `threads_running_`, `done_`, `workers_`, `mutex_`, `cv_` | `crawl`, `crawl_async`, `wait`; `worker` in each thread | the caller's callback, the file system, the C++ thread library | termination detection, an unlocked read of `done_`, lost and spurious wake-ups, reuse, threads that cannot be started, exceptions in a worker |
| `ConfigParser` (`incl/45d/config/ConfigParser.hpp`, `impl/config_parser.cpp`) | `config_map_` and the maps of its sections, `config_map_ptr_`, `current_section_`, `guarded_`, `sub_confs_` | constructor with `parse_entry`, `parse_heading`; `get`, `get_from`, `get_quota`, `get_quota_from`, three overloads each; `dump_str` | guards change its private state; `Quota` | which map a call reads after calls that failed or threw; a pointer that dangles or is null |
| `ConfigSubsectionGuard` | reference to a parser | constructor, destructor | `ConfigParser` | a constructor that throws half-way |
| `ConfigNode` | `value_`, `sub_map_`, `is_copy_` | copy, move, move assignment, destructor | owned by `ConfigParser`'s maps | who deletes `sub_map_` |
| parser functions (`impl/parser_functions.cpp`) | none | `check_record_type`, `strip_whitespace`, `remove_comments` | called by `ConfigParser` | comments that look like entries |
| `SocketBase` | `fd_`, `io_fd_`, `ACK` | `send_data`, `receive_data`, their synchronous and asynchronous forms for strings and vectors, `close_connection`, `shutdown` | the other end, through the kernel | message boundaries on a stream, ACKs among messages, ends that close |
| `UnixSocketServer`, `UnixSocketClient` | `connections_`, the inode; the address | bind, listen, `wait_for_connection`; `connect` | `SocketBase`, file system | descriptors closed twice, a default descriptor that changes, an inode left behind |
| `pattern_match` (`incl/45d/low_overhead_string.hpp`) | two iterators and two saved positions | one function | callers' callbacks | going back without leaving the strings; completeness |
| `Bytes`, `Quota` | `bytes_`; `fraction_`, rounding method | arithmetic, formatting, parsing | `Quota` is-a `Bytes`; `ConfigParser` | rounding, zero maxima, floating point |
| exception classes | message, errno | none | thrown by all | nothing |
| build, packaging, docs | | | | no run-time behaviour |

Correctness, component by component:

* `MTDirCrawler`: the callback is called once for the base path and for every
  entry of every directory it agrees to recurse into, and `wait()` returns when
  that is done, for any number of threads that could be started; afterwards the
  object is as new.
* `ConfigParser`: a getter answers what the file says of the section it should
  read, whatever was called before; the pointer it reads through is valid.
* Sockets: what is received is what was sent, message by message; a send that
  waits for an ACK returns when its message was received; both ends get on.
* `pattern_match`: answers whether the text matches.
* `ConfigNode`: every section map is deleted once, by its owner, and nobody
  follows a pointer to it afterwards.
* Parser functions: a comment changes nothing; what is dumped is read as it was.
* Server and client: every descriptor is closed once, by its owner.
* `Quota`: the value is the share that was asked for, rounded, or a byte next to
  that, and not more than the maximum; a printed value that is read back is
  printed the same, as far as its digits tell.

`PROJECT.json` lists the hazards line by line, with the properties that cover
them, or why none does.

## 2. Modules

| Module | Models | Kind |
|---|---|---|
| `Traversal` | what one crawler promises | abstract specification |
| `MTDirCrawler` | the crawler, its threads and its owner | detailed specification, refines `Traversal` |
| `MTDirCrawlerProofs` | | theorems |
| `ConfigParser` | `ConfigParser` and `ConfigSubsectionGuard`: which map a call reads | specification |
| `ConfigParserProofs` | | theorems |
| `NodeOwnership` | `ConfigNode`, and copies of `ConfigParser`: who owns a section's map | specification |
| `NodeOwnershipProofs` | | theorems |
| `Records` | the parser functions, `parse_entry`, `parse_heading`, `dump_str`: what a line says | functions, driven by a small specification |
| `RecordsProofs` | | theorems |
| `Rendezvous` | what synchronous sends and receives promise | abstract specification |
| `SocketStream` | `SocketBase`'s exchange over one connection | detailed specification, refines `Rendezvous` |
| `SocketStreamProofs` | | theorems, those about `Rendezvous` included |
| `SocketDescriptors` | who opens and closes which descriptor and inode: `SocketBase`, server and client | specification |
| `SocketDescriptorsProofs` | | theorems |
| `PatternMatch` | `pattern_match` | specification of the loop, with a declarative reference |
| `PatternMatchProofs` | | theorems |
| `Quota` | `Quota`, and the parts of `Bytes` it uses | functions over rounded numbers, driven by a small specification |
| `QuotaProofs` | | theorems |
| `MC_*` | | instances for TLC |

### MTDirCrawler

One action per critical section or per operation outside of one.  A worker
stands at one of these places (`pc`):

| Label | Next | Lines |
|---|---|---|
| `test` | reads `done_` in `while (!done_)`, without the mutex: `Test` | 121 |
| `enter` | takes the mutex, lowers the counter, and then announces the end (`Finish`), sleeps, returns, or takes an entry: `Enter` | 122-138 |
| `wait` | sleeps in `cv_.wait()`; notified by others, or `SpuriousWake` | 131 |
| `woken` | has the mutex again and re-tests: `Relock` | 130-138 |
| `call` | runs the callback and `is_directory`, opens the directory: `Call`, `CallThrows` | 139-141 |
| `list` | queues one entry under the mutex: `Push`, `ListThrows` | 147-154 |
| `notify` | `notify_one()` after the mutex is released, and the iterator goes on: `Notify`, `ListThrows` | 155, 141 |

A critical section is one step because everything in it is touched under
`mutex_` everywhere.  The exceptions are modelled as such: `done_` is read at
`test` without the mutex, a step of its own (and `DoneRaceFree` says that this
read never meets the write); `threads_running_` is set by `crawl_async()` before
its first thread exists.  `seed()` also touches `queue_` without the mutex, at a
time when no worker exists.  `wait()` is one step because `join()` only lets the
owner wait until each worker has exited.

The callback, `is_directory()` and the iterator of an entry in `Unreadable` may
throw, at once (`CallThrows`) or after some of the directory was queued
(`ListThrows`); they need not.  Nothing catches the exception, so the process is
terminated (`Terminate`) and nothing follows; `Traversal` has `Die` for it.
`Understaffed` is the state after `std::thread` threw: the owner joins, and the
counter includes workers that nobody will start.

Entries are known by their paths.  Every path has one parent, so a directory
tree in the model is a tree even where the file system has links; a directory
that changes during a crawl is not modelled.  The callback's answer and what a
directory holds are constants.

`calls` and `base` are history variables.  `Traversal` sees `Called`, the set of
entries called at least once, the base path, and whether a crawl is under way.

### ConfigParser

A file is a sequence of lines, each an entry or a heading as
`check_record_type` has it; comments and unknown lines change nothing.  `ptr` is
`config_map_ptr_`: the global map, a section's map, null, or a map that has been
deleted.  Following one of the last two is undefined behaviour: the phase
becomes `undefined` and nothing follows (so the runs do not check deadlock).
Each getter has three overloads, the values of `mode`: one throws, one returns a
fallback, one sets a flag; what the caller gets is `result`.  A text is known by
what it converts to: a `T`, a `Quota`, both, or neither.

`Getter` is `get()` and `get_quota()`; `Adapter` is `get_from()` and
`get_quota_from()`: refused under a guard, thrown out by `set_subsection()`, or
read from the section, with `reset_subsection()` where the code reaches it.
A section's node has its heading for a value, which a getter may find convertible
or not; this is the answer `Section`.

`guarded` is the code's flag and `guard`, a history variable, the guard that is in
scope; the two differ after a guard's constructor threw.  `escaped` is a history
variable too: what an exception that left the parser has left switched.  It is
`"call"` after a `get_from()` threw, until another one or the end of a guard has
reset the parser; `"guard"` after a guard's constructor threw, for good, as
`guarded_` stays set; and `"none"` otherwise, also after a `get_from()` of a name
that the file does not have, which changes nothing (`EscapedFrom`).  `file` is a
history variable as well.  Error reports only write to `std::cerr` and are not
modelled.

`ConfigParser` takes a line for what it says and a section's map for a function.
How a line is read is `Records`; who owns the maps is `NodeOwnership`.

### NodeOwnership

A node has a place: a variable, or a name in a parser's map; `node` says which
map it points to and whether it is a copy.  A parser's copy and move are the
compiler's, member by member: a copy has copies of the nodes, whose `is_copy_`
is set, and the pointers of the source; a move hands over the nodes where they
are.  `heap` is what has become of a section's map.  Destroying nodes is one
action per kind of object (`DestroyNodes` of its places); deleting a map that is not
live, or twice, is a fault, and so is following `config_map_ptr_` to a parser or
map that is gone.  Nothing follows a fault.

`lapse` is a history variable, the set of things that the program did and the
classes do not guard against: a node was moved from a copy, an owner was
assigned to, something was destroyed that something else points to, a heading
was repeated.  The properties say what holds unless one of them happened, so
each names exactly what its promise depends on.

Only nodes of `config_map_` have places: entries own nothing, so those inside a
section are left out.

### Records

`Said` is what `parse()` makes of a line.  A line is read, its record is dumped
as `dump_str()` does it, and the dumped line is read.  Characters are members of
a small set: the five that mean something, and letters.  The order in which
`dump_str()` writes records is that of an `unordered_map` and left out.

### Rendezvous

Two ends offer, receive and acknowledge messages; an end offers one when its
last was acknowledged and it has received all of the other's.  There is no
stream, no byte and no piece of a message.  The state is the history of both
ends, so `SocketStream` maps to it by its own history variables: `BeginSend` is
`Offer`, the end of a receive call is `Deliver`, the return of a synchronous send
is `Acknowledge`, and every other step is a stutter.  `SocketStream` implements it
as long as the two ends agree who sends next and nobody calls `shutdown()`
(`TakingTurns`); otherwise the mapping stays at the first state, as the code
promises nothing of the kind.

### SocketStream

Two ends of one connected stream, each with a thread that makes a fixed sequence
of calls (its script).  The kernel is modelled from how the code uses it: bytes
keep their order and are not lost while both ends are open; `send()` of at most
`Segment` bytes enters the stream at once, a longer one in pieces, and blocks
while `Capacity` bytes are unread; closing with unread bytes resets the
connection; writing to a closed end raises SIGPIPE, as no handler and no
`MSG_NOSIGNAL` is set.  ACKs travel in the same stream as messages.  `get_ack()`
at the end of the stream compares an uninitialized `char`: both outcomes are
possible.

A message is a string of a few byte values, the ACK's among them, or a vector of
strings.  `Encode` is
what `send_data()` puts into the stream of a vector (the records with a
delimiter between them), `Split` what `receive_data()` makes of what it has read.
`Shutdown` is a call of `shutdown()` on a client by another thread: both ends of
the connection are cut.  `plan`, `sent`, `acked` and `received` are history
variables; `plan` is fixed at the start and says whether the two scripts agree,
whether there is a thread that may call `shutdown()`, and which ends (`plain`) send
no message with an ACK's byte in it.  Descriptors are not
modelled: each end has one, and the default-descriptor rule has no effect on it.

### SocketDescriptors

Servers and clients of one process.  A number is given out again as soon as it
is free, the lowest first (`Lowest`), also to code of the process that is none
of this library's (`OtherOpens`); descriptor 0 may be free from the start.
`holder` says who was given a number, which the code cannot see; `fd`, `io` and
`conns` are what the objects believe.

Constructors and destructors are several steps, as objects may belong to
different threads; `life` is how far an object has come: `socket` (its
`SocketBase` is constructed), `bound`, `live`, `closing` (in
`~UnixSocketServer`), `base` (about to run `~SocketBase`), `none`.  A
constructor that throws goes to `base`: the base class is destroyed, the
server's own destructor does not run.  `bind()` may fail at any time and must
fail where there is an inode; `listen()` may fail; without a free number
`socket()` and `accept()` throw and change nothing, which is no step.  A server's
`io_fd_` is uninitialized before its first connection, so `close_connection()`
may then close any number (`Meant`).  What a socket is connected to, and
`connect()`, which changes no descriptor, are left out.

`early`, `strayed` and `left` are history variables: `close_connection()` has
been called, an object has closed what it was not given, `listen()` has failed
at a path.

### PatternMatch

One step per iteration of the loop; positions count from 1 and the position
after the last character holds the `'\0'`.  The two loops after the main loop
are one step.  `Matches` is a reference that does not search: the text can be
cut into pieces, one for each character of the pattern.

### Quota

The object keeps a maximum and a `double`; its value is computed when asked for.
A double is a multiple of one of the powers of two in `Weight`, less than
2 * `Exactly` times as much (`Exactly` is 2^52), and every operation rounds to the
nearest, ties to even (`Fl`), so products, quotients and the three rounding methods
behave as in the code, for amounts that are small compared to 2^53 and for such that
are not.  Numbers are written as multiples of 1 / `Unit`, the finest weight of all
(2^-1074), so subnormal numbers are as they are; no exponent is too large.
A text is a decimal mantissa, in units of its last digit, a prefix and
10^precision; `Parts` has the last for each precision that `get_str()` is called
with (100 by default).  `meant` is a history variable: the share that the program
asked for, as a fraction that is not rounded.  `Reallot` is `Quota(q.get_max(),
q)`, `Nest` is a quota of a quota, and `PrintText` and `ReadText` go through
`get_str()` and `parse_bytes()`.

## 3. Runs

A run that passes is checked together with mutants of the code: for each of its
properties a plausible slip (a dropped guard, a forgotten reset, `notify_one`
for `notify_all`, ...) that TLC must find.  The mutants stand next to the
definitions they replace, with the name of the definition as prefix.

| Run | Configuration | Shows |
|---|---|---|
| `crawl` | `MC_MTDirCrawler_crawl.cfg` | with one to three workers, repeated crawls of two trees, spurious wake-ups: at most one call per entry, completeness at the announcement, a clean object after `wait()`; under fairness every crawl returns; refinement of `Traversal` |
| `crawl_any_use` | `MC_MTDirCrawler_anyuse.cfg` | with zero to three workers, threads that cannot be started, a callback, a query or an iterator that throws: the counter counts, `done_` has no race, and no sleeper is left alone unless starting the threads failed half-way (which `crawl_spawn_fails` shows) |
| `crawl_spawn_fails` | `..._spawnfails.cfg` | **violation** of `Returns` |
| `config_calls` | `MC_ConfigParser_calls.cfg` | all files of up to four lines, then any calls: maps as written, the pointer where the guard in scope put it, answers of `get_from()` as the file says and refusals while a guard is in scope, except after a guard's constructor threw; answers of `get()` from the guard's section, except while an exception's traces are left |
| `config_nothrow` | `..._nothrow.cfg` | **violation** of `NeverUndefined` |
| `nodes` | `MC_NodeOwnership_nodes.cfg` | two parsers and two nodes of their own, constructed, copied, moved and destroyed in any order, and nodes assigned to: each map has one owner, is deleted once and not lost, and pointers stay valid, unless one of the named lapses happened |
| `records` | `MC_Records_records.cfg` | every line of up to six characters: what the parser relies on, dumping and reading again gives the same record, where a comment changes what a line says |
| `socket` | `MC_SocketStream_socket.cfg` | conversations of three synchronous messages, strings and vectors, in every order of turns, and pairs of scripts that do not agree, each with and without a `shutdown()`: refinement of `Rendezvous`, no more sends return than receive calls have read something (of ends that can be reached and send no byte that looks like an ACK), every call of a conversation returns, and `shutdown()` wakes everybody |
| `descriptors` | `MC_SocketDescriptors_close.cfg` | two servers for one path and a client, constructed and destroyed in any order and interleaving: nothing is left open, nobody else's descriptor is closed unless `close_connection()` was called, a path leads to its server and comes back |
| `pattern_sound` | `MC_PatternMatch_sound.cfg` | all texts and patterns of up to four characters: positions in range, only matches are accepted, patterns whose wildcards come last (or, in a text without `*`, that end in one) accept all theirs, the search ends |
| `pattern_complete` | `..._complete.cfg` | **violation** of `AcceptsMatches` |
| `quota` | `MC_Quota_quota.cfg` | all maxima and allotments up to 40, some percentages and fractions, three rounding methods, with doubles of six bits: the value is the share asked for, rounded, or a byte next to that, and never above the maximum; a printed value that is read back prints the same, unless its last digit counts too little or a byte shows that rounding `DOWN` or `UP` loses or gains |

`crawl`, `descriptors` and `quota` check deadlock: there the owner can always go
on, there is always something to open or to close, and a value can always be
asked for.  The others do not, because the system may stop: the process was
terminated, undefined behaviour has happened, all objects are gone, all calls
have been made, or the line has been read again.

### Bounds, and why they are enough

* Crawler: three workers allow one that lists, one that sleeps and one on its
  way in, which all the interesting races need.  The tree has an inner directory
  of two entries, a file, a directory the callback refuses, and a second base
  path that is an empty directory; crawls repeat without limit.  `MaxLeftOver`
  bounds the base paths left in the queue by crawls without a worker (one
  suffices for a later crawl to meet it); it binds in `crawl_any_use` only.
* Parser: two names, used as keys and as sections, let names clash in all ways;
  three texts distinguish the conversions.  `MaxLines = 4` has room for two
  sections with an entry each, a repeated key, and a repeated heading followed
  by an entry.  Calls are not bounded.  The names are interchangeable and the
  properties are invariants and action properties, so symmetry is sound.
* Nodes: two parsers give one copy or move between them, two variables a node
  that was copied or moved twice, two maps one that is assigned over another.
  One name suffices as ownership does not depend on it: two names with one
  variable (a million states) and three parsers pass as well.  Each parser is
  constructed, and each map allocated, once.
* Records: six characters have room for a bracketed name with a comment, for a
  key, an `=` and a comment with an `=`, and for blanks between.  A dumped line
  is longer, and not bounded.
* Sockets: one `recv()` returns two bytes, and messages are shorter than, equal
  to and longer than that; five kinds of message, a string with an ACK's byte and
  vectors with and without an empty record among them.  Three turns, begun by the
  client (the ends are alike), have every order of who sends.  `Segment = 4` takes
  the messages of conversations in one piece, which is the case the code is right in; the
  scripts that do not agree have up to two calls each before they close, a string
  that begins with an ACK's byte, and a vector of five bytes that needs two pieces.
  `Capacity = 2` makes `send()` and `send_ack()` block.
* Descriptors: with three numbers two servers and the client compete, every call
  meets the case that none is free, and a number freed by one object is given to
  another within a few steps.  `MaxConns = 2` connections per server distinguish
  the first from the rest of `connections_`.  Objects are constructed again and
  again without limit.
* Patterns: four characters have room for two wildcards with text between and
  after them; the texts hold `*` too.
* Quota: amounts up to 40 lie on both sides of `Exactly` = 32, up to which the
  code's arithmetic is exact enough; prefixes for multiples of 4 give three of the
  prefixes within these amounts.  `Parts = {1, 3}`: a last digit of whole prefixes,
  coarse for every prefix as two decimals are for multiples of 1024, and one that
  is too fine for the first prefix, as three decimals are for KiB.  Values above
  `Limit` are not allotted anew, and texts of such values are not read.  `Unit` = 4096 is fine
  enough for every fraction that occurs.  `Given` has a maximum (29) that a
  fraction computed for another one does not fit well: with small ones alone,
  TLC did not see that a value rounded down may be two bytes from what was asked.

### Fairness

* `MTDirCrawler!FairSpec`: weak fairness of each worker's own steps and of the
  owner once it has started a crawl: the scheduler runs every runnable thread,
  and a mutex that is free infinitely often in a model where each critical
  section is one step is eventually acquired.  There is none for
  `SpuriousWake`, nor for the start of another crawl.
* `Traversal!FairSpec` is for reading; `Refines` is about its safety part, and
  `Returns` is checked of the detailed specification directly.
* `SocketStream!FairSpec`: weak fairness of each end's thread.  There is none for
  `Shutdown`: nobody has to call it.  `Finishes` has two parts: conversations
  end, and after a `shutdown()` every thread comes to its end.
* `PatternMatch!FairSpec`: the only thread goes on.

## 4. Where the code and its documentation disagree

Shown by a run:

* `crawl_async()` sets `threads_running_` for all threads before it starts them
  (`MTDirCrawler.hpp:92`).  If one cannot be started (`:94` throws) the others
  wait for it in vain, and so does `wait()`.
* `set_subsection()` assigns before it throws (`ConfigParser.hpp:481`): after
  `get_from()` threw for a name that is an entry, the "guaranteed no-throw"
  getters follow a null pointer.
* `pattern_match("xx", "*x")` is false: when the pattern is exhausted before the
  text, the loop does not go back to try a later place for the wildcard
  (`low_overhead_string.hpp:38`).

Met while modelling; the models behave like this and the properties above state
the exception:

* `crawl()` with `threads = 0` leaves its base path queued, and the next crawl
  visits it; the theorems about completeness assume at least one thread.
* `parse_heading()` points `config_map_ptr_` at the new map before it tries to
  insert it (`config_parser.cpp:74`).  A repeated heading, or one named like an
  earlier entry, leaves the pointer to a deleted map; the next entry is inserted
  there (`DefinedUnlessEscaped` and `PointersValid` except such files).
* A `get_from()` that throws leaves the parser in the section, until the next one
  returns.  `GetAnswers`, and what `Settled` says of the pointer, are therefore
  about states without an escaped exception.
* `guarded_` is documented as "true if a ConfigSubsectionGuard is in scope"
  (`ConfigParser.hpp:433`).  A guard whose constructor throws (`ConfigSubsectionGuard.hpp:61`)
  is not in scope and never destroyed, and leaves it set for good: every later
  `get_from()` is refused, and every guard.  `Settled` and `FromAnswers` except
  this state by name.
* `get<std::string>("Section")` outside of a guard gives the heading's name, as a
  section's node has it for a value; a numeric heading converts as well.
* A node that is moved from a copy becomes an owner (`ConfigNode.hpp:70`,
  although :55 has the flag "to prevent double deletion"): with the original it
  deletes one map twice.  Move assignment forgets the map of its target.  A copy
  of a parser, and a node got from it, reads maps that the original deletes.
* `# a = b` is an entry with the key `# a`, and `[a # ]` a heading whose `]` is in
  the comment and whose name loses its last character, as the kind of a line is
  decided before its comment is removed (`parser_functions.cpp:54`).
  `CommentHides` states this exception.
* `dump_str()` writes a map in no order: an entry of the global map may come
  after a section, and is read as the section's.
* Rounded `DOWN`, a quota whose own value is allotted anew may lose a byte every
  time: 63 bytes of 107 give 62, then 61 and so on; rounded `UP` it gains some.
  `NearMeant` promises exactness for `NEAREST` only.  The value may also be a byte
  from the rounded share, and with `DOWN` and `UP` more than a byte from the
  share itself, when the maximum was changed after an allotment: with six bits,
  21 of 38 and then a maximum of 29, that is 16.03 bytes, give 15 rounded down.
  Above 2^53 a share may exceed the maximum.
* A maximum of no bytes makes the fraction infinite or NaN (`Quota.hpp:61`), and
  the conversion of the value to an integer is undefined.
* `Bytes(std::move(quota))` takes the maximum, where copying takes the value
  (`Bytes.hpp:64`); `set()`, `+=` and `-=` on a quota change the maximum.
* What is printed, read back and printed again may be another text each time, in
  three cases that `TextStable` excepts.  1048575 bytes are "1024.00 KiB", and
  "1.00 MiB" once that was read back (`bytes.cpp:46`).  With three decimals, as in
  `../tests/classes/bytes.cpp:9`, "1.022 KiB" is read as 1046 bytes and printed
  "1.021 KiB" (`Coarse`: its last digit counts about a byte).  And a quota that is
  rounded `DOWN` or `UP` may have a byte less or more when its own text is allotted,
  which shows where every byte does (`HidesByte`): 63 bytes of 107 are "62 B", and
  "62 B" of 107 bytes are "61 B".
* A negative value of a quota whose maximum is positive passes the test
  of `get_str()` for a sign and is printed as an enormous one.
* "50" without a `%` is a fraction of 50, not of a half.
* `receive_data()` takes a momentarily empty stream for the end of the message
  (`SocketBase.hpp:202`); a message that arrives in pieces is cut.  `Refines` is
  therefore about messages that enter the stream at once.
* `send_data(vec, flags, fd)` passes its last two arguments in the wrong order
  (`SocketBase.hpp:177`); with the defaults both are 0.  An empty vector
  dereferences `end()` (:150), and an empty last record is not received, as
  `getline()` finds nothing after the last delimiter.
* `shutdown()` of a server acts on the socket it listens at, not on a connection
  (`SocketBase.hpp:270`).
* A message that begins with the byte 0x06 is taken for an ACK if the other end
  waits for one (`SocketBase.hpp:285`), which happens when both send at a time.
  `AckedWhileOpen` excepts ends that send such a message; where the ends take
  turns it does no harm (`Refines` has them).
* A message with a zero byte is cut there by `payload += buff`; an empty message
  is no byte at all, and both ends wait.  `MC_Message` has neither.
* `receive_data()` at the end of the stream sends its ACK to a closed socket
  (SIGPIPE), and `send_data()` to an end that closes may compare an
  uninitialized byte and return.  `AckedWhileOpen` excepts it.
* Two ends that both send asynchronously block each other when the stream is
  full (`SocketBase.hpp:110`); `socket` has such scripts, and no promise of the
  code excludes them.
* `close_connection()` leaves the number in `connections_`
  (`UnixSocketServer.hpp:58`), and a client's leaves it in `fd_`
  (`SocketBase.hpp:83`): the destructor closes it a second time, and by then it
  may be another file's.  `ClosesItsOwn` therefore speaks of the time before the
  first `close_connection()`; `NothingLeaks` holds in any case.
* A server whose `listen()` throws leaves its inode, and nothing can be bound to
  that path until somebody removes it; `PathComesBack` excepts these paths.
* Reports of a malformed entry quote `config_map_.at(key)` also when the entry
  was read from a section (`ConfigParser.hpp:127`).

## 5. Proofs

All theorems are about the specifications as they stand, for arbitrary
constants that satisfy the named assumptions of the modules.

**Crawler.**  `ThreadAssumption`: finitely many workers.  `EntryAssumption`: an
entry has one parent and base paths have none.

`ThreadInv` is inductive for any use of the class, thread creation that fails
and exceptions included.  `RunningCount` alone is not inductive: `Finish` wakes
all sleepers and leaves nobody active, which needs that the counter reached zero
and hence (by `RunningCount`) that only the finishing worker was active.
Therefore `ThreadInv` adds that after the announcement nobody sleeps and the
queue is empty, and that before it a sleeping or woken worker implies a positive
counter.  From it follow `TypeCorrect`, `CounterCorrect`, `DoneIsRaceFree` and
`NobodyStalls`, the last by cases of `main`: while `crawl_async()` starts workers
one is still to come, and after it a positive counter is an active worker, unless
the class is `Understaffed`.  The proof counts active workers with the library's cardinality
theorems; each step moves at most two workers (`CountOne`, `CountTwo`).

`WorkInv` needs `ProperUse` (at least one thread per crawl, and the system
starts them), and `ListInv`: who lists a directory has called the callback on it.
Its core, `Accounted`: the entries known so far are those called
and those pending, the two are disjoint, and a pending entry is in one place
only: queued, in a worker's hand, or still to be listed.  Disjointness rests on
`EntryAssumption`: what a directory lists was unknown before its callback.
`AtMostOneCall`, `CleanAfterWait` and `CompleteCrawl` follow, and `Refinement`:
every step of a thread is a `Begin`, `Visit` or `End` of `Traversal` or changes
nothing it sees.

**Parser.**  `ValueAssumption`: names and texts are none of the markers.
`PointerInv` strengthens `Settled` by where a null and a deleted map come from, and
by what is left after each kind of escape;
`FileInv` relates the maps to the lines read, so that `DefinedCorrect` holds: a
deleted map needs a repeated name in the file.  `ParsedAsWritten` speaks only of
a file that has been read to its end, so `MapInv` says the same of the lines read
so far, and of the heading that the next entry goes under.  Appending an entry
leaves what the earlier lines say alone (the first entry for a key counts),
appending a heading begins a section that says nothing yet.  The place of a
section in `sub_confs_` is the number of headings up to it (`Place`).
`ParsedCorrect` follows, and with `PointerInv` that each call reads the right one
of these maps: `FromAnswersCorrect` and `GetAnswersCorrect`, which are about
steps.

**Records.**  `CharAssumption`: the five characters that mean something differ,
and letters are others.  `ReadInv`: what was read is
`Dumpable` (stripped, without the character that would end it too early), and
what was dumped is what the dumped line says.  The parser functions find the
first or the last character of a kind, so their lemmas say of the least and the
greatest position that it exists and that nothing of the kind is on its other
side; stripping and cutting are then subsequences, about whose characters
`SequenceTheorems` speaks.  `RoundTripCorrect` follows the dumped text through
the same functions; `CommentHidden` compares a line with the same line cut at its
comment, for each kind of line.

**Patterns.**  `PassedMatches` is the argument for `Sound`: what the two
iterators have passed matches, and so does what they had passed at the last
wildcard, the wildcard included.  Going back lets the wildcard take one character
more (`GrowStar`); the other steps extend the cut (`TakeOne`, `PassStars`).

`Complete` says which patterns lose no match, and has the converse argument: a
cut of the whole text that matches is never left behind.  If all stars come last
there is only one way to match the rest, and the loop is on it (`FollowsCuts`).
If there are others, but the last character is a star, the loop finds the
leftmost place for each piece between two stars, so that any cut puts the piece
there or later (`NoneBehind`), and the star at the end takes the rest.  A star in
the text breaks this, as the loop compares characters before it looks for stars;
`OpenEnded` therefore excludes it.

`Returns` is a liveness property and out of reach, but not what makes it true:
`EveryStepAdvances` shows that each iteration passes a further star, or
starts the last one's piece further right, or compares a further character of it.
These are bounded by the lengths of text and pattern, so the loop ends; that it
is run to its end is the fairness.  `StarsEnd` is the other half, that the
answer exists: the loop over trailing stars ends inside the pattern.

**Descriptors.**  `DescriptorAssumption`: servers and clients are different
things.  `StageInv` adds to the types that an object has a descriptor while it is
between constructor and destructor, and a list of connections only while it is
`live` or `closing`; the last is why `~SocketBase` alone may follow a failed
constructor.  `LeakInv`, relative to it, is `NothingLeaks` written without sets.
`OwnInv` is the strengthening of `ClosesItsOwn`: before the first
`close_connection()` what an object lists was given to it, and is listed once;
taking the head off the list then keeps the rest its own (`CloseNext`).
`PathInv` adds that a path leads only to servers constructed for it, without
which `PathComesBack` is not inductive.

**Nodes.**  `PlaceAssumption`: parsers, maps and the null pointer are different
things, and a variable is not a place in a map.  Each of `DeletedOnce`,
`NothingLeaks` and `PointersValid` is inductive relative to the types: each
speaks of `lapse`, so the steps that would break it are the ones that add to it.
The work is in `DestroyNodes`, which takes a set of nodes at once, and in
`MoveParser`, which renames places.

**Sockets.**  `StreamAssumption`: two ends, and that the delimiter, the zero byte
and the ACK are bytes like others, which messages may have.  `StreamInv`
strengthens `TypeOK`: a thread in a call has that call at the head of its script,
and a message under way is not acknowledged yet.  `AckedWhileOpen` is not
inductive, as it says nothing of ACKs in the stream; `AckInv` counts them: those
taken, those in the stream and the one an end is about to send are together no
more than the messages received.  `PlainInv` says that an end in `plan.plain` puts
no ACK's byte into the stream but with `send_ack()`, whatever pieces its messages
travel in.  The counting lemmas say what appending bytes of
a message (`AcksOfMore`), appending an ACK (`AcksOfAck`) and taking bytes off the
front (`AcksOfRest`) do.  The vector encoding is a fold, about which nothing can
be proved for all lengths; that it yields bytes of messages is part of what
`Call` asks of the scripts.

`Refinement` is about two ends that agree.  What that means for scripts is
`AgreedAssumption`: they have the same number of calls, one sends where the other
receives the same message (`Matches`), each message fits into one piece
(`Carried`) and is, once received and split, what was sent.  TLC evaluates it for
the scripts of `socket`.  `TurnInv` is the invariant: the rest of the scripts
still match, and the state is one of the moments of a turn, which lists for both
ends at once where they stand and what is in the two streams.  There is either
nothing in the streams, or the message (or the part of it that is not read yet)
in one, or its ACK in the other; so a read takes message bytes and nothing else,
an empty stream while reading means the end of the message, and nobody closes
before both scripts are done.  `ConversationCorrect` draws `WholeMessages` through
the refinement, and `NothingMissing` says what is true at the end of a
conversation.

**Rendezvous.**  The invariant of `Rendezvous` is the conjunction of its
properties with the types (`ExchangeInv`, about an `Exchange` with constants and
variables of its own); from it, `WholeMessages`: what `SocketStream` inherits
wherever it implements `Rendezvous`.

**Quota.**  `DoubleAssumption` says of doubles what the arguments need and no
more: weights divide the heavier ones, and one half is no subnormal number.
`QuotaAssumption` relates doubles and prefixes: no prefix counts more than half of
2^52 and not more than that, as 2^50 and 2^60 do not.  The precisions are any.
Nothing depends on the width of a double.

`QuotaInv` is inductive: the fraction is the rounded quotient of the share that
was asked for last (`FractionCorrect`).  The rest is what rounding keeps.  A
rounded number is `Representable`, a multiple of what its own last bit weighs
(`RoundedRepresentable`), and rounding does not pass such a number (`NotAbove`,
`NotBelow`), keeps the order (`Monotone`) and misses by half of the last bit at
most (`RoundedNear`).  So a share of at most all is a fraction of at most one, and
its product with an amount up to 2^53 is not above it: `WithinMaxCorrect`.  For
`NearMeantCorrect` the two errors are added up: the last bit of a fraction below
one weighs at most 1 / 2^53, so the quotient is off by half of that and the product
by half a byte (`TimesNear`), and half a byte more for rounding the product; two
numbers that are a byte apart are so when both are rounded down, up or to the
nearest (`OneMoreDown`, `OneMoreUp`).  For a share of whole bytes and amounts up to
2^52 both errors are a quarter of a byte, and less together than half of one
(`TimesWhole`).

`TextStableCorrect` needs `TextInv`: the text is one that was printed, of the
value as it is or of one that the value was allotted from.  Reading may give more
bytes than the maximum, where the fraction is above one and coarser: up to 2^51
bytes the value, rounded to the nearest, is met exactly all the same, and up to
2^52, or rounded down or up, it is a byte off at most (`ReadBack`, `GetBack`).
There a text has too few digits to tell (`StrKept`), unless a prefix begins at that
amount: of the large amounts none does, by the assumption on the prefixes, and for
the small ones `HidesByte` excludes it.

**Least and greatest elements.**  An argument by induction on a number is put as
one about a least counterexample: the order of the naturals is well founded
(`NatLessThanWellFounded`, `WFMin`), and no operator has to be given as a
parameter.  The lemmas about first and last positions rest on it.

**Only model-checked.**  Liveness (`Returns` of crawler and patterns,
`Finishes`): TLAPS has no rule for fairness.  Every invariant and every action
property of a run that passes is also a theorem, and `Refines` of both abstract
specifications.  What a vector's encoding, a fold, yields for every length is left
to the runs: an induction over data is out of the provers' reach.

## 6. Not modelled

* Copies of socket objects, which nothing forbids and nothing in the repository
  makes; flags of `send()` and `recv()` other than the default ones; signals that
  interrupt a call.
* Assigning a parser to another, which the compiler allows and nothing in the
  repository does; only nodes are assigned to in `NodeOwnership`.
* `Bytes`: the logarithms in doubles with which `get_str()` finds the prefix
  (`bytes.cpp:46`), which take the next one a few bytes too early from about 2^50
  (a few bytes less are "1.00 PiB"), and the rounding of a mantissa by `stod()`
  (`bytes.cpp:72-119`), which may cost another byte from about 2^49; from these
  amounts the theorems about texts are about exact logarithms and mantissas.
* `Bytes`: negative amounts and fractions, overflow of 64 bits, and texts in
  multiples of 1000.  The last differ in what reading truncates ("2.01 KB" is
  2009 bytes, as 2.01 is no binary fraction); in multiples of 1024 the mantissas
  that give whole bytes are exact.  Malformed texts throw and change nothing.
  Exponents of doubles are not bounded in the model; amounts of bytes do not get
  near the bounds.
* The order of `dump_str()`, and `getline()` of `parse()`.
* Exception classes, packaging, tests and documentation: no behaviour.
* Destroying a crawler that still runs, a second `crawl_async()` before
  `wait()`: the documentation excludes both.

## 7. Plan

Done: all parts with behaviour are modelled; two abstract specifications are
implemented by the detailed ones, both proved; the theorems of section 5, which
leave only liveness to TLC.  Next, in this order:

1. Multiples of 1000 in `Quota`'s texts, with the truncation of a decimal
   mantissa.
2. For liveness, the safety half as in `EveryStepAdvances`: a measure that each
   step of a crawl, or of a conversation, decreases.
