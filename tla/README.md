# gr-rtp: models, checks and proofs

gr-rtp is a GNU Radio source block that receives one RTP stream from a multicast
group and turns its 16-bit samples into output items. The repository holds its
run-time code (`lib/source_impl.{h,cc}`, `lib/multicast.{h,c}`) and the programs
that make its documentation (`docs/doxygen`). This directory specifies both in
TLA+, checks them with TLC on small instances and proves their main safety
properties with TLAPS.

## The system

### At run time

| Part | State | Operations | Talks to |
|---|---|---|---|
| `source_impl<T>::work` (source_impl.cc:73) | `pcmstream` (SSRC, sender, expected timestamp, statistics) | one call: receive until a packet is output or the receive times out | the scheduler calls it on the block's thread; the socket; the objects below |
| `set_ssrc` (source_impl.h:57) | `ssrc`, `pcmstream.ssrc` | two plain stores | called from a GUI or script thread (GRC callback, Python binding), no lock shared with `work` |
| output functions (source_impl.cc:181-445) | none | predict, zero-fill, convert and clip one packet, for `gr_complex`, `float`, `int16_t` | called by `work` |
| constructor, destructor | `mcast_fd` | check the ports, set up the socket, set its timeout | `setup_mcast` |
| multicast setup (multicast.c:69-251, 618-758) | descriptors, group memberships | resolve with endless retry, open, set options, join, bind or connect | the kernel, DNS |
| header codec (multicast.c:255-294) | none | `ntoh_rtp`, `hton_rtp` | `work` |
| `rtp_process` (multicast.c:305) | `struct rtp_state` | number and time of a session by sequence number | a library function; the block has its own logic |
| address cache (multicast.c:368-433) | a global doubly linked list | `formatsock` | `getnameinfo` |
| address helpers, payload-type tables, byte access | none | pure functions | all of the above |

What is hard here: the unlocked `set_ssrc` against `work`; a network that loses,
repeats and reorders; a sender that restarts; 32-bit timestamps and 16-bit numbers
that wrap; four units of length (bytes, samples, frames, items); output buffers
of any size; stopping a thread that waits in `recvfrom`; system calls that fail one
by one while a descriptor is open.

### When the documentation is built

| Part | State | Operations | Talks to |
|---|---|---|---|
| `doxypy.py` | a state machine with two buffers of lines | filter one Python file, moving docstrings before their definitions | Doxygen runs it before it reads a file |
| `generated/compoundsuper.py`, `indexsuper.py` | objects for Doxygen's XML | `build`, `export`, `exportLiteral`; `parse`, `parseString`, `parseLiteral` | the DOM |
| `generated/compound.py`, `index.py`, `text.py` | subclasses; paragraphs' text | `parse`, `find`, `description` | base and index |
| `doxyxml/base.py`, `doxyindex.py` | members by category, read when first asked for | look a member up by name and kind | `update_pydoc` |
| `update_pydoc.py` | a dictionary of docstrings, header templates | `scrape`, `sub`, `copy` | JSON, the bindings' headers |

What is hard here: text held back until a later line tells what it belonged to;
the end of a file at any point; documents with any mix of markup; one missing or
malformed file among many; two names, overloads or headers that fall on one key.

`PROJECT.json` lists the hazards line by line with the properties that watch them.

## Modules

| Module | Models | Notes |
|---|---|---|
| `FixedWidth` | `int` and `uint32_t` arithmetic, 2^31 scaled to `Half` | one fold wraps every sum the code forms |
| `SourceOutput` | `get_output_items`, `output_zeroes`, `output_samples`: how many items, and of which samples | pure; a configuration is (T, channels, ports) |
| `RtpSource` | the block: `work`, `set_ssrc`, the scheduler's calls | the core module |
| `SourceProperties` | what the block promises | type invariant, safety, action and liveness properties |
| `MCRtpSource` | instances for TLC | datagrams, modes, requests |
| `RtpSourceProofs` | lemmas and theorems about the block and its counts | TLAPS |
| `RtpProcess` | `rtp_process` | one action, by its two outcomes |
| `RtpSession` | a sender and a network composed with `RtpProcess` | the properties of the bookkeeping |
| `RtpSessionProofs` | its theorems | TLAPS |
| `McastSetup`, `MCMcastSetup` | `setup_mcast` and all it calls, its callers' part of a descriptor's life | `socket`, the joins, `bind` and `connect` may fail, `getaddrinfo` until the name is known |
| `McastSetupProofs` | its theorems | TLAPS |
| `InverseCache` | the linked list behind `formatsock` | pointers in a heap |
| `RecencyList` | what that list promises | `InverseCache` implements it |
| `InverseCacheProofs` | its soundness and the refinement | TLAPS |
| `Doxypy` | the filter over any lines | transition table, callbacks and buffers of the code |
| `PythonSource` | the files Python allows, composed with `Doxypy` | remembers what each line truly is |
| `DoxypyProofs` | theorems about both | TLAPS |
| `XmlRows`, `CompoundSchema`, `IndexSchema` | what is particular to each generated class: a row | the tables are the generated files, class by class |
| `Selection` | a Python comprehension with a condition (`Kept`) and a join (`Concat`) | recursive functions, shared by the documentation modules |
| `XmlBinding` | the code that is the same in every class, once | a document is a function from the ways to its elements |
| `DoxygenXml`, `MCDoxygenXml` | a document parsed, printed, parsed again | composes the two schemas |
| `DoxyIndex` | `doxyxml`'s index and look-ups | part of `UpdatePydoc` |
| `DoxygenXmlProofs` | its theorems | TLAPS |
| `UpdatePydoc`, `MCUpdatePydoc` | `scrape`, `sub`, `copy`, end to end | extends `DoxyIndex` |
| `UpdatePydocProofs` | its theorems | TLAPS |
| `Iteration` | induction over naturals and trees, and recursive functions on them, stated with sets; what `Kept` and `Concat` return | lemmas the proofs share |

Definitions whose name ends in `_Something` and whose comment says *faulty* are
deliberately broken variants of the definition that follows them: replacing the
one by the other must make the named property fail. They are used by no
specification.

### How `RtpSource` corresponds to the code

The worker's program counter `wpc` has one value per point where `work` touches
something the control thread also touches, or waits:

| `wpc` | Code | Action leaving it |
|---|---|---|
| `idle` | between two calls of `work` | `CallWork`, `Interrupted` |
| `loop` | 88-89, the interruption point | `Interrupted`, `EnterRecv` |
| `recv` | 90-111, `recvfrom` and the checks of the datagram | `RecvDatagram`, `RecvTimeout` |
| `filter`, `filter2` | 113, the two reads of `ssrc` | `FilterAny`, `FilterMatch` |
| `session` | 117, first read of `pcmstream.ssrc` | `CheckSession` |
| `init` | 119, `init()` | `InitSession` |
| `match` | 127, second read of `pcmstream.ssrc` | `MatchSession` |
| `sender` | 131-140, restart if the address or port changed | `CheckSender` |
| `process` | 141-177, marker, gap, output, advance | `DropOld`, `Output` |
| `done` | the thread has ended: by `thread_interrupted`, or because `work` returned -1, which the scheduler takes for `WORK_DONE` | `Restart` |

The two stores of `set_ssrc` are two actions, `SetSsrc; SetSsrcClear` in program
order and `ClearEarly; SetSsrcLate` in the other: the fields are neither atomic nor
locked, so the compiler or the processor may make them visible either way (the
constant `Reordering`; `source_race` needs only the program order). If the
compiler keeps a value it has read in a register, the outcome is one of those in
which the other thread's store comes later, and is covered.

Every datagram carries the fields `work` looks at; the header's length, the padding
taken from the datagram's last byte and the payload that remains are computed as the
code does. Packet statistics, the expected sequence number, the payload type and the
printed sender name are written and never read, and are left out. Senders are IPv4:
`mcast_setup` shows that no block listens over IPv6. The only -1 `work` can return is
the negative count of an overflow (see `source_long_gap`).

History variables record what the properties speak of and no action reads: `owner`
(whose timestamp is expected), `due` and `slipped` (the time told by counting items),
`stale` (unwanted packets output since `set_ssrc` returned), `raced` (whether that
`set_ssrc` overtook a packet).

### How `McastSetup` corresponds to the code

A call is at `resolve` (`resolve_mcast`'s loop, multicast.c:178-251), `socket`
(97 and 147), `join` (the options and `join_group`), `attach` (`connect` or `bind`)
or `return`; the action leaving each is the call's success or its failure there, with
the descriptor closed as the code does (`AttachFails`). `SocketFails` may be taken at
any time, which covers every reason the kernel can have. `setsockopt` of the receive
timeout (source_impl.cc:66) is not checked by the code and taken to succeed in `Built`.
`Destroy` is `~source_impl`, which leaves the descriptor open. A target is its pieces
between colons and an interface, so that the split at the last colon, the default port
and the zone `.local` are decided as in the code; only a target without either is empty,
and one that is an interface alone is resolved. What the resolver knows grows by
`Announce`.

### How the documentation modules correspond to the code

`Doxypy!transitions` is the list the constructor of `doxypy.FSM` is given, rule by
rule; `Matches` says which of its regular expressions meet a line of each kind;
each callback is an operator of its name. `PythonSource` chooses only lines Python
allows where they stand and marks a file `plain` while the filter can tell each line
rightly. Its grammar is narrower than Python in three ways: a body holds no bare string
statement, no line of a statement ends with quotes, and no comment inside a header of
several lines ends with `:`.

Every class of the generated files is a row: its attributes, its children and
how each is read and written. `XmlBinding` interprets the rows as the code common to
the classes does, errors included. A document is a function from the names of its
elements to what stands in them, and a name is the way to the element from the root: on
each step a tag and a place. The recursion of `build`, `export` and `description` over
child objects is then a condition on all steps of a way (`ClassOf`, `Within`) or a
function on the elements (`description_bit`), which TLC can evaluate and TLAPS reason
about. An object has the name of the element it was read from. What stands in an element
is a sequence of nodes: tokens of text, inside a CDATA section or not, and children.
Tokens are told apart by whether they must be escaped, encoded, or read as a number.
A title read as an object is printed by its `repr` (compoundsuper.py:492-494), which
holds the address of the object: `address` says where it lies, and is chosen anew at each
`Parse`. White space is left out on both sides: what a printing adds around values and
mixed content (compoundsuper.py:4727-4729, 6418-6424) is read back as text and grows, so
"the same" here means the same but for white space.

`UpdatePydoc` takes one compound, docstring or template at a time. A name is a sequence of
pieces, cut so finely that one name begins with another piece by piece whenever it does
so letter by letter; `::` becoming `_`, `make_name` and the filter's `startswith`
are computed on it. A text is where it came from, how it starts and whether it holds a
closing bracket. `sub` formats the key into a regular expression as it is
(update_pydoc.py:306), so `Found` is what that expression finds: for a key with a `|` in it,
whatever begins with the part before the bar, the first ` = R"doc(` of the file after it, or
anything at all between two bars; `SubRaises` and `MayRaise` are the keys `re` refuses.

## Runs

| Run | Question | Result |
|---|---|---|
| `source_retune` | What can a `set_ssrc` leave behind, in any interleaving? Does a stopped block stop? Is a request taken up? | at most one stale packet; a stray session only after a race, and then for good; gaps always against the packet's own stream; it stops, in silence or flood; a request that overtook no packet and whose sender is heard is taken up |
| `source_timeline` | Does the output keep the stream's time through loss, repetition, reordering, wrap and restarts, in every mode? | yes while packets fit their buffers, and each sample is then in its place and on its port; a time once passed is not output again until a marker, a new session or half the timestamp range; counts fit the buffer short of an overflow; odd interleaved counts have two causes only |
| `source_race` | README.md:3: the block reads the stream its SSRC identifies | **refuted**: `set_ssrc` can leave it deaf to every stream |
| `source_pairing` | source_impl.cc:259: interleaved counts are kept even | **refuted** for samples clipped to an odd buffer |
| `source_long_gap` | source_impl.cc:176: `work` returns how many items it produced | **refuted** for an interleaved gap of 2^30 frames or more |
| `rtp_session` | Are `rtp_process`'s drops, refusals and time jumps exact? | yes, for outages and delays below half the ranges |
| `rtp_restart` | multicast.c:299: three wild numbers in a row assume a restart | **refuted** |
| `mcast_setup` | Who holds a descriptor, where does a block listen, does a call end, whatever fails? | those built, destroyed ones included; where its target asks, over IPv4 only; yes, once its name is known |
| `inverse_cache` | Does the linked list stay sound and act as a list by recency? | yes |
| `doxypy` | What does the filter do to the lines of the files of `PythonSource`? | loses none but a tail at the end of the file, repeats none, moves headers only; in plain files each docstring comes before its definition |
| `doxygen_xml` | What of a document survives reading and printing? | text of paragraphs, titles and references alone; what is printed is XML, is the same again but for white space, and can be written as Python, exactly under the conditions the properties state |
| `update_pydoc` | When does scraping fail, and whose text does a slot hold? | exactly for the inputs `ScrapeRaisesOnlyFor` lists; its own, up to names spelt alike and keys with a `\|` |

### What was found

In the block and its library:

* *Deaf after `set_ssrc`.* A packet of the old stream passes the filter (113);
  `set_ssrc` stores the new SSRC and clears the session; the packet then starts a
  session with its old SSRC (119; or 133, after a change of sender). From then on
  113 refuses the old stream and 127 the new one. `DeafUntilReset`, proved, says
  nothing but another `set_ssrc` ends it, not even stopping and starting the
  flowgraph. `CleanRetune`, proved, says this race is the only way in.
* *I and Q swapped.* `output_zeroes` rounds a clipped interleaved run down to whole
  pairs, `output_samples` does not; with an odd buffer the count is odd.
* *Negative count.* The interleaved gap is doubled in an `int`. A jump of 2^30 frames
  or more, as when a sender restarts with another timestamp base, wraps to a negative
  count, passes the test against the buffer and is returned by `work`.
* *`rtp_process`* implements neither the restart after three wild numbers nor the
  limit of ten numbers ahead that its comment describes (multicast.c:299, 304).
* *Sockets.* A destroyed block keeps its descriptor and its group. No block listens
  over IPv6: `bind` is given the 16 bytes of a `struct sockaddr`, and the group is
  joined at the level of IPv4. An IPv6 literal is split at its last colon and its rest
  looked up in `.local`. A failed join is reported and the block built all the same.
* *Default port.* The comment of `resolve_mcast` says that a target without a port
  leaves the port zero (multicast.c:177); the code puts in the default port its caller
  gives it, 5004. `ListensWhereAsked`, proved, says so: every block built for such a
  target contradicts the comment.

In the documentation programs, stated by the properties as what the code does:

* `doxypy`: a module docstring at the very end of the file is lost. A module
  docstring directly before a definition is attached to it. Four things mislead the
  filter, and `plain` excludes them: a header that goes on behind a `:` in its first
  line, a header or a docstring closed with a note behind it, and lines inside a
  string that read like a definition.
* The printed XML is seldom XML (`PrintedIsXml`). Printing is stable only without
  children read as text, and a title must be read to the address it was at before, as
  what is printed of it is its `repr` (`PrintingIsStable`). A document cannot be written
  as Python if it has any mixed content, a kept text outside ASCII, or, without the
  subclasses, an unset text in a class that has children or lists of them
  (`LiteralEndsOnlyFor`).
* `update_pydoc`: a malformed file ends scraping if it is of a header or a namespace
  but only skips a class; so do a make function documented twice and a friend that no
  header documents. A docstring that starts with a digit is not put in, one that
  starts with two octal digits destroys its slot, and a closing bracket hides a slot
  from later keys spelt alike. The key is taken for a regular expression: that of
  `operator|` or `operator|=` finds slots of other names, and that of `operator||` the
  first place of the file, and fills them with a status of `PASS`; that of `operator[]` is
  refused, and that of `operator++` is by older Pythons. Functions Doxygen defines as
  `void f< int >` all have the key `>`.

### Bounds, and why they are enough

* `Half = 16`: timestamps wrap at 32. Timestamps 30, 31, 0, 2 and 10 give steps of
  zero, one and a few frames across the wrap, steps whose double overflows, and steps
  backwards. Only differences matter to the code.
* Payloads of one, two and three samples: whole and half stereo frames. Buffers of
  1, 3 and 6 items: overfilled odd, overfilled even and sufficient, for the gap alone
  and for gap and packet.
* Six modes from the GRC file and four others the constructor accepts, two of
  which no copying loop supports.
* Two SSRCs, three senders (one differing in the port only), requests for either or
  for any: the retuning logic compares SSRCs and senders for equality only, and a
  race involves one packet of one stream and one request for another.
* `rtp_session`: numbers wrap at 8, times at 32; a window of 3 packets for late and
  repeated ones; at most `Burst` = 3 lost in a row, so that no difference exceeds half
  the range (2^15 packets in the code); `MaxSent` = 8 packets sent per life of the
  sender, `MaxHandled` = 8 handled. Deadlock is not checked there because the sender
  ends at these bounds.
* `mcast_setup`: `MaxFds` = 2 descriptors and `MaxCalls` = 3 calls that reach a socket,
  so that the limit is met with and without a destroyed block behind it; eight targets,
  one of every form the parsing tells apart; a name that is announced as a group, an
  IPv6 group or a host. Deadlock is not checked: when all calls are made the system rests.
* `inverse_cache`: four addresses, so an entry can be first, second, inner and last.
* `doxypy`: files of up to `MaxLines` = 7 lines of sixteen kinds: a module docstring,
  a header of two lines and a docstring of three, or two definitions with docstrings
  in a row. Deadlock is not checked: a file ends.
* `doxygen_xml`: descriptions of up to two pieces of markup of six kinds in each of two
  paragraphs, and every combination of the parts that are read or written in a way of
  their own, two descriptions (the second replaces the first) and several labels (all
  are kept) among them; printed and read back once (`Generations` = 1), after which a
  further round adds only more of the same escapes. Two `Addresses` suffice to tell an
  object read to its old place from one read to another.
* `update_pydoc`: up to four compounds, of an old style block, a new style block, their
  headers and a namespace, each right or wrong in every way the code tells apart; a
  second family of names spelt alike with docstrings that start in every way; a third
  of functions named as a namespace or a class, and of two classes with one make
  function; a family of operators, before and after the functions whose slots their
  patterns find, and one of specialised functions with one key; two templates; with the
  filter and without. Deadlock is not checked: the programs end.

The theorems below need none of these bounds.

### Fairness

`LiveSpec` of `RtpSource` assumes that the block's thread is scheduled (weak fairness
of its own steps) and that `recvfrom` gives up after its timeout (weak fairness of
`RecvTimeout`, justified by `SO_RCVTIMEO`, source_impl.cc:66); nothing of the network.
`RequestAdopted` has the rest as its premise, `OnAir`: a begun `set_ssrc` returns,
the scheduler goes on calling `work`, and packets of every requested SSRC get through
(strong fairness of their reception, because `work` leaves and re-enters `recvfrom`
between packets). `StopTerminates` needs none of it. It does need the timeout: the code
does not check whether `setsockopt` has set it, and the model takes it to be set.

`LiveSpec` of `McastSetup` assumes that the constructor's thread runs and that
`resolve_mcast` comes back from its sleep (weak fairness of `Step`), and nothing of the
resolver: `CallEnds` speaks of calls whose name is known.

## Proofs

Every safety property of a passing run, invariant or action property, is proved for all
values of the constants.

`RtpSourceProofs` first bounds the counts: `ZeroesRange`, `SamplesEnd` (clipping keeps
them within the buffer) and `FittingPacket` (a packet that fits is output whole). It
then proves, for every set of datagrams, configurations, requests and buffer sizes:

| Theorem | Property | Rests on |
|---|---|---|
| `TypeCorrect` | `TypeOK` | `Holding`: from the filter on, the worker holds a well-formed packet with a non-zero SSRC |
| `AtMostOneStale`, `CleanRetune` | `StaleOutputBounded`, `StrayOnlyWhenRaced` | `Retuned`: without a race, what is in flight is what was requested; and while something else is in flight nothing stale has been output |
| `OwnExpectation` | `ExpectationIsOwn` | `Owned`: the expected timestamp is of the session's sender, and of its SSRC unless that was just cleared |
| `TimelineKept`, `InPlace`, `Fitting`, `Pairs` | `TimelineAligned`, `PacketInPlace`, `ItemsFit`, `OddOnlyWhenCut` | `Counted`, with the lemmas on the counts, `AdvancePastPacket` (the wrap-around arithmetic) and `ItemOfItsFrame` (the strides of the copying loops) |
| `PassedForGood` | `NeverReplayed` | `Owned`, and one step at a time: an item handed over only moves the timeline on (`OutputPasses`), by wrap-around arithmetic (`StaysBehind`) |
| `Deafness` | `DeafUntilReset` | one step at a time, from types alone |

None of the properties is inductive alone: a packet in flight carries the decision
made at the filter to the output, which is what the added conjuncts record.
Assumptions: `HalfAssumption` (2^31 is a positive number); `DatagramAssumption`
(fields have their types, a sender is an address and a port);
`ConfigAssumption` (what the constructor accepts, with at least one channel); `RequestAssumption`;
`SizeAssumption` (a buffer and a payload together stay below 2^31; a payload is
at most 9000 bytes).

`RtpSessionProofs` proves `CountsDrops` (`DropsAccountFor`), `MeasuresGaps`
(`GapIsTrue`) and `RefusesOnlyLate` (`RefusedIsLate`). The sender and the history count
without bound, `rtp_process` sees remainders; the invariant `Mirrors` says that its
state is the remainder of the history, and `Near` that what may still arrive is within
half the range, so that the difference of the remainders is the true one (`DiffMod`).
`NumbersAssumption` and `TimesAssumption` state that distance, which holds of the code's
2^15 packets and 2^31 frames with room to spare. The theorems assume `Rewinds = FALSE`:
a sender that restarts chooses a new SSRC; `rtp_restart` shows what happens otherwise.

`McastSetupProofs` proves `TypeCorrect`, `Accounts` (`DescriptorsAccounted`) and
`ListensRight` (`ListensWhereAsked`) for any targets, names, hosts and interfaces and any
limits. The invariants follow the call: `Unowned` says that only the call under way has
a socket without an owner, and `Progress` what is already true of that socket at each
point of the call. `TargetsAssumption`, `HostsAssumption` and `BoundsAssumption` give
the constants their types.

`DoxypyProofs` proves, for files of any length, `NothingLostOrRepeated` (`ReadOnce`) and
`OnlyHeadersMove` (`KeepsOrder`) over any lines, and both over Python files
(`FilesReadOnce`, `FilesKeepOrder`). A comment outlives its emission
and a header leaves the machine behind a comment read after it, so the property is not
inductive; the invariant adds what each state knows of the two buffers. The order needs
one more fact, that everything a callback adds lies behind all that was told before:
`Block` and `Header` say so of the two pieces it can add, and `Anchored` that the line
opening a block has a number told, too, so that it is covered.

It also proves `DocstringsPrecede` (`DocstringsPrecedeTheirHeaders`) and
`PlainKept` (`PlainFilesAreKept`) for files of any length. Both compare what was written
with what the file is; `ToldRightly` relates the two while they are written. It says for
every place in a plain file which state the machine is in and which lines the header and
the comment then hold, and rests on which rule a line of each kind takes in each state
(`FileheadChoice` and the lemmas after it) and on the invariant above.

`Iteration` is what the remaining proofs share. The library's induction takes an operator
as a parameter, which the provers cannot instantiate, but its theorem that a well-founded
set of numbers has a least element speaks of a set. From it follow `LeastNatural`,
induction over a set of naturals (`Induction`), and that a recursive function follows its
steps. The list of `InverseCache`, `Kept`, `Concat`, and the greatest and least places of a
sequence are within reach that way. Trees are too: when every node has a rank that is
greater further down and bounded, a function that computes each node from those below it
exists (`TreeRecursion`), and what holds of a node when it holds below it holds of all
(`TreeInduction`). What is gathered under one tag in a sequence joined from many is the
piece that was written under it (`ConcatGroup`).

`InverseCacheProofs` proves `LinksStaySound` (`LinksSound`) and `CacheIsRecencyList`
(`MostRecentFirst`, the refinement of `RecencyList`, step by step) for any set of
addresses. The chain is what a walk of the heap finds, and says nothing of what a
change of three entries does to the walk. The invariant `Listed` therefore names the
order itself: a permutation of the entries with `next` and `prev` of neighbours answering
each other. `ChainIsOrder` shows that the walk finds just that order, and each of the
three ways of `formatsock` (a hit at the head, a hit further down, a new entry) moves the
order as `RecencyList` moves its list. `NullAssumption` says that no entry is the null
pointer.

`UpdatePydocProofs` proves the four properties of `update_pydoc` for any XML, templates
and filter:

| Theorem | Property | Rests on |
|---|---|---|
| `SlotsHoldTheirOwn` | `SlotHoldsItsOwn` | `Filled`: after n keys a slot has the value of the winner of those, the last or the first that hid the slot; one more key changes the winner exactly when the slot is found, a key with a bar in it spoils at most one slot (`SubFilled`, `BarKey`, `PlainKey`), and the filter picks keys out without changing who wins (`WinnerMoves`) |
| `SlotsDescribeTheirOwn` | `SlotDescribesItsOwn` | `Sourced`, `Staged`, `AllTell`: every member of the index is of the XML, and every entry is about its own key or the key's block; `Drawn`: what stands in a slot came with a key spelt like it or with a bar in it (`RefillSays`, `SubDrawn`) |
| `FailsExactlyFor` | `ScrapeRaisesOnlyFor` | `Read`: which compound each member of the index is from, in the XML's order, so that look-ups in the index are counts in the XML. `Judged`: how far the blocks are described, and whose header was looked up |
| `FunctionsDescribed` | `FunctionsHaveTheirOwn` | `FunctionsTold`: the dictionary tells of the functions gone through so far, and every other entry has the key of a class or of a block's make function; the list of functions is in the XML's order (`FromXml`) |

`TemplatesAssumption` says that no two slots of a header are of one name and that no name
has a sign in it: a slot is a variable of the header. None ends with the word `operator`,
or with it short of its last letter or with that letter twice, which is all that the
patterns of `operator*`, `+` and `()` could find. `DirectoriesAssumption` is what Doxygen
writes: functions and friends are members of compounds and of nothing else, and a text is
about what it is found at: a method by its name, a function by the last word of its
definition, which is mostly its qualified name but `>` for a specialisation. Nothing is
assumed of which files are missing or malformed, of overloads, or of names that are alike.

`DoxygenXmlProofs` proves the four properties of `doxygen_xml` for any rows, any documents
of any depth, and any number of printings:

| Theorem | Property | Rests on |
|---|---|---|
| `FaithfulAlways` | the invariant `Faithful` | `Legible`: in every generation the elements hang together by their names and escapes are counted from nothing up. The documents Doxygen writes are so (`DocumentIsLegible`), and so is what is read back from XML that was printed (`ParsedIsLegible`): a character that had to be escaped was, so that reading it back takes no escape that is not there |
| `LiteralAlways` | `LiteralEndsOnlyFor` | the objects reached by recursion are those with every step of their way among the parts (`PrintedIsWithin`); a text is kept if its tag was read, and of a text read once the last (`TextsKept`); one that was not read is unset exactly without the subclass (`UnsetKid`); `LiteralTold` compares the two, class by class |
| `XmlAlways` | `PrintedIsXml` | what each kind of row writes: attributes, plain children, mixed content, a value (`XmlWritten`) |
| `DescriptionAlways` | `DescriptionText` | both sides are recursive functions on one tree; `BitsAreTold` shows them equal from the leaves up, as an element that is described says the same as its nodes tell (`SayingFields`) once it does below |
| `StableAlways` | `PrintingIsStable` | `Reprinted`, which remembers the document that was printed first, and a comparison of one element read back with the element it was, for each kind of row (`PlainAgain`, `MixedAgain`, `ValueAgain`); a title comes back as the address it was read to |

`Faithful` says that the objects and what was printed are those of the document at hand.
It would not be inductive over documents as Doxygen writes them: one that was printed
carries escapes and the marks of bytes literals, and holds elements named after written
texts. The comparison goes by tag. What is read back under a tag is what was
written under it, in its order (`ReadBack`, `WrittenByKid`): parts come back as they were
(`PartKidAgain`), a text with the two marks of the bytes literal around it
(`TextKidAgain`), so that it grows at each printing and never settles (`TextKidGrows`).
The attributes always come back (`AttributesAgain`), and the objects printed the second
time are those printed the first (`PrintedAgain`).

`SchemaAssumption` says that a row is of one of the four kinds the generator writes, that
its children have tags of their own and classes that are there, that a class with a title
among its children has a text among them, and that a child of a class with mixed content is
a text or has content itself; TLC evaluates it over the rows of every generated class.
`DocumentsAssumption` says that a document has a root and a greatest depth, that every
other element stands in another, and that nothing in it is escaped yet: its tokens are what
the XML parser makes of Doxygen's own file. `GenerationsAssumption` gives the bound its type, and
`AddressesAssumption` says that an address is not a text to escape.

TLC evaluates every assumption on the runs of the modules that extend it.

Only model-checked: the liveness properties `RequestAdopted`, `StopTerminates` and
`CallEnds`, which are out of the prover's reach.

## Plan

What is left, in the order of its worth:

1. `RtpStream`: a sender that keeps true sample time, and a network, composed with
   `RtpSource`; restarts with another time base, replayed markers and two senders of one
   SSRC then have a true time to be measured against.
2. `RtpWire`: `hton_rtp`, once something calls it, and its round trip with `ntoh_rtp`.

## Not modelled

* The payload-type tables and the byte access functions are stateless and nothing in
  the block calls them; `hton_rtp` has no caller. `dump_interfaces` only prints.
  `misc.h` is inherited and unused.
* Streams of no channels or of fewer, which the constructor accepts: `work` divides by their
  number. The scaling of a sample to its item type. Log lines, everywhere.
* In `doxypy`: indentation, `--autobrief`, and the rewriting of tags inside a
  docstring line. Of the XML classes: white space, what a title's `repr` says beyond
  its address, the wording of `exportLiteral`'s output and the find methods nothing calls.
  Of `doxyxml`: groups, which no caller reads.
* Build files, the Python bindings and the scripts that generate them
  (`header_utils.py`, `bind_oot_file.py`): straight-line calls of an external
  generator, with no state of their own.
