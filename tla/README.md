# Verification of the PCAP analyser

`src/MERGE_LATEST/ANALYSEPCAP` (below: `A/`) is an offline analyser for LTE signalling. A
capture process drops PCAP files into a spool directory. Several analyser processes claim
the files by renaming them, decode every packet, and write key performance indicators
(KPIs) of the Diameter interfaces Gx, Gy and S6b to a log that Splunk indexes. A ksh
script supervises the processes, another stops them, and two cleaners empty the spool.

This directory models that program in TLA+. TLC checks small instances and TLAPS proves
the main properties for every value of the constants.

## 1. The parts of the system

The way of a packet through one analyser process, and the processes around it:

    capture -> spool directory -> main_trace.cpp -> displayStats -> protocolTCP -> Diameter
                 ^        ^        (claim, read)    (flow object)   (node pair)   (parser)
                 |        |                                             |
              cleaners  StartPCAP.ksh / StopPCAP.ksh            Gx / Gy / S6b object
                                                                (window, KPIs, report)

`A/SHF` is SharedHashFile, the library that the interface classes are linked with: a hash
table in mapped files that processes share, queues on top of it, and the lock under both.

| Part | Source in `A/` | Module | State |
|---|---|---|---|
| KPI objects | `Interface.h`, `GxInterface.*`, `GyInterface.*`, `S6bInterface.*` | `Interface`, `GxInterface`, `GyInterface`, `S6bInterface`, `DiameterInterfaces`, `KpiInterface` | modelled, proved |
| TCP flows, choice of the object | `tcpProto.*` | `TcpProto` | modelled in part, proved |
| Diameter parser | `Diameter.*` | `Diameter`, `ExtractDword` | modelled, proved |
| Dashboard and UDP flows | `displayStats.*`, `udpProto.*` | `DisplayStats` | modelled in part, proved |
| A frame's way through both | `displayStats.cpp`, `tcpProto.cpp` | `Analyser` | composed, proved |
| Analyser loop, scripts, cleaners | `main_trace.cpp`, `StartPCAP.ksh`, `StopPCAP.ksh`, `cronjob.txt`, `pcapremove.sh` | `PcapSpool`, `SpoolPromise` | modelled, proved |
| Read-write lock | `SHF/shf.lock.h` | `ShfRwLock`, `RwLockPromise` | modelled, proved |
| Hash table | `SHF/shf.c` | `ShfTable`, `ShfPromise` | modelled in part, proved |
| Queues | `SHF/shf.c` | `ShfQueue`, `ShfQueuePromise` | modelled in part, proved |
| Shared node list | `Interface.cpp` | none | no caller in this build |
| GTP, SIP, packet inspection | `lteGtp.*`, `sip.*`, `hostDpi.*`, `ndipEx.c` | none | calls commented out |
| Older copies | `main.cpp`, `tcpProto_parser.cpp`, `SINGLE_INSTANCE/`, `src/*.cpp`, `src/SHF/` | none | superseded by `A/` |
| Third-party code | `tcptrace_SRC/`, `src/raghu` | none | vendored, not used |

## 2. The modules and the code

### KPI objects

`Interface` holds what the three classes share, as operators on an object: a record of
the members that outlive a call (`startTime`, `endTime`, the table `req`, the counters).
`checkTime` and `Window` are the two halves of `Interface::checkTime`, its result and its
side effect. `Account` is `addPkt` once the message type is known, `Sweep` and `Report` are
`printStats`, `ClearStats` is `clearStats`. `GxInterface`, `GyInterface` and `S6bInterface`
add what differs, which is how a packet is typed. `DiameterInterfaces` is the virtual
dispatch, and the invariant `ObjectInv` of one object.

`KpiInterface` feeds one object with packets. Its actions `Drop`, `Count` and `Roll` are
the three cases of the switch in `protocolTCP::addPkt`. Packet times come in any order,
because captures reorder packets and files are read in directory order. The variable
`ledger` is a history of what became of the requests.

Times are doubles of seconds in the code and milliseconds here; `Second` is the truncation
at the call of `checkTime`. Counters are unbounded naturals: 2^32 packets in ten seconds
are out of reach. The lookup `req[type][hop]` inserts 0 for an absent key, so the table
tells an absent entry from an entry 0.

### protocolTCP

`TcpProto` is `addPkt` with `getInterface`: the maps from node pairs to objects, created on
first use, and the static counters that replace the hop-by-hop identifier of the message.
Its actions are `Pass` (not a Diameter message it knows), `Ignore`, `Count` and `Roll`. It
composes the three kinds of objects. The literal 100 is the constant `MaxHop`. Three
variables are histories: `given` has the last `MaxHop` hop ids of each application's
requests and answers; `asked` has, for every entry of every object's table, the identifier
on the wire and the two hosts of the request that wrote it; `paired` has the hosts of every
request that an answer was counted for, and those of the answer. The hop ids collide between
node pairs and, as `tcp_pairing` shows, between requests of one pair: what keeps an answer
from a request of the other direction is only the name of the node pair (`AnsweredByPeer`).

### displayStats, and the analyser as a whole

`DisplayStats` is `ParsePkt`, `addPkt` and `getProtoBase`. The one global `m_Packet` is the
variable `ppkt`; a fresh one has any contents. Flows are found by its IPv4 addresses also
for IPv6 frames, which do not write them. `protocolTCP::addPkt` ends without a return
statement, so the value its caller compares with -1 is a choice. The histories `own` and
`sixes` count the frames that are filed by what is in the frames themselves, where the flows
count by what is in the `m_Packet`; `parsed` compares the payload that was parsed with the
frame at hand.

`Analyser` composes `DisplayStats` with `TcpProto`. A captured frame is given up, filed in a
UDP flow, or filed in a TCP flow and handed to `protocolTCP` in the same step, which reads
flow, length and IP version from the `m_Packet` that was just filled (`Handed`).

### Diameter

`Diameter` is the constructor: `Accept` or `Reject` after the header, one `Visit` per round
of the AVP loop, and the three ways out. A message is its header fields and a sequence of
AVPs. The members that the code reads before it assigns them (`request` in the loop) start
with any value of `Garbage`. A value field of another length than four bytes is read as
any value. Messages end where their length field says,
AVPs lie within them, and an AVP length other than 0 covers at least its header. The loop
accepts lengths from 1 to 7, too; nothing is claimed of them.

`ExtractDword` is `extractDword` with every shift and mask, one action per branch. The bits
of a byte are the constant `BYTE`, 8 in the code and 3 in the run. A shift is a
multiplication or division by `Pow2[n]`, which is 2^n written as a recursive function,
because the provers know nothing of exponents. `Number` is the reference: the number in a
run of bits, built bit by bit.

### The spool

`PcapSpool` has the state of every file (the ending of its name), of every analyser
(program counter, directory stream, list, current file), of the supervisor, of
`StopPCAP.ksh` and of `splunk.log`. Each action is one system call or one step of a script
that others can see. Analysers may crash between any two steps, and lose what they had in
memory. `[ -z $mon ]` is true only when no analyser is left.

`SpoolPromise` says what the spool promises of each file: it is taken once, read at most
once and only while it is taken, completed only after it was read. `PcapSpool` implements
it by the identity on `fstate` and `reads`.

### SharedHashFile: the lock

`ShfRwLock` is the ticket lock that the build uses. Each atomic operation on the shared
word is an action: taking a ticket, seeing one's turn, letting the next reader in, and the
two unlocks. The number of tickets is the constant `TICKETS`, 256 in the code; the padding
bytes that take the carry are the reason why `Inc` wraps and changes nothing else.
`RwLockPromise` says what `shf.h` says: one writer or any number of readers, let in in the
order of asking. The order in the promise is a relation between those that wait, read off
the distance of their tickets from the one that is let in next.

### SharedHashFile: the hash table

`ShfTable` is one of the 256 windows. A table is a file; a window has names for files, and
each process has its own mappings, which may be of a file that was replaced. What runs
under the writer lock is one step (`Put`, `Delete`), because the lock excludes everybody
else. A reader takes several steps: `GetLock`, `Search`, and,
when a copy meets much deleted data, `Unlink`, `Create`, `CopyRef` and `EndShrink`, which are
`shf_tab_shrink` under the reader lock. `Detach` is `shf_detach` with its assertion, and a
new attach. An assertion that fails ends the process, with the lock still held.

The loop of `shf_detach` goes up to `tabs_used`. The put that runs out of tables raises it
above the number of tables before its assertion fails, so a detach after that reads one entry
beyond the window's row of the array: the first table of the next window, which the process
may have mapped. `Munmaps` is therefore a choice once that has happened, and the detaching
process may end by its own assertion. `OnlyOverflowExits` says that this is the only way: no
process ends by any assertion before a put has run out of tables.

`ShfPromise` is a set of triples of UID, key and value: a key may be stored several times.
The mapping `Store` collects what is stored in the named files and in a file that is being
copied from. The variable `reply` is what the last step returned to its caller.

Abstractions: a key stands for its hash; keys and values have one length and a file never
grows, so remapping happens for replaced files only; the mapping of a replaced file is the
value `REPLACED`, since only its `tab_size` of 1 is looked at again. In the code parting
takes the moved refs with a copy loop; under the writer lock the loop is one step. A reader's
search of a row is one step, too: only a second reader could change the row meanwhile, and
that case is already violated in `shf_readers`.

### SharedHashFile: the queues

`ShfQueue` has the linked lists as they are: tail, head and size of every queue, of every
process's list for pushing and of its list for pulling, and the links of all of them in the
one array `next`. A call is up to three steps: the change of the private list, `Flush` under
the lock, `Take` from the private list. `ShfQueuePromise` has sequences instead of links; the
mapping walks the lists. The backward links (`last`) are written and never read, and are left
out. The addresses that `shf_q_new` keeps are assumed to stay valid.

## 3. Runs

| Run | Question | Bounds |
|---|---|---|
| `gx_kpi` | Are windows, counters and the table of a Gx object right for any order of packets? | 5 packets, 2 hop ids, 5 times in 3 windows, 3 request types of which one is not counted |
| `gx_attempts` | Is every attempt a request? (No.) | as `gx_kpi` |
| `gx_timeout` | Is a request timed out only when five seconds old? (No.) | as `gx_kpi` |
| `analyser` | Does the shared `m_Packet` mix up frames or flows, and do interleaved Gx, Gy and S6b messages keep every object sound? | 5 frames of 14 kinds, 2 hosts that ask each other, `MaxHop` 2 |
| `tcp_pairing` | Is an answer counted for its own request? (No.) | 5 packets, Gx and S6b, 2 hosts that ask each other, `MaxHop` 2 |
| `diameter` | Does the AVP loop find what a message carries, and end? Does `extractDword` return the bits asked for? | 3 AVPs of 8 kinds, 3 values of garbage; every position and length in 3 words |
| `spool` | Are files claimed and read once, across crashes, restarts and a stop? Is every file removed, does a lone dead analyser come back? | 2 analysers for the same names, 2 files of those names |
| `spool_error` | Is a completed file read without an error? (No.) | as `spool` |
| `shf_lock` | Does the ticket lock exclude, and serve everybody in order, while tickets wrap? | 4 processes, 4 tickets |
| `shf_table` | Is the window the store it promises to be, while tables are parted and shrunk? | 2 processes of which one reads, 2 keys of one row with different table indices, one value, rows of 2, 2 tables, 3 files |
| `shf_readers` | The same with two readers. (No.) | as `shf_table`, both read, 8 files |
| `shf_queue` | Are the linked lists queues, and does what is pushed arrive? | 2 processes, 3 queues, 3 items, lists of up to 2 |

Why the bounds are enough. The longest story of one request takes four packets (store, an
answer out of range, a roll-over, an answer too late) and five leave room for another. The
times are just before, at and after the end of a window. With `MaxHop` 2 both hop counters
wrap within five packets, and among the 14 kinds of frames is one for every early return of
`ParsePkt`. Two analysers with equal names are what `startanal` starts (`-i 1`
twice), and a conflict needs two. Three AVPs give both orders of the two the loop looks
for, with one to be padded before them. With as many tickets as processes every ticket is
reused at once. Two tables and rows of two give a parting that helps, one that does not help,
and the overflow; one reader is enough for every way a reader can meet a writer's changes,
and what a second reader adds is the question of `shf_readers`. With one value the run tells
keys and UIDs apart but not values: that a get returns the value that was put is only
shown by the proof (`KeepsPromiseHolds`), for any values. Three items and lists of two
give a queue that is emptied exactly, one that is left with a rest, and lists that are full.

Bounded runs switch deadlock checking off: a capture may end at any time. In the spool it
is off because a stopped and emptied system is a final state, in `shf_table` because a
process that ended with the lock held stops everybody. The runs of the lock and the queues
check it.

### Fairness

- `spool`: weak fairness of time (`FileAges`, `SplunkAges`), of the cleaners, which cron and
  a `while` loop run again and again, and of the two halves of the supervisor's loop. Nothing
  of analysers, which may hang or crash for ever, nor that `StopPCAP.ksh` is run or finishes.
- `diameter`: the constructor goes on.
- `shf_lock`: who has taken a ticket or is inside goes on. Nobody has to ask for the lock.
- `shf_table`: inside a call a process goes on; a put that waits for the lock gets it, which
  is strong fairness and what `NoStarvation` shows of the lock.
- `shf_queue`: a call goes on, and every process pulls from some queue again and again:
  "Processes poll for (& expect there to be) a new qiid to pull" (`SHF/shf.h:223`).

### What the code does and its comments do not say

- `gx_attempts`: an answer without a request leaves an entry 0 in the table. The next
  roll-over counts it as an attempt that timed out. The comment at `GxInterface.cpp:51` says
  "Increment attempts if a req is found for res".
- `gx_timeout`: `printStats` runs after `checkTime` moved the window and compares with the
  new end. A request from just before the roll-over is timed out at once, not after the
  five seconds of `DIAMETER_TIMEOUT`.
- `tcp_pairing`: hop ids of requests count up and those of answers count down, so an answer
  may be counted for another request although its own waits. The code marks these lines
  as "Distinct HOH TEST".
- `spool_error`: an error while reading is only logged, and the file becomes `.completed`
  under the comment "We've reached the end of our trace without an error".
- `shf_readers`: a copy may shrink its table while it holds the lock only for reading. A
  second reader that maps the new file before it is filled does not find a key that is
  stored. `SHF/shf.h:47` says "Every key stored can be accessed by the key or a 32 bit UID."
  and `SHF/shf.h:115` "Any number of threads or processes can read at the same time." With two
  readers the assertions after `stat` and `unlink` can fail, too, when one of them has unlinked
  the file the other looks for; `OnlyOverflowExits` is a property of windows with one reader.

Other facts that the model makes visible: the limit of 40 seconds in `addPkt` never decides
(`CutoffUnreachable`); a report carries the start of the window that begins, not of the one
it counts; a Result-Code is missed only when uninitialised memory held 1 and the request
type came first (`ResultMissedOnlyByGarbage`); the first frame that is filed fixes the
earliest window of every object (`FirstFrameBounds`); a single dead analyser comes back only
because nothing writes `result.log` and `splunk.log` grows stale (`InstanceComesBack`);
`.taken` files of a dead analyser are never read (`OrphansAreLost`); a process that runs
out of tables ends with the window's lock held, and everybody else waits, or ends when it
detaches (`OnlyOverflowExits`, `PutEnds`); items stay in a process's own list until the
list is full or the process pulls from a list that is empty (`Delivered` holds only because
processes poll).

## 4. Proofs

All proofs are for any number of packets, captures, flows, hop ids, hosts, analysers, files,
processes, tickets, keys, tables, refs, queues and items, and any width of a byte.

`DiameterInterfacesProofs` has the lemmas on one object: `WindowLemma` (what `checkTime`
leaves), `AccountLemma`, `SweepLemma`, `ClearLemma`, and from them `InWindowLemma` and
`RollOverLemma`: both cases of the switch preserve `ObjectInv`. That invariant joins the
types, the balance of the counters, the alignment of the window, and the fact that nothing
in the table is older than the window before. The last is what makes the 40-second
limit dead, and it holds only because the sweep uses the new end of the window.

`KpiInterfaceProofs` lifts these to behaviours. `Invariance` has the inductive invariant
`IInv`, which is `ObjectInv` and the balance of the report. From it follow `TypeCorrect`,
`AttemptsBalance`, `WindowsAligned`, `NothingStaleWaits` and `CutoffIsDead`, and the action
properties `WindowsNeverOverlap` and `PrintingSettles`. `AttemptsPrintedOnce` and
`RequestsConserved` rest on a second invariant, `LedgerInv`, that follows the cardinality
of the set of waiting requests through every case of `addPkt`. `RequestsConserved` assumes
that no packet has time 0: such a request looks like an absent one to the code.

`AnalyserProofs` uses the same lemmas for the maps of objects of `TcpProto`, which `Analyser`
extends. `EveryObjectSound` has the inductive invariant `TypeOK /\ ObjectsSound`: the lemmas apply
to a message only if its hop id is in range, which the counters guarantee.
`HopIdsNotReused` needs more: the counter alone determines all of the last `MaxHop` ids, the
last being the counter and each before it one less, around the wrap (`GivenInv`); these
differ because `MaxHop` steps go once round. `AnswersMeetTheirPair` rests on
`AskedInv`: whatever entry waits in the table of an object was written by a request whose
hosts are the object's node pair, and a request names that pair as its sender and receiver
where an answer names it turned round. `ReportsGoForward` needs
`ReportsInv`: the latest report of an object is of a time before the end of its window, and
no step moves that end back.

The composition implements `TcpProto` (`AnalyserImplementsTcp`), because what the `m_Packet` holds is always a pair of addresses (`KeyInv`). So every theorem
of `TcpProto` is one of the whole analyser (`AnalyserObjectsSound`,
`AnalyserReportsForward`). `PayloadsAreOwn` is about `displayStats`.
`FirstFrameIsBound` is about both: `BoundInv` adds that there is no object before the
interval is open, and that its start never changes afterwards.

`TotalsStayWithinFlows` compares the totals of `displayStats` with a sum over the flows that
exist, and there is only a sum if these are finitely many. `TotalsInv` says so, and
gives the types and the inequality. The sum is a fold: its recursion over the subsets
of a finite set has a solution (`SumsExist`), which does not depend on the order in which
the fold takes the flows (`SumsLemma`), so a step that counts one packet in one flow, old or
new, adds that packet's length to the sum (`SumGrows`, `FlowGrows`). The proofs are inductions over
finite sets: a smallest subset without the property would be one
element larger than one with it (`SubsetInduction`).

`FlowsCountTheirOwn` compares each flow's count of IPv4 packets with the frames of its
addresses, and the sum of the counts of IPv6 packets, by the same lemmas on sums, with
the number of IPv6 frames filed (`OwnInv`). It needs the types in `TotalsInv`.

`DiameterProofs` is about messages with any number of AVPs whose lengths are 0 or at least a
header. `StaysOnBoundary`,
`TypeAlwaysFound` and the action property `ResultMissedOnly` rest on `IInv`, which says that
the loop is at some AVP, or at the end, and has read all before it (`At`). The loop knows only
bytes: that no two AVPs start at the same byte (`AvpAtLemma`), so that the AVP it reads is the
one the invariant names, is because `Starts` grows strictly (`StartsGrow`). `Starts` is a
recursive function, of which nothing follows before there is a function that satisfies its
equations. `SumsExist` shows that there is one: were there a least number of AVPs without,
the function for one AVP less could be extended.

The second half of `DiameterProofs` is about `extractDword`, for any width of a byte.
`ExtractInvariant` has the inductive invariant `ExtractInv`: between two words, `value` is
the number in the bits asked for that lie before word `wordOffset` (`InLoop`). It rests
on facts about that number: it is below 2^n for n bits (`NumType`); a run of bits splits into
two, the first shifted left (`NumSplits`), so that a shift right gives the first bits and a
mask the last (`ShiftAndMask`); a byte, and a word of two bytes, are the numbers in their
bits (`ByteNumber`, `WordNumber`). A shift left drops nothing because no more than a double
word is asked for (`ShiftLemma`). `ReturnsBitsAlways` and `ReadsNoFurtherAlways` follow.

`PcapSpoolProofs` proves `TypeCorrect`, `AnalysersNeverShare`, `NoFileReadTwice`,
`StopLeavesNone`, `OrphansStay` and the refinement `SpoolKeepsPromise`. `ReadOnce` is not
inductive: a file is read once because what an analyser holds is `taken` or already
removed (`ClaimedInv`), held by no other (`DisjointInv`), unread until it is opened, and
because a file that is still `ready` is unread (`ReadsInv`). `StopIsFinal` needs that the
supervisor starts analysers only when all are dead and never once stopped (`StopInv`).

`ShfRwLockProofs` proves `TypeCorrect`, `MutualExclusion` and the refinement
`LockKeepsPromise`. Tickets wrap, so no order can be read off them; the inductive
invariant says that there are unbounded counters behind the three tickets, and behind those
of the processes, whose remainders the tickets are (`Counters`). There are as many processes
between two counters as the counters are apart, and those that wait have different ones.
With no more processes than tickets, equal tickets then mean equal counters.

`ShfTableProofs` is about `ShfTable`. All its theorems assume `OneGetter`, at most one
process that reads, and any number that put, delete and detach. The assumption cannot be
dropped: `shf_readers` has the counterexample. `WindowInvariant` has the inductive invariant
`IInv`; none of the invariants that the run checks is inductive without the others:

- `WindowInv`: the contents of every table fit (`Fits`: each ref is in the row of its key and
  in the table its index leads to, and the data is counted); tables have different
  files; a table in use has a file unless a reader is between `Unlink` and `Create`.
- `MapInv`: what a process has mapped for a table is the named file, a file marked
  replaced, or the one that is being copied from.
- `ProcInv`: what a process knows at each point of a get; while it copies, the old and the new
  file have no slot in common, so that a copied ref overwrites none; and its count
  of mappings is one more than its mapped tables, and another one more while it copies.

`RefsBelongHolds`, `DataCountedHolds`, `OnlyOverflowExitsHolds` and `NothingMissedHolds` follow.
That there is always a free file (`FreeFiles`) is a count of the files that are named,
mapped or copied from. A set of numbers has a least element (`Least`), which the first place in
a row rests on, because the intervals below its elements are ordered by inclusion.

`KeepsPromiseHolds` is the refinement of `ShfPromise`. `Holds(e, s)` says that a named file, or one
that is copied from, has the ref `e` at slot `s`; `Store` is the set of triples of what is held
(`StoreIsHolds`). A put that finds room holds one ref more, at an empty slot of the only
table its index leads to, so its UID is new (`FreshLemma`); a delete holds one
less; parting, replacing a file and each single step of a shrinking reader hold the same. The
promise lets a get or a delete return nothing at any time, as a step inside a call does; that
they do so only when there is nothing is `NothingMissedHolds`.

`ShfQueueProofs` proves `SoundLists`, `ItemsOnce` and the refinement `QueuesPromise`. The lists of
the code are ends, a size and links in one shared array, and neither what the run checks of
a list nor that each item is in one place is inductive alone: a list stays a list while others
change links only because they share no item. `IInv` therefore says which
sequence of items each list stands for (`Seqs`): the links lead along the sequence from tail to
head and end there (`Rep`), its items differ, and each item is in exactly one sequence or
in one process's hands (`Once`). To this it adds where each process is (`Control`), and that a
list for pulling is within `qids_nolock_max` (`Room`), which the promise says of every exchange. The lemmas are
about lists: hanging one behind another concatenates the sequences and disturbs no
third list; walking n links from the tail and cutting there splits the sequence. A flush hangs
all lists of a process behind their queues, one queue after the other; that is an
induction over the queues (`Hung`), with the same invariant in between. The refinement maps each
list to its sequence, so that each step is one of `ShfQueuePromise` on sequences.

Assumptions: the set of hop ids is finite, hop ids are `1..MaxHop` with `MaxHop` positive,
packets and captures have the shapes declared, the null value is neither a file, an object,
a process nor a ref, the AVPs of a message are a sequence whose lengths are 0 or at least
the eight bytes of a header, uninitialised memory holds ints, a buffer is whole
words and what is asked of `extractDword` is one to 32 bits within it, `shf_q_new` was called
with what its assertions ask for, there is one more file than tables (the file system has no limit that
the code looks at; fewer would stop `NewInode`), rows are finitely many, and no more processes use a lock than there are tickets. The code does not check
the last one; with more than 256 users two of them would hold the same ticket.

Only model-checked: liveness (`SpoolDrains`, `InstanceComesBack`, `Terminates`,
`NoStarvation`, `PutEnds`, `Delivered`), since temporal reasoning under fairness is out of
the prover's reach. Every invariant, action property and refinement that a passing run checks
is also a theorem, under the assumptions named above.

## 5. What is not modelled

- Output formats, logging, option parsing and CPU affinity.
- `setStats`, `fillPktDist`, `addSession`, `displaymetrics`, `printstats`, `cleardashB`: no
  caller, or a caller that is commented out, or counters nothing reads.
- Messages cut short by the capture or by TCP segmentation: the parser trusts the length
  field, and so does the model.
- Reuse of a file name: a file arrives once.
- The heap: the buffer for a file's name that is one byte short appears as a crash.
- `Interface::initialiseShf`, the shared list of node pairs: nothing calls it in this build,
  only in the older copy under `src/SHF/`. The table it would use is `ShfTable`.
- Of SharedHashFile: growth of a table's file and keys of different lengths, the creation of
  its folder by `shf_attach`, the deletion of its files, values used by address after the
  lock is given back, the UID 0xffffffff, the murmur hash, the log thread, and the helpers
  for child processes. `shf_q_take_item` is not implemented; `SharedHashFile.cpp` forwards
  its calls.
- GTP, SIP and packet inspection, which are compiled but not called.
- A process killed while it holds a lock: nobody recovers it, so all others wait.
- Third-party distributions under `src/raghu` (DPDK, WhiteDB, seagull) and tcptrace. They
  are by far most of the lines of this repository, and the analyser uses none of them. The
  share of the repository's lines that is modelled is therefore below one percent. Of the
  analyser itself, every operation on the way of a packet is modelled.

## 6. Plan

1. `ShfTable`: keys and values of different lengths, and with them growth of the files, and
   the folder that several processes create at once in `shf_attach`.
2. `LteGtp`: classification of GTP packets, should its call be enabled again.
