# A verification of pttp in TLA+

pttp is a peer-to-peer program in C++: processes (`bin/p2p.cc`) that gossip
addresses, flood text messages and prepare a set synchronisation, with the
beginnings of a ledger (transactions, a mempool, a tree of block headers) and
some command-line tools for encrypting short messages. This directory models
it in TLA+, checks the models with TLC on small instances and proves their safety
properties with TLAPS for every size. Line numbers below
are lines of `bin/p2p.cc` unless another file is named.

## The system

| Component | State | Operations | Interaction |
|---|---|---|---|
| task queue (`inc/gtd.h`) | heap ordered by (time, type), mutex | `add` now, `add` after a delay, polling pop | one per connection and one for the manager; producers are other threads |
| manager (597-689) | `manager_gtd`, `connections` | REQ_IPS, EXPAND_CONNECTION, SYNC_HASHSET, each putting itself back | pushes to `connections`, starts connection threads, reads `ip_list` |
| connection thread (471-594) | its queue and REQ socket | HELLO, SEND, REQ_IPS, REQ_HASHSET_FILTER: send, wait for the reply | talks to the serve thread of the peer, inserts into `ip_list` |
| serve (692-839) | ROUTER socket, `seen` | one case per message | inserts into `ip_list`, adds SEND tasks to every connection |
| read_lines (452-468) | - | a line becomes a SEND for every connection, "go" a SYNC_HASHSET | iterates over `connections` |
| client (`bin/node.cc`) | REQ socket | hello, transaction, getPeers | asks one p2p process |
| transactions (`src/process.cc`, 156-232) | credits, witnesses | create, process, read, write | client and serve |
| header tree (274-404) | `blocks`, `heights` | `mark_blocks` | no caller yet |
| mempool (314-353) | `txs`, `mempool`, `balance`, `latest_set` | `add`, `get_latest` | `get_latest` uses `hash_vec`; no caller yet |
| Merkle hash (`inc/curve.h`) | - | `hash_twin`, `hash_vec` | mempool, SetReconsiler |
| Bloom filter (`inc/bloom_filter.h`) | bits, key, count | `set`, `has_set`, `reset`, `bytes`, from bytes | sent by serve REQ_SET_FILTER |
| outside address (`inc/estimate_outside_ip.h`) | one buffer, the interface and address found so far | read the kernel's routes, find the default route's interface, find its address | called by main before the threads start; the kernel answers |
| context (`src/socket.cc`) | `Context::s` | made by the first thread that makes a socket | serve and manage race for it |
| header (235-272) | its fields | `bytes`, `from_bytes`, `calculate_hash` | header tree; no caller yet |
| reconciliation (57-104, 406-446) | filters, current set | `check`, `filter`, `add_filter` | SYNC_HASHSET |
| tools (`enc`, `dec`, `hexenc`, `hexdec`, `fullenc`, `fulldec`, `wordenc`, `worddec`) | - | encrypt, decrypt | the user carries text and salt from one to the other |

What is hard here: four kinds of threads per process share `ip_list`,
`connections` and the queues, and only some accesses take a mutex; sockets are
in lock step and have no timeout; the queue runs on a wall clock cut to seconds;
periodic work lives only by being put back; the flood ends only because of
`seen`; conversions (bits to bytes, 8 to 5 bits, Int64 to int) have their own
boundaries. `PROJECT.json` lists each hazard at its line with the properties
that would catch it.

## Modules

**Tasks**, **GTD**, **DelayQueue**. `Tasks` has the task types in priority order
and the heap's comparison. `GTD` is one queue with several producers and its
owner: `Add`, the delayed add in two steps (`AddStamp` reads the clock before
the mutex, `AddPush`), `PollReturns`, `PollSleeps` and `Wake` for the polling loop,
`Finish` for the end of what the owner does with the task it got (`running`),
`Tick` and `SetBack` for the clock. A task is named by an id, which is free again
when it is done, so the producers never run out of tasks. The heap is a set with "some
least element", since `priority_queue` is not stable. `DelayQueue` is what it promises:
a task is delivered once, to nobody before its deadline. `GTD` implements it
(`ImplementsDelayQueue`, a refinement mapping from the tasks stamped or queued).

**P2P** is a network of processes. A connection is a pair of a process and an
index of its `connections`; `cpc` says where its thread is, `cur` what it carries
out, `reply` what is on its way to it. EXPAND_CONNECTION is four actions since it
reads shared state unlocked at several points (`MgrExpand` measures, `MgrCopy`
copies, `MgrPick` is one round of its loop, `MgrExpandDone` puts the task back);
GET_PEERS is two (`ServePeersSize` before the mutex, `ServePeersFill` under it);
a line is looked at and then sent (`ReadLine`, `SendLine`);
the loops over `connections` in serve and read_lines advance one element at a
time (`FloodStep`). Unsynchronised accesses are nondeterministic: a copy may see
the old or the new list or overrun (`MgrCopy`), an overrun reply has a damaged
entry or ends the process (`Overrun`, `ServePeersFill`), a loop over a vector
that moved reads old pointers or ends the process (`FloodStep`, `Moved`), a loop that
takes begin and end while the vector moves ends it (`TornLoop`), and so may the
missing return of `filters` (`MgrSync`), where the missing one of `check` says
either. `fate` records how a process ended. The queues of connections hold only tasks added
without delay, so they need no clock; the manager's tasks are delayed by
seconds, and any of them may be next.

**Overlay** is what the network promises, without threads, queues and messages:
processes know addresses and hear texts, and both travel between acquaintances
only. `P2P` implements it (`ImplementsOverlay`): `ip_list` is what a process knows,
`seen` what it heard, and the lines typed are what was said. The steps in between
(a list waiting as a reply, a text waiting in a queue, a loop or an exchange)
are stutters, so the mapping says that whatever was read early is still justified
when it takes effect.

**Client** extends P2P with `bin/node.cc`: three requests to one process, served
by the same serve thread, which accepts or rejects its transaction.

**Transactions** reads, refuses and accepts transactions credit by credit, with
amounts narrowed as `int` narrows them, and writes them out again. Signatures are over
bytes: the same credits come serialised as `WriteMessage` does it (`"canonical"`, as
`create_transaction` and `bytes()` write them) or otherwise (`"foreign"`), and a reader
verifies over the bytes that came. `Signature::verify` does not look at a
signature's length: an empty one is refused or ends the process (`Crash`). **Ledger** has
`add` and the loop of `get_latest`, a transaction at a time in the order of the
hashes, from no balances, as nothing in the program writes `balance`. **MarkBlocks** has `mark_blocks`, a header at a time, over every acyclic
graph of links. **HashVec** is `hash_vec` over an ideal hash, two calls side by side. As in the
code nothing marks a level: an element is a string (`raw`), and may be a hash that
`hash_vec` makes of other elements.
**Bloom** is the filter and its copy built from the bytes sent. **Words** is
`wordenc` and `worddec` with the bit conversions of `inc/type.h`, **Secrets** the
other six tools, **Regroup** the loop of `bytes_to_bech32`; `Words` and `Regroup` take the
`1 << k` of the code from **Powers**.

**Reconcile** is `SetReconsiler`: its user's filters, `filter` of a list in any
order, and `check`, which sorts and compares a `hash_vec`. **Headers** is
`BlockHeader`, written by one process and read by another. **Sockets** has
`Socket::connect` and `Context::inst` step by step in two threads: look, make,
store, open. **Routes** is `estimate_outside_ip`: `readNlSock` takes a datagram at a
time into the buffer, `get_interface` a route at a time out of it,
`get_ip_from_interface` an address at a time. The kernel is external: any answer
in datagrams of routes and a last one with DONE, or an error; sizes are counted in
units, of which a header is one.

**Parts** puts the modules of the ledger, the tools, Reconcile, Sockets and Routes
side by side, with a variable that says which of them a behaviour is of: in the
program these parts do not interact, so their behaviours are a disjoint union, and
one run covers them. Its properties repeat the modules' own under that condition.

Operators named "Mutant" in a comment are plausible wrong versions of the
definition that follows; for each property, one of them makes TLC find it violated.

## Runs

| Run | Shows | Bounds |
|---|---|---|
| `gtd_queue` | refinement of DelayQueue; a task returned leaves none whose deadline is a second or more earlier; every task added is returned, but for more urgent ones added without end | two producers who add for ever, two tasks under way at a time, two ticks a second, one set-back: tasks meet within and across a second, an endless stream of immediate tasks occurs |
| `p2p_gossip` | replies match requests, periodic tasks are kept, an asked peer knows the asker; the network implements Overlay | two processes, one connection each, an address where nobody answers: enough for a list to grow during a copy and during a reply |
| `p2p_chat` | connections within bounds, no amplification of texts, SYNC_HASHSET not multiplied, filters asked of greeted peers only; with texts, too, the network implements Overlay | two processes, up to two connections each, one user typing a "go" line: the vector moves during a loop, filters are asked while the text floods |
| `p2p_gossip_live`, `p2p_chat_live` | address lists converge; texts arrive, the flood ends, requests are answered | two processes, one connection each |
| `client` | the client has a first peer to print | the client and two processes, with its hello's address in their lists |
| `parts`: headers | heights agree with predecessors, all headers are marked when no predecessor is missing, `mark_blocks` returns | every acyclic graph of up to five headers |
| `parts`: transactions, pool | created is accepted, accepted is signed, after rewriting a transaction is accepted exactly if nothing in it is signed or its bytes stayed the same; no prefix of the chosen set overdraws, nothing carriable is passed over | two accounts, up to two credits and signatures in either serialisation, an `int` of three bits with amounts -1, 2, 7 (reads -1) and -6 (reads 2); a pool of three transactions of up to two credits |
| `parts`: sets | equal roots only for equal sets, or for a set and the inner hashes of another; a copied filter agrees with its original; `check` is true for the right set and, with the same exception, for no other | sets of up to six hashes (odd levels at every depth), two of which are hashes of others, so that the exception occurs; filters just below and above one and two bytes; four hashes in every order, up to two filters, `filter` called again and again |
| `parts`: start-up | every socket has a context that is ready and contexts settle; an accepted answer is the whole answer; the interface is the last default route's and the address one of it without "192.168." | one socket in one thread and four in the other; every answer of up to two datagrams of up to two routes of five kinds, below, at and above the buffer's size; every list of two addresses of four kinds |
| `parts`: tools | phrases and messages come back; bits are kept and the unsigned shift never wraps | the program's own 24 words of 11 bits; messages up to two bytes or three digits; up to six bytes, every alignment |
| `p2p_distinct`, `p2p_hello`, `p2p_filter`, `transactions_amount`, `headers` | violated: see Findings | the shortest instances that show it |

The bounds named in the modules (`MaxLines`, `MaxQueue`, `MaxNow` and the like)
only cut counters that the code leaves unbounded; they sit in guards, so a run
covers every behaviour below them. `CHECK_DEADLOCK FALSE` stands where the system
may really stop: processes end, all requests go to silent peers, bounds are used
up, a computation is done.

**Fairness.** Threads that can go on do (weak fairness of each thread's step).
A ROUTER socket takes requests from its peers in turn, and the manager's queue
returns each periodic task once it is due, which `EveryTaskReturned` shows of the
queue; since the thread is busy with other things in between, these two are
strong fairness per request and per task. Nothing is assumed of users, of peers
at addresses where no process runs, or of processes that ended; the liveness
properties say "unless a process dies". For the queue: its owner polls when it is not
busy with a task, producers finish the push they began, the clock ticks and is set
back finitely often. Nothing is assumed of how long the owner is busy (a
connection's thread may wait in `recv` for ever) nor of the producers:
`EveryTaskReturned` says that a task is returned unless the owner is held by another for
ever or immediate tasks are added without end, and an immediate one unless such tasks
of its type or a smaller one are. In P2P the manager's immediate tasks are those of
"go" lines, which users type less often than it polls. For `mark_blocks`: its
thread goes on.

## Findings

1. EXPAND_CONNECTION connects twice to one address, or to the process itself
   (661-680; `p2p_distinct`).
2. A text may be sent to a peer before HELLO, against the state diagram of
   `cap/README.txt` (472; `p2p_hello`).
3. The reply to a filter request is decoded with the wrong root type and ends the
   process (537; `p2p_filter`).
4. Amounts are Int64 on the wire and `int` in the program (`process.cc` 81;
   `transactions_amount`).
5. `BlockHeader::from_bytes` stores the predecessor in `hash` instead of `prev_hash`:
   a header that was read has no predecessor and another hash than the one that
   was sent (248; `headers`).

More observations, in code that nothing calls yet, have no run of their own: the
`break` of `mark_blocks` at a header that an earlier walk marked -1 ends the loop
over all headers, so later ones keep height 0 (368; `Visit` models it, and
`RootedMarked` is stated for sets of headers without missing predecessors because of it);
and `get_latest` of a mempool without a valid transaction hands `hash_vec` an
empty list, which it asserts against (350; `Return` models it). `hash_vec` does not
tell elements from hashes it made, so `{a, b, c, d}` and `{H(a,b), H(c,d)}` have one
root (`curve.h` 199-229; the exception in `HashTells` and `CheckTells`). And a
transaction whose credits another writer serialised differently is accepted once and
refused after `bytes()`, which serialises them anew (196, 204-229; `RewriteStable`).

`get_ip_from_interface` skips hosts that contain "192.168." and no other private
or link-local ones (`estimate_outside_ip.h` 157); `OutsideAddress` says just that.

## Proofs

`GTD_proofs`, for any producers, delays and ticks per second:

- `TypeCorrect`, and `Invariance` of `Inv == TypeOK /\ Stamped /\ Identified /\ Idle`.
  Neither the refinement nor `DeadlineOrder` is inductive alone: one needs that
  the time stored with a task is its deadline cut to seconds, or 0 with a deadline
  that has passed (`Stamped`), that an id names one task (`Identified`), and that
  the owner has one task in hand while it runs and else none (`Idle`).
- `DeadlineOrderHolds`: from the comparison of the heap and `Stamped`.
- `Refinement`: `Init` maps to the empty delay queue, and each action to
  `Submit`, `Deliver`, `ClockMoves` or a stutter.

`P2P_proofs`, for any finite set of addresses, any `N_CONN` and any seeds:

- `Invariance` of `IInv == TypeOK /\ Exchange /\ Bound /\ ManagerTasks`. The parts
  lean on each other: types need that a thread in an exchange has a task in hand
  (`Exchange`); the bound on connections needs the rounds that
  EXPAND_CONNECTION still has to go (`Bound`: connections plus `n_new` are within
  `N_CONN` and within the addresses, which only grow).
- `TypeCorrect`, `ConnectionsBounded`, `TasksKept`, `RepliesCorrect` follow.

`Network_proofs` builds on that invariant and relates several processes, for any
network:

- `NetworkImplementsOverlay`: every step of P2P is a step of Overlay or a stutter.
  What is read early must still be justified when it takes effect. So the
  invariant says that the addresses connected to or copied by EXPAND_CONNECTION are
  in `ip_list` (`Reached`), that a list in a reply, being filled or in an exchange is
  within what its sender knows, but for a garbled entry (`Justified`), and that a text
  in a queue, an exchange, a request or a loop was typed at or received by its
  process (`Texts`).
- `PeersKnowWhoAsks`: a started connection has a HELLO queued, has it in
  hand, or is known to its peer (`Greeted`); while a request of the manager is under way no
  HELLO is queued (`HelloBefore`). The second part of the property, that an intact
  list names the asker, needs that the list reserves room (`Slots`) and
  names the asker on its whole way (`ListNames`).
- `FloodsDoNotAmplify`: the bound is not inductive since a loop adds copies later; the
  invariant counts the copies a loop over `connections` has still to add (`ToCome`,
  `SendCount`), with the loops within their ranges (`InLoop`).

`Client_proofs` has `ClientFindsPeer` from an invariant of its own (`ClientInv`),
because serve holds a client's request in states that P2P alone does not have.

The parts, each from an invariant over the variables of that part:

- `Blocks_proofs` (`MarkTypes`, `MarkedHeightsFit`, `MarkedWhole`), for every acyclic
  graph: `MarkInv` has the walk as a path of unmarked headers in `blocks` (`Walked`),
  says that every header the outer loop has come to has a height or is being walked
  (`Visited`), and that without a missing predecessor nothing is marked -1 and the
  loop ends only when it has come to all (`Whole`).
- `Pool_proofs` (`PickedNeverOverdraws`, `PickIsGreedy`), for any transactions:
  `PoolInv` ties `balance_cpy` to what the picked transactions add up to
  (`BalancesKept`), and what was picked and passed over to the order of the hashes
  (`InOrder`, `PassedOver`). Both are about a pick that starts from no balances, as the
  program's does.
- `Transactions_proofs` (`CreatedIsAccepted`, `AcceptedIsSigned`, `RewritesAreStable`), for
  any accounts, amounts and width of an int: `n_neg` is the number of credits before `i`
  that read negative (`Rank` in `Reading`), so the n-th signature is looked for at
  the right credit. That a rewritten transaction is accepted exactly if it has nothing
  to sign or kept its bytes needs that a message the constructor wrote has the credits that
  came first (`Same`), padding behind its signatures, and none over its own bytes when
  those are not the bytes that came (`NoExcess`).
- `Parts_proofs`: `BytesLoadInOrder` and `BitsStayInOrder` (`n` holds what is left of the byte
  the next value begins in; about quotients by powers of two), `CopiesAgree` (the bits
  go out and come in at the same index), `SecretsRecovered` (pads and hexadecimal digits are
  undone; a note on the way has a message it was made of), `ContextRaceHarmless` (for
  any number of threads: a thread makes at most one context, one that is not stored
  yet has no sockets, and from a thread's first socket of the current context on all are of it), `HashTellsSets` (the levels behind a root are recovered from it,
  since the pairs of a list without repetition tell the list; where the two
  recoveries end at different depths the elements of the one are hashes made of the
  other), `CheckSaysSame` (the sort of a list gives one ascending list per set, and the
  root tells it with the same exception),
  `AnswerIsWhole` and `AddressIsOutside` (what was read is a prefix of the
  flattened answer, what is still to be parsed is its rest, and the interface
  found is that of the last named default route passed), `PhraseComesBack` (the bits
  on are those of the words done, the halvings of a word sum up to it, and the
  packing into bytes loses no bit).

Every invariant and every safety property of the passing runs is a theorem. The
assumptions are those stated with the constants (`P2PAssumption`,
`PartsAssumption` and so on), which TLC evaluates in every run. For the proofs some
are stronger than a run alone would need, as the code is: `Element` is finite
(HashVec, Reconcile), a route message has at least a header (Routes). HashVec's hash has no
collisions and signatures cannot be forged: what `verify` reads behind a signature
that is too short does not make one. Both are in the definitions of the
models, not proved. Different sets may still have one root: `HashTells` and
`CheckTells` say when.

Induction over numbers is needed for the recursive functions (levels of a hash,
sums, sizes, bits). It is first-order here: a set of numbers that is not empty has a
least element, since the intervals up to its elements are finite sets, which
strict inclusion orders well (`Least` and `Induction` in Pool_proofs).
So that they can be reasoned about, `Reconcile!sort` picks each element by its rank and
`Passing` is a recursive function, `Routes!Size` is one as well, and `Words` and `Regroup` halve
and sum as the loops of the code do instead of using the built-in exponent.

Only model-checked: liveness (`EveryTaskReturned`, `AddressesSpread`, `TextDelivered`,
`FloodEnds`, `RequestAnswered`, `Terminates`), since fairness and ENABLED are out
of the prover's reach, and the five properties that are violated.

## Not modelled

- `mine()`: its thread is commented out, and it would send a bare Block where
  serve expects a Message.
- BLOCK and REQ_SET in serve, REQ_HASHSET in connections: nothing sends or queues
  them. `get_set_or_filter` is false as long as `filters` is empty, and
  `add_filter` drops its filter; `hash_sets` is never filled, so REQ_SET could
  only be rejected, and its reply would be read with the wrong root type.
- The end of standard input: `read_lines` then floods empty lines without pause;
  `MaxLines` cuts this off.
- A signature that is too short but not empty: `verify` reads past its end, which
  is taken to fail.
- DB, CachedDB, Cuckoo: used by no program, and a Cuckoo writes to a vector without
  elements.
- A kernel that appends DONE to a datagram of routes: `readNlSock` would wait for
  ever (`estimate_outside_ip.h` 49).
- `snippets/` (copies of `estimate_outside_ip.h`, not built), `segwit_addr`
  (vendored), `nodetest`, `snd`, `rcv` (experiments, not built), and libsodium, ZeroMQ
  and Cap'n Proto themselves.

## Plan

Done: the queue and its promise, the network and its promise, the client, the
ledger pieces, set reconciliation, headers over the wire, sockets, the outside
address, the tools, and a theorem for every safety property above. What is left:

1. An abstract promise of the ledger pieces and of the filter, as the queue and
   the network have one, with the refinement proved.
2. The safety half of the liveness properties: what each step of `mark_blocks`
   makes smaller, what a flooded text has still to reach.
3. The hazards without a property, as far as the code around them comes into use.
