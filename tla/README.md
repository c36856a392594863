# A TLA+ verification of the hoodie switchboard

hoodie is a small transaction monitor with the XATMI interface.  Programs that
*call* services and programs that *provide* them ("workers") connect to one process, the
**switchboard** (`src/util/switchboard`).  It keeps tables of clients, services,
advertisements and transactions, gives each call to a waiting worker or queues
it, and takes results back to the callers.  The **XATMI library** (`src/xatmi`) is the
other end of each connection; `src/tx` is its transport.

## 1. The parts of the system

| Part | Source | State | Operations | Module |
|---|---|---|---|---|
| clients | `client.c`, `server.h` | `tpclients`; per client: handler, input, `wait4`, adverts, requests, replies | `new_client`, `del_client` | Switchboard |
| services, advertisements | `service.c`, `advert.c`, `svradvertise.c`, `svrunadvertise.c` | tree of services with wait queues, tree of advertisements per client | advertise, unadvertise, `del_advertisement`, `del_service` | Switchboard |
| transactions | `transaction.c` | `tptransactions`; per transaction: client, svc, executor, rval, data, cd; the list `free_cd` | `new_transaction`, `del_transaction` | Switchboard, CdPool |
| calls | `svracall.c` | | `svracall`, then `send_to_worker` when the data is in | Switchboard, Wire |
| work | `svrservice.c` | | `svrservice`, `find_earliest`, `add_to_waitq`, `send_to_server` | Switchboard, Wire |
| results | `svrreturn.c` | | `svrreturn`, then `part2` when the data is in | Switchboard, Wire |
| replies | `svrgetrply.c` | | `svrgetrply`, `snd_reply` | Switchboard, Wire, Descriptors |
| I/O loop | `tpserver.c`, `svrio.c` | input buffer and handler of each client | start and exit, `Iowait`, `command`, `svriowait`, `svrwrite*` | Wire, Switchboard |
| lists | `queue.c`, `queue.h` | two pointers per link | `qappend`, `qprepend`, `qdelete`, the Q macros | LinkedQueue, Lists, Queues |
| library: calls | `tpacall.c`, `tpcall.c`, `tpgetrply.c` | the call it blocks in | | Wire, TpCalls |
| library: services | `tpadvertise.c`, `tpunadvertise.c`, `tpreturn.c` | `_tp_longjmp_okay` | `tpadvertise`, `tpunadvertise`, `tpservice`, `tpreturn` | Wire, TpCalls |
| connection | `tx_open.c`, `tx_close.c`, `tx_io.c` | `_tx_server` | `tx_open`, `tx_close`, `tx_write*`, `tx_read` | Wire |
| typed buffers | `tpalloc.c`, `tprealloc.c`, `tpfree.c`, `tptypes.c`, `libxatmi.h` | blocks with two guards | the four routines | TpMemory |
| numbers on the wire | `byteorder.c`, `svrio.c`, `tx_io.c` | none | `writes`, `writel`, `toshort`, `tolong` | ByteOrder, Descriptors |

How they interact: a call is `tpacall` → `svracall` (header) → `send_to_worker`
(data) → `send_to_server` → the worker's `tpservice` → its service routine →
`tpreturn` → `svrreturn` (header) → `part2` (data) → `snd_reply` → `tpgetrply`.
Anybody may disconnect between any two of these, and services may go.

What makes it hard:

* the switchboard is one thread, but requests and results come in **two parts** and
  other clients are served in between, so a handler's second half finds tables
  that have changed;
* **raw pointers** connect the tables in both directions (`wait4`, `executor`,
  `svc`, the input buffer), and deletions cascade: client → advertisements → service →
  queued transactions → the pointers of other clients;
* one wait queue holds **either workers or transactions**, and a flag says which;
* `wait4` has **two meanings**, what a worker services and what a caller waits for;
* a caller or a worker that waits has no input handler and is only woken by
  **another client's** message;
* the byte stream has **no framing**.

Correctness, part by part: the tables describe each other (every transaction
on one list of a connected client, services exactly while advertised, queues
homogeneous); no worker waits beside a queued call and no caller beside its
reply; a call is lost only with its caller or its service, and somebody is always about to see to it; `tpcall` returns unless its call is overtaken for ever;
a cd leads back to its transaction, alone as far as the random numbers allow; both ends of a connection stay in step; the
guards of a buffer agree; the pointers of `queue.c` are lists.

## 2. The modules

**Switchboard** is the core.  Each handler is one action, everything it calls
included, because Iowait runs a handler to its end.  `svracall`/`send_to_worker` and
`svrreturn`/`part2` are pairs of actions, since their data arrives separately; when
there is no data, the second follows at once, which is one of the modelled
behaviours.  A variable is a field of a struct (`wait4`, `executor`, `rval`, …) or a
table; the comment at its declaration says which.  An advertisement is named by
its client.  `out` is what the last handler wrote and to whom.  `serving` is the
only piece of client state: a client of the library returns a result exactly when it is in
a service routine.  A transaction is named by its address, and its cd is taken
to be the same thing; Descriptors says when that is right.

Undefined behaviour is not papered over.  `Freed` is the value of a pointer whose
object is gone.  A handler that would use one, go through a null pointer or fail
an assertion sets `status` to `"freed"`, `"null"` or `"assert"`, after which nothing
happens.  The invariants are therefore of the form `Up => ...`: they say what holds
in a process that still runs as written.  All three outcomes are reachable (section 6).

**Calls** is what the switchboard promises a client that calls: a call it makes is pending until it
is finished or answered; it is answered once, to the client that made it, after which it is gone; it goes without
an answer only with its client or with its service.  There are no workers, wait queues or messages in parts in it.
**SwitchboardCalls** says where these calls are in the tables of Switchboard (the queues of requests
and of replies, and the replies among what a handler writes).

**Queues** has the lists as sequences, as Switchboard uses them.  **LinkedQueue** has
them as `queue.c` does, with pointers, and is shown to implement **Lists**, which is
the abstract specification in the vocabulary of Queues.

**TpCalls** closes the system: callers make one `tpcall` after another, workers
advertise and then loop in `tpservice`, as `reversetest.c` and `reversesvr.c` do.
`Repertoire` is the services that a worker's program advertises, several of them or one.  A caller may also give up: with no room for a
reply (`*olen` is 0) `tpgetrply` refuses before it writes anything, `tpcall` returns, and the transaction stays
(`tpcall_begins`).  The module adds fairness and is about progress.

**CdPool** is the choice of a cd in `new_transaction`: the list `free_cd`, its
refilling with random numbers, which may repeat, and the pruning of those in use.  `fillings` and `filling` are
history: which filling of the list a cd is from.  **ByteOrder** has the number conversions, with their
widths and signs.  **Descriptors** composes the two: the cd goes out as two bytes, the
client keeps an `int`, sends two bytes back, and `svrgetrply` reads a signed short and looks
it up among the transactions of this client.

**Wire** is the connections that one client makes, byte by byte: the library writes and blocks in `tx_read`;
Iowait accepts connections, reads any part of what has come and calls the handler when its buffer is
full.  `tx_open` leaves the connection there is and makes another one, which may fail; the switchboard goes on with the one
that was left until it has read it to its end.  The client may die at any point, with only a part of its last message on the way
(`dies`), and the switchboard may exit at any point and start again (`exit_handler`, `main`).  A write to an end
that has gone is lost: `svrwrite` goes on, a call of the library returns, and `tx_read` fails (`tx_read_fails`).
`client` is the switchboard's end of each connection, `server` the client's current one; `cut` only records who died, for
`DeletedAtEnd` and for a bound in `tx_open`.  What the other clients do is left open: whether a service is there, whether and when a
reply or work comes, and when a service goes and takes a queued call with it (`del_service`), so that a client may hang for ever.

**TpMemory** is the layout of a typed buffer in units of `sizeof(struct tpmemory)`: a guard,
the data, a guard; and what each routine asserts and sets.  The program passes the addresses of its own buffers only: given a null or
unguarded pointer, `tprealloc` and `tptypes` refuse and `tpfree` aborts (`tpfree.c:28`).

The modules whose names begin with MC give TLC small instances.  Names that end in a
suffix such as `_never` or `_swapped`, under the comment "Mutant", are wrong versions of a
definition; no specification uses them.  They record that each property fails when the code is
changed in that way.

## 3. What TLC checks

| Run | Instance | What it shows |
|---|---|---|
| `tables` | a caller, a worker, and a client that is both and may unadvertise; one service, two transactions; the caller and the client that is both may exit and return; 217,897 states | the type invariant, the consistency of all tables, no missed match of worker and call, no missed reply, `TransactionFate`; `IndInv`, the inductive invariant of the proofs, and `ImplementsCalls`, where `wait4` has both meanings and two workers may hold the same transaction |
| `tpcalls` | two callers and a worker of two services, which may exit and return; two transactions; 84,366 states | `WaitsEverywhere`, no request that nobody sees to, not everyone waits for everyone; `TpcallReturns` under fairness |
| `linked_queue` | two lists, four links; 261 states | `queue.c` implements Lists; both directions of the pointers agree; `WellLinked`, the inductive invariant of the proofs |
| `descriptors` | two clients, a list of two cds filled up to three times, three transactions, shorts of two 2-bit bytes; 77,680 states | `FillingsApart`, `LeadsBack`, `CdIsNoError` over several fillings, each with or without repetitions |
| `wire` | names, shorts and longs of 2, 3 and 1 bytes, data of 0 or 2; one call outstanding; two connections at a time, the second made while the first is still read; death of the client, exit and restart of the switchboard; services that go; 128,378 states | both ends stay in step and never wait for bytes of each other, the client is only deleted at the end, every call returns that is not left hanging for another client, and a client that has gone is deleted; `InStep`, the inductive invariant of the proofs |
| `tp_memory` | two addresses, units of two bytes, up to four bytes of data; 2,500 states | `GuardsAgree`, `DataKept`, and `WellGuarded`, the inductive invariant of the proofs |

Six more runs end in a counterexample; they are the findings of section 6.

*Why the bounds are enough.*  Two transactions are the least for which queues have an order and a transaction can overtake
another.  In `tables`, with a caller, a worker and a client that is both, every pair
of roles meets, and every status outcome is reached; two workers of one service make the difference between
its last advertisement and another one.  Two services, between which `find_earliest` chooses and on whose queues a worker waits at once, are in `tpcalls`, where
the roles are apart; the two together are out of TLC's reach.  One routine and one result are left to choose in both:
no property depends on which routine is advertised, and `TPERRNO` comes about when a worker exits.  The list of cds is shorter than the number
of transactions, so it is used up and refilled while cds from earlier fillings are current, and
a filling can be pruned; two clients are the least for which a cd can be found that is another client's.  The shorts include both extremes, -1, 0 and 1.  In
Wire, the three field lengths differ, so taking one for another is noticed; data of
length 0 takes the path on which `svriowait` calls the handler at once; with any
number of bytes per read, messages are cut at every place.  Two connections are the least for which one is made
while the one before is still being read; after that the first is free to be made again, so the client connects any number of times.
The successor of a client that died connects when the switchboard has deleted that one (a bound in `tx_open`): two processes
share nothing but the switchboard, whose handlers never look at another client's input.  Buffer sizes lie below, at and above
one and two units.  `MaxCalls`, `MaxConns`, `MaxFillings` and `MaxSize` are bounds of the models; `Tran` is the memory
there is for transactions (`svracall` fails when it is used up, as it does
when malloc fails).  Transactions are interchangeable, hence the symmetry
in the runs without liveness.

*Deadlock* is checked in `linked_queue` and `tp_memory`.  The others may stop: a process
that is down does nothing more.
In `wire`, `NeverBothWait` excludes that the two ends wait for bytes of each other, and in `tpcalls` `NotAllWait` that all the clients do.

*Fairness.*  TpCalls and Wire assume weak fairness of the steps that the code takes by
itself: Iowait visits every client whose descriptor `select` reports, so input
that has arrived is read in the end; a caller inside `tpcall` goes on to its next
message, a worker goes through its advertisements and its loop, and service routines end.  The kernel's part is that `select` reports a connection with input, at its end or
waiting to be accepted, and that a `read` returns when the other end has gone.  Nobody is assumed to connect, advertise, call,
exit, start again, or, in Wire, have a reply or work for a client that was left hanging.

## 4. The properties

* `WaitqHomogeneous`, `WaitsEverywhere`, `NoIdleWorkerForQueued`: the wait queue and its flag
  agree although different handlers set them; a worker is on the queues of all its services or
  of none, and then hangs; no worker waits for a service with a call in its queue.
* `TransactionsOwned`, `ServicesAdvertised`: what the cascades of deletions leave behind.
* `MostRecentIsRead`: `send_to_worker` takes the last request of the client to be the one whose
  data has just arrived, although other clients were served in the meantime.
* `NoMissedReply`, `RepliesCompleted`: a caller that hangs for a cd hangs for a request and not for
  a reply that is already queued; a queued reply has a result.
* `NoneForgotten`: every request is in somebody's hands (`Attended`): its data is still being read, it is in a wait queue, or a
  worker is servicing it or returning its result, and that worker is its `executor`, so that `del_client` finds it and fails
  the request if the worker leaves (`client.c:60`); or the worker has unadvertised the service, which frees what `executor` points to.
* `NotAllWait`: while a caller hangs with a request outstanding, the switchboard expects input from a worker that has the
  request in hand or advertises its service.  It is what `TpcallReturns` needs at every point on the way, and a safety property,
  which can be proved.  This and `NoneForgotten` are about systems in which no service routine makes calls of its own: for a
  client that does, `wait4` is overwritten and the transaction it services is lost (section 6).
* `TransactionFate` (of steps): a transaction disappears only when its reply is written,
  with its caller or with its service.
* `ImplementsCalls` (refinement): every handler is a step of Calls or leaves the calls alone.  No call is
  answered twice, to another client, or after it is gone, even where two workers hold the same
  transaction, a worker leaves with one, or a service goes between the two parts of a request.
* `TpcallReturns` (liveness): a caller that hangs is answered, or its service goes, or its call is overtaken again and again for
  ever.  Both ways of overtaking (`Overtaken`) happen, and without either of them in the formula TLC finds a caller that starves: a worker of two
  services always has a later call of the other service, which `find_earliest` prefers (`earliest_first`, section 6); or a call that is
  done stays first on its queue because nobody collects its reply, and is given out again and again
  (`svrservice.c:96`).  What the property says is that nothing else starves a caller: calls of one service whose replies are collected are answered in turn.
* `WellLinked`: a link is on one list, where it is found in both directions, or is a circle of its own, so that `QISEMPTY` of
  a link says that it is on no list and `qdelete` of it is harmless.  `ImplementsLists` (refinement), `SameBackwards`: see
  LinkedQueue.
* `FillingsApart`: current transactions have equal cds only where one filling of the list has a number twice; pruning keeps the
  fillings apart, although cds from all of them are current at the same time.  `LeadsBack`: for the cd that `tpacall` returned,
  `svrgetrply` finds the transaction, and beside it only ones from the same filling.  That the comment in `transaction.c`
  promises more is `UniqueCds` (section 6).  `CdIsNoError`: what `tpacall` returns for a call that was accepted is positive.
* `CommandsInStep`, `AnswersInStep`: each end reads exactly what the other wrote for it, over any number of connections.
* `DeletedAtEnd` (of steps): Iowait deletes a client only when it has left the connection; if it closed it, then after all it
  wrote was read.  So a result that a worker wrote just before it closed the connection still gets to its handler.
* `InStep`: what is between the two ends of each connection at any time; it implies the three properties above.
* `NeverBothWait`: while a call of the library waits in `tx_read` for bytes that have not come, the switchboard is not waiting
  for bytes of the client that have not come either: it is yet to accept the connection, has all that its handler asks for, or
  has left the client hanging for work or for a reply.
* `CallsReturn` (liveness): every call of the library returns or is left hanging for work or for a reply; it returns also when the switchboard exits
  in the middle of it.  Whether the work or the reply comes is up to other clients and is the question of `TpcallReturns` and `awaited`.
* `GoneAreDeleted` (liveness): a client that has gone is deleted in whatever state it was, also when no input was expected
  from it, in the middle of a message, before it was accepted, and after a handler has written to it in vain.
* `GuardsAgree`, `DataKept`: the assertions of the four routines never fail, whatever the program
  writes into its buffers, and `tprealloc` keeps the data.  `WellGuarded`: every block of the program's is as
  large as its two guards say.

## 5. What is proved

TLAPS checks the following for all values of the constants.

**The switchboard** (SwitchboardTheorems, from the lemmas of SwitchboardProofs, about the handlers that
add to the tables, DeletionProofs, about those that delete, and CallsProofs).  `TablesConsistent` is `Spec => []IndInv`; the other invariants
of `tables`, and `WaitsEverywhere`, follow.  `NoTransactionIsLost` is `Spec => TransactionFate`, and `CallsImplemented` is
`Spec => ImplementsCalls`: the initial states map to initial states, and from consistent tables every handler maps to a step
of Calls or to a stutter.  The only assumption is `SwitchboardConstants`: roles are about clients, and
null, freed and real pointers differ.  The sets of clients, services, routines and transactions
are arbitrary.

None of the properties is inductive by itself.  `WaitqHomogeneous` needs that the request
`send_to_worker` queues is not yet on a queue (`Reading`) and that a pointer that
is not `Freed` points to a live transaction (`PointersLive`).  `NoMissedReply` needs to know what
`wait4` means: a client that takes commands outside a service routine has none, and neither has a
worker in a wait queue (`Quiet`).  `RepliesCompleted` needs that a result whose data is being read
already has its value (`Returning`).  `Disconnected` is needed when a connection is
accepted.  `IndInv` is their conjunction.  There is one lemma per handler.  The handlers that delete
transactions (`svrgetrply`, `part2`, `svrunadvertise`, `del_client`) share `FreeingInv`:
`Deleted` describes element by element what deleting a set of transactions does to the tables,
`Freeing` bounds what such a handler may do besides, and together they preserve `IndInv`.
All that is used of deletion from a sequence is in `QueueLaws`: `Without` gives a sequence
of the same type, without exactly those members, and keeps the last one if it stays.  The lemmas about handlers
assume it, and `QueueLawsHold` proves it, from the library's theorems on finite sets.

`TransactionFate` and `ImplementsCalls` need `IndInv` where a handler deletes: that a transaction which is queued for
a service is a request of a client that is still there (`TransactionsOwned`), that what waits for a service that goes is
meant for that service (`WaitqHomogeneous`), and that a result which is being returned belongs to a live
transaction (`PointersLive`).

`NoRequestIsForgotten` is `Spec => []NoneForgotten`, and `SomebodyMoves` is `Spec => []NotAllWait`.  They need, besides
`IndInv`, the invariant `AttendInv`.  `NoneForgotten` is carried from one holder of a request to the next: `send_to_worker`
hands it to a queue or a worker, `svrservice` takes it from a queue (where it stays as well, section 6), `part2` turns it into
a reply.  The difficult step is `del_client` of a worker.  It fails what the worker executes, so it has to be known that a
worker with a request in hand is the request's `executor`, or that this field is `Freed`: the worker has unadvertised the service
in the meantime, and `del_client` would go through a freed pointer.  For the other clients, `Steady` says what a handler may not touch if what they attend to is to stay attended to.
`NotAllWait` then follows: a request in hand has a worker that is not hanging.  One that is queued is for a service that somebody
advertises (`ServiceKnown`, `ServicesAdvertised`); the one who does is a worker (`Roles`), and if it were hanging, it would
be waiting in the queues of all its services (`Resting`), which `WaitqHomogeneous` excludes beside a queued request.
The condition that callers and workers are different clients is part of the two properties, not an assumption on the constants.

**The lists** (LinkedQueueProofs), for any lists and any finite number of links.  `AlwaysCircular`: next and previous are inverse to
each other.  `AlwaysWellLinked`, `AlwaysSameBackwards` and `LinkedQueueImplementsLists`: the pointers hold lists, forwards
and backwards, and each of `qappend`, `qprepend` and `qdelete` is the step of Lists that it stands for.  `Circular` does
not suffice for these: pointers that are inverse to each other may form a circle without a header.
`WellLinked` says which lists the pointers hold (`Represents`), and the lemmas `Inserted` and `Deleted` what becomes of them
when a link is put in or taken out anywhere.  Then the traversal of `queue.h` has to give these lists (`WalksAre`).  It is
a recursive function; instead of an induction over the list, `VisitedIs` takes the first step at which the traversal would
be at another link, which exists because the natural numbers are well-founded, and derives a contradiction.

**Call descriptors** (DescriptorsProofs).  `EqualCdsShareFilling` is `Spec => []FillingsApart`, for any length of the list, any
numbers and any repetitions.  It is proved together with its strengthening `LeftApart`: an entry that is still to be given out may equal
a current cd only if that is from the same, the last, filling.  `LongsArrive`: with bytes of eight
bits, `tolong` of what `writel` wrote is the number, for all signed 32-bit numbers.
`CdsLeadBack` composes the two: with 16-bit shorts, `svrgetrply` finds the transaction the client means, and beside it only ones
from the same filling.  `CdsAreNoErrors`: `tpacall` returns no number that looks like an error, because no
entry that is given out is zero and two bytes read as an unsigned short are never negative.

**The connections** (WireProofs).  `BothInStep` is `Spec => []InStep`, for any number of connections, any lengths
of data and any widths of names, shorts and longs; `CommandsAreInStep`, `AnswersAreInStep`, `DeletedOnlyAtEnd`
and `NoDeadlockOnTheWire` follow.  All five assume that services end with TPSUCCESS or TPFAIL, and they need it: with TPERRNO `AnswersInStep`
is false (`wire_errno`, section 6).  `CommandsInStep` and `AnswersInStep` speak of the places where nothing should be left
over; to get there from one message to the next one has to know what is between the two ends everywhere else.  `InStep`
says it (`Stream`): first what the handler of the connection is still to get of its message (`Rest`), then a result, which
`tpreturn` writes without waiting for an answer, then at most one request, whose answer the client is waiting for in the
`tx_read` that fits (`Asked`); or, once the request is answered, a part of the answer that begins where that `tx_read`
begins, and nothing in the other direction except the data that `tpacall` has been told to send (`Answered`).  A client
that died has sent a beginning of this, and one that closed the connection all of it but no request.  There is one lemma per step;
wherever Iowait divides the stream, what it has in its buffer and what is on its way are together the same
(`Pending`).  What the handlers ask for (`command_length`) is compared with what the library writes in `Table` and
`Written`: this is where the two files that are to be kept "co-ordinated" meet.  `NoDeadlockOnTheWire` is
`Spec => []NeverBothWait`.  An answer that has been written is as long as its `tx_read` asks for (`LongEnough`); a request that has not
been answered is whole, and so is all that is before it, so that the handler has enough (`EnoughBefore`).  It needs one more
invariant, `Attached`: only a running switchboard has connections.

**The typed buffers** (TpMemoryProofs).  `AlwaysWellGuarded`, `AlwaysGuardsAgree` and `ReallocKeepsData`, for any size of a
unit, any sizes of buffers and any number of them.  That two guards agree is not inductive: `tprealloc`
and the program address a block by the length in its first guard, so the induction needs that the block has the size
that goes with this length (`WellGuarded`), and, from `ALLOC_UNITS` rounding up, that every byte of a buffer is in
a unit between the guards (`UnitInside`).

**Only model-checked:** liveness (`TpcallReturns`, `CallsReturn`, `GoneAreDeleted`), which the prover does not cover.
`NotAllWait` and `NeverBothWait` are proved and say what is safety in the first two: at no point is there nobody left who can
go on, where no client has been left hanging on the wire.  That the one who can does go on is left to fairness and to TLC.  All other properties of the passing runs
are proved.

## 6. Where the code departs from its comments

Each of these is a run whose property states what the code says of itself.

* `earliest_first`: `find_earliest` (`svrservice.c:39`) compares the wrong way round and
  takes the *latest* of the first transactions.
* `serviced_twice`: a transaction taken from a wait queue stays on it
  (`svrservice.c:96`), is given to a worker a second time, and, once its caller has the reply,
  leaves that worker with a null `wait4`, through which `svrreturn` goes (`svrreturn.c:50`).
* `awaited`: when a service goes, the callers that hang for its queued calls
  are left hanging (`transaction.c:104`).
* `any_reply`: `del_client` compares with the address of a local variable that hides the global one
  (`client.c:57`, `:67`), so a caller that waits for any reply does not get a failed one.
* `cd_unique`: the list of cds is filled with `rand()` and pruned only of the cds of current transactions
  (`transaction.c:74`), so two entries of one filling may be equal, and cds are not "unique over all current transactions".
* `wire_errno`: `snd_reply` writes a return code, a length and data also for `TPERRNO`, and `tpgetrply`
  reads none of it (`tpgetrply.c:47`): the rest is taken for the answer to the next call.

The models contain more of the kind, without a run of their own: a caller that
exits leaves its worker with a null `wait4`; a service that is unadvertised between the two parts of a request is used after
it is freed (`svracall.c:39`); a client that is worker and caller loses the
transaction it services when it gets a reply (`svrgetrply.c:44`), and may fail the assertion at
`svrio.c:62`; a call that is done and not collected keeps the calls behind it from being serviced (`svrservice.c:96`); the search for a cd reads one entry past
the list (`transaction.c:65`; status `"overrun"` in CdPool); `tpgetrply` does not look whether the `tx_read` of its data fails
(`tpgetrply.c:61`), so that it returns as after a reply when the switchboard exits in the middle of one.

## 7. What is not modelled

* Blocking in a write whose reader does not read (`svrio.c:32`), which depends on the socket buffers; interrupted writes.
  The sockets block, so a write falls short only when the other end goes.
* An order among the connections that wait to be accepted, and the limit of five of them (`listen`); `tx_open` may fail at any time.
* Running out of memory, except for a new transaction.
* Pointers to typed buffers that the program does not own.
* Flags other than TPGETANY and TPNOBLOCK; the handlers look at no others.
* How addresses are parsed and looked up, in `main` and in `tx_open`: an address leads to the switchboard or it does not.
  Options and debug output of the switchboard.
* Stubs without state: the `tx_*` demarcation calls, `tpcancel`, conversations.
* `tux` and `dump.c` (diagnostics), and the string reversal of the examples.
* The contents of requests and results; type names of buffers, which are always empty.

## 8. Plan

Done: the modules above.  Next, in this order:

1. A composition of Wire with two connections of Switchboard, so that the two parts of a
   message and the tables are seen together.
2. The tables of Switchboard over a restart of the process: its clients advertise and call again.
