# libpalmsocket: models and proofs

libpalmsocket gives a GLib application asynchronous plain-text and SSL sockets
behind a `GIOChannel`. Its core is one state machine per channel, driven by the
calls of the application and by a file-descriptor watch on the same main loop.
This directory holds TLA+ modules of that core, TLC configurations that check
them, and TLAPS proofs about them. Paths below are relative to the repository,
line numbers are those of the files in `src/`.

| file | what it is |
|---|---|
| `PslCryptoIO.tla` | deferred SSL reads and writes: operators, no variables |
| `PslChannelFsm.tla` | the state machine of a channel, its watch, application and main loop |
| `PslChannelContract.tla` | abstract: what a channel promises the application |
| `PslChannelProps.tla` | properties of the state machine, the refinement of the contract, and what the repository says and the code does not do |
| `PslMultiFdWatch.tla` | the multi-fd watch: operators on a record |
| `PslLookupContract.tla` | abstract: what a host lookup promises |
| `PslHostLookup.tla` | a host lookup session with its watch, c-ares and the main loop |
| `PslChannelWatch.tla` | the application's watch on a channel: operators on a record |
| `PslChannelLifetime.tla` | who keeps a channel, its machine, its watches and its context alive |
| `PslOpensslInit.tla` | initialisation of OpenSSL and shared SSL contexts, between threads |
| `PslHostname.tla` | matching host names and addresses with a certificate: pure operators |
| `PslSslConnection.tla`, `MCSslConnection.tla` | verification of the peer, and the bytes written; its small instance |
| `PslCryptoIOProofs.tla` | soundness of the deferred I/O, one lemma per step |
| `PslChannelProofs.tla` | types and soundness of the deferred I/O in the state machine; balance of the references, existence of the SSL object |
| `PslChannelRequestProofs.tla` | ownership of the descriptor, completion callbacks, the refinement of the contract |
| `PslChannelWatchProofs.tla` | what the channel's watch asks for, who wakes an operation up, what no step may do to the deferred I/O |
| `PslChannelLifetimeProofs.tla` | the references that keep a channel alive, what a watch tells |
| `PslOpensslInitProofs.tla` | OpenSSL's initialisation and contexts between threads |
| `PslSslConnectionProofs.tla` | the wildcard match against its documentation, verification of the peer, the output buffer |
| `PslHostLookupProofs.tla` | the host lookup with its watch, c-ares and the loop: memory, sockets, timer, the contract |
| `ChannelSafety.cfg` `ChannelLiveness.cfg` `HostLookup.cfg` `ChannelLifetime.cfg` `OpensslInit.cfg` `SslConnection.cfg` | the runs that pass |
| the other `.cfg` | one run for each finding |

## 1. The system

### Components

* **Channel API** (`psl_channel.c`). `PmSockIOChannel` has a header with two
  reference counts, that of the `GIOChannel` and `headerRef`. It checks
  arguments and turns each call into an event of the state machine. *Correct if*
  each part is freed once, and not before its last use, from whichever callback
  the last reference is dropped.
* **State machine** (`psl_sme.c`, `psl_channel_fsm_main.c`, `_plain.c`,
  `_crypto.c`). `PslChanFsm` holds the leaf state, the begin argument of that
  state, the user's settings, the descriptor, the watch, the `sslInfo` of crypto
  mode (SSL object, context, deferred I/O) and one scheduled callback. A
  transition runs the exit handlers from the leaf up, the enter handlers and the
  begin handler. *Correct if* references and descriptor are balanced, the watch
  waits for exactly what is deferred, every request completes, and each
  completion callback runs once and tells the outcome.
* **Deferred SSL I/O** (`psl_channel_fsm_crypto.c:2271-3468`). An `SSL_read` or
  `SSL_write` that must wait leaves a state behind (`idle`, `wantRead`,
  `wantWrite`, `error`), for a write also its bytes (up to 16K). Either may want
  either direction of the socket. *Correct if* nothing deferred is forgotten,
  repeated or retried for ever.
* **Multi-fd watch** (`psl_multi_fd_watch.c`). A `GSource` with a set of
  descriptors and a poll timeout; `prepare`, `check` and `dispatch`. *Correct if*
  a dispatch reports what poll() found and the deadline is neither missed nor
  kept.
* **Channel watch** (`psl_channel_watch.c`). The `GSource` an application uses to
  wait for its channel; it derives its readiness from the CHECK_IO event.
  *Correct if* it tells what is ready when it is dispatched, and tells a closed
  channel.
* **Host lookup** (`psl_host_lookup.c`). A c-ares session with a watch of its
  own, which may be destroyed from inside its own callback. *Correct if* it
  answers once, watches what c-ares asks for, and wakes up when c-ares is due.
* **Output buffer** (`psl_io_buf.h`). A linear buffer consumed from its front.
  *Correct if* no byte is lost, repeated or reordered.
* **OpenSSL initialisation, SSL contexts, thread contexts** (`psl_openssl_init.c`,
  `psl_ssl_context.c`, `psl_thread_context.c`, `psl_refcount.h`). Counts shared
  between threads, under a mutex or atomic. *Correct if* OpenSSL is initialised
  while anybody uses it and taken down when nobody does.
* **Peer verification** (`psl_openssl_utils.c`, `psl_x509_utils.c`). Matching a
  host name with wildcards, and a verdict formed over several callbacks from
  OpenSSL. *Correct if* only a trusted peer is accepted and the verdict told is
  the one that was given.
* **Utilities, logging**. Time arithmetic apart, no state.

### How they interact

Everything of one channel happens in the thread of its main loop. The
application calls the API; the call dispatches one event to completion. The loop
polls the watch and dispatches it: `chan_fsm_fd_watch_cb` dispatches FD_WATCH
and then runs the completion callback the event scheduled. That callback may
call the channel again: it may renegotiate, shut down, close or drop the last
reference. The host lookup answers through a callback of its own session. Other
sources of the same loop may call the channel between the `check` and the
`dispatch` of its watch.

### What is hard

* The callbacks re-enter the machine; a second request supersedes the first.
* Two deferred operations share a descriptor, and each may want the direction
  the other waits for; the cached `lastGIOCondition` must agree with the watch.
* Four operations (connect, renegotiate, shut down, lookup) proceed over several
  dispatches and through several phases, each with its failures; every one of
  them must wake up again.
* References are taken by the requester of a transition and returned by the
  exit handlers of the state left, on paths that fail half way.
* Events found by `check` may be stale at `dispatch`.

`PROJECT.json` lists each of these at its line, under "hazards", with the
properties that cover it.

## 2. Modules and code

### PslCryptoIO

A record for the two directions of deferred I/O. An operation of the code is the
*set of its outcomes*, one for each answer OpenSSL may give:

| module | code |
|---|---|
| `CryptoIO` | `PslChanFsmCryptoInput`, `PslChanFsmCryptoOutput`; `pend` is `SSL_pending() > 0` |
| `ReadStep`, `WriteStep`, `HangUp`, `ProcessDeferred` | `crypto_process_deferred_ssl_io` with its locals `freshin`, `freshout` and the hint |
| `ReadLow`, `HandleREAD` | `crypto_read_low`, `crypto_handle_READ` |
| `WriteLow`, `HandleWRITE` | `crypto_write_low`, `crypto_handle_WRITE` |
| `DeferredCondition` | `crypto_schedule_deferred_ssl_io` |

Byte counts are "some" or "none". The loop of
`crypto_process_deferred_ssl_io` is unrolled to write, read, write: the read
step turns `freshout` off only when it has finished the read, and `freshin` is
on then, so there is no fourth look.

### PslChannelFsm

| variable | code |
|---|---|
| `state`, `op` | the leaf state and its `beginArg` and progress (`phase`, `pslerr`) |
| `conf`, `fd`, `closed` | `userSettings`, `pFsm->fd`, `fsmClosed` |
| `desc` | the descriptor at the operating system: what `fd` should agree with |
| `tls`, `io` | `PslChanFsmCryptoSharedInfo`, its deferred I/O apart |
| `ctxRefs`, `initRefs` | references and initialisations this machine holds |
| `watch`, `ready` | the watch source, with `lastGIOCondition`; found ready, not dispatched |
| `cb` | the completion callback being executed |
| `req`, `abort` | monitors: is a callback owed; which `PSL_ASSERT` failed |

`Goto(d, o, y, t, r)` is a transition of `psl_sme.c` with all its handlers:
`RefsReleased` and `WatchAfterExit` are the exit handlers, `CryptoModeScope` the
enter and exit handlers of crypto mode, `RefsTaken` what the `goto` helpers take,
`Begin` the begin handlers. `Stay` is an event that does not leave its state.
Each event then is one action:

* calls of the application: `SetConnFd`, `SetServer`, `SetSockBind`, `Connect`,
  `ShutSock`, `Close`, `Finalize`, `Renegotiate`, `ShutCrypto`, `ResumePlain`,
  `Read`, `RenegRead`, `Write`;
* the main loop: `PollWatch` (prepare, poll, check), `FdWatch*` (dispatch, one
  action per state), `LookupDone`, `CbReturn`.

A renegotiation is a function of its locals in four paragraphs (`RenegInit`,
`RenegFlush`, `RenegHello`, `RenegHandshake`), because a READ and an FD_WATCH
both run it. Any answer of its handshakes may leave application data buffered
(`MayBuffer`), which suspends them until it is read. A shutdown is `Shutdown`.

While `cb` is set the application is inside its callback: the loop does nothing,
and every call but a nested loop is possible. `op.startErr` remembers a failed
`SSL_renegotiate`, which the code forgets; only the property about it reads it.

CHECK_IO changes no state: it is the operator `CheckIO`, from `InputHint` and
`OutputHint` of the deferred I/O and one case per state (`RenegHint`,
`ShutHint`). `ReaderIsTold` puts it together with the channel watch.

Deliberately left out of these two modules: plain-text READ and WRITE, which
keep no state; calls that the current state rejects, which set `lastError` only;
a READ of zero bytes, which only a renegotiation treats specially; main loops
nested inside callbacks; `SSL_shutdown` answering 0 repeatedly (the loop around
it is part of its answer). What the actions leave open is only what the
operating system, OpenSSL, the peer and the application decide; everything the
code decides is a guard or an outcome.

### PslChannelContract

The application's view: `status`, whether a callback is `owed`, and the callback
being run with what it tells. `PslChannelProps` maps `state`, `req` and `cb` to
it and checks `Contract!Spec`. The finding `lookup_lost` shows in the mapping: a
channel that failed in that way still counts as connecting, since its callback
is still owed.

### PslMultiFdWatch, PslHostLookup, PslLookupContract

The watch is a record: descriptor table, poll timeout, `restartTimer`, expiry,
and what GLib knows of it (attached, polled `GPollFD`s). Time is counted in
ticks, several to a millisecond, so that the two roundings (of c-ares' timeout,
and of what is left of the timer) can be told apart. `PslHostLookup` owns one:

| variable | code |
|---|---|
| `ses` | `PmSockHostLookupSession` |
| `watch`, `starter` | its two `GSource`s |
| `ares` | c-ares: query, sockets, ticks until it wants to ask again |
| `loop` | phase of the main loop, sources found ready, timeout of poll() |
| `told`, `asked`, `fault` | monitors |

c-ares may open, update and close sockets and answer inside every call the
session makes, `ares_gethostbyname` and `ares_destroy` included. So a function of
the code is an operator on the record of all it reaches (`World`) that gives the
*set of outcomes*; the user's callback either returns or destroys the session
first. `AfterAres` is how both callbacks of the loop end. The session implements
`PslLookupContract` (with its liveness: it answers unless destroyed), and that is
what `PslChannelFsm` takes a lookup for (`LookupDone`, under weak fairness).

### PslChannelWatch, PslChannelLifetime

`Preflight` is `psl_chan_do_io_readiness_preflight`; `PrepareAndPoll` and
`WhatIsReady` are the callbacks of the `GSource`. `PslChannelLifetime` has the
user, several such watches, the header, the machine, its fd watch and its lookup,
and the thread context, each with its count. Of the machine only its life is
modelled and CHECK_IO gives any answer. GLib holds its lock, not recursive, while
it finalizes a source: `DestroyWidgets(x, locked)` remembers a deadlock. Every
callback of the user may drop, close, watch and unwatch.

### PslOpensslInit

`init` and `locks` are `gInitState`; `call` says what each thread is doing in the
library. A call asks for the mutex (`AtMutex`), takes it (`Lock`) and does its
work and gives it back (`Work*`); contexts are made and destroyed in steps, since
their counts are atomic and not under the mutex. `PmSockSSLCtxUnref` decides on
the value its one atomic operation returns.

### PslHostname, PslSslConnection

`Walk` is the loop of `PmSockX509CheckCertHostNameMatch` with its indices,
written as a recursive function; `SameLabels` is its documentation
(`palmsockx509utils.h`), and `NamesMatchAsLabels` compares them on all short
names. `VerifyHostname` is `PmSockOpensslVerifyHostname`, `IsFor` what its
documentation says.

`PslSslConnection` has two halves of one connection. The handshake: OpenSSL
reports the errors of each certificate in any order, then success, root first,
and stops when refused; `PeerVerifyCallback` is the callback with its resolution
of errors (a missing CRL, an installed certificate, the user). `LetPass` says what
the code lets pass, and `PeerIsTrusted` and `VerdictIsTold` are about that; the
documented rule, which is narrower, is `ExcusedOnlyByInstalledLeaf` (section 4). The output: bytes
are numbered; `SSL_write` takes any part, and when it must wait keeps the record
it made (`held`), to which the retry must give the same bytes. The module that
instantiates it has certificates that match by a wildcard, by an address, by a
common name, not at all, and stores with a lookalike.

## 3. What is checked

| run | states | shows |
|---|---|---|
| `channel_safety` | 351,678 | 11 invariants, 4 action properties and the refinement of `PslChannelContract`, with every kind of connection and callback, `HUP` and `ERR`, and other sources calling between check and dispatch |
| `channel_liveness` | 84,270 | requests complete, deferred output is retried |
| `host_lookup` | 22,762 | the session, its watch and its timer with c-ares and a user who destroys it anywhere; the refinement of `PslLookupContract` with its liveness |
| `channel_lifetime` | 143,936 | nothing is used after it was freed, watches tell what is ready, a closed channel is told |
| `openssl_init` | 32,175 | the count of initialisations and of contexts between two threads, every call returns |
| `ssl_connection` | 123,310 | trust in the peer, the verdict told, the bytes written, the matching of names |
| six violation runs | | the findings of section 4 |

The constants of `channel_safety` are complete: `Kinds` and `Cbs` are all the
connection kinds and callback kinds the code distinguishes (the two legacy
callbacks differ from each other in `switch` going straight back to plain text),
`FailConds` holds all the failure conditions it tests (`HUP` stands for `NVAL`
too, which it treats alike). There is no other bound: the reference counters are
bounded by the invariant they are to satisfy. There is one channel because
channels of one thread share only reference-counted contexts. `channel_liveness`
drops plain connections, callbacks of other kinds and `ERR`, which add no waiting.

The other runs are bounded:

* `host_lookup`: two descriptors, so that a dispatch has several records and one
  can be closed while another is fed; two ticks to a millisecond and a timeout of
  three, so that both roundings happen; c-ares asks again twice, so that the timer
  restarts with its first value and after it; poll() reports up to two conditions of a
  descriptor (`MaxIndicated`), enough for a failure next to a request.
* `channel_lifetime`: two watches, so that one outlives the other and the channel;
  they monitor nothing or `IN` (`OUT` is treated alike); five answers to CHECK_IO,
  one for each kind of hint, with a descriptor and without. The user's references
  to the channel and to the context count as one each.
* `openssl_init`: two threads, one context, each thread holding one of each kind
  of initialisation and one reference (`MaxHeld`); the old OpenSSL (`Legacy`),
  whose locks the library installs, includes what happens with the new one.
* `ssl_connection`: a chain of two certificates, each with any of the two kinds of
  error; a buffer of three bytes, writes of up to five and seven in all, so that a
  write fills the buffer, is truncated and the buffer is used again; names of up to
  six octets over a letter, another, the dot and the star, enough for a wildcard
  and three labels. It does not check for deadlock: a closed connection stops.

Safety, in short:

* `RefsBalanced`, `SslWhereUsed`: references, initialisations, SSL object;
* `DeferredSound`, `DeferredArmed`, `FlushedBeforeControl`: nothing deferred is
  forgotten, the watch waits for exactly that, control records come after data;
* `NoLostWakeup`, `TimerIsReset`, `NoForgottenRequest`: an operation in progress
  is woken up, no busy timer stays on, no callback is forgotten;
* `DescriptorOwned`: closed at most once, never while in use, kept if asked;
* `OnlySslAssertFails`: two of the three assertions on a dispatch hold even with
  other sources;
* `CallbackOwed`, `CallbackTellsOutcome`, `ErrorsStick`, `DeferredByteKept`: what
  no step may do;
* `NothingUsedAfterFree`, `NothingLeaks`, `LivesAsLongAsUsed`, `WatchMatchesAres`:
  memory and sources of the lookup and of the channel;
* `WakesUp`, `TimerNotEarly`: the lookup's timer is neither late nor early;
* `TellsWhatIsReady`: a watch tells no stale readiness;
* `SafeWhileUsed`, `CountIsOwed`, `ContextsCounted`: OpenSSL between threads;
* `PeerIsTrusted`, `VerdictIsTold`, `OutputInOrder`, `NamesMatchAsLabels`: the
  connection.

`NoLostWakeup` asks more of a watched channel than of its own watch: if the
machine waits for the application (`AwaitsReader`), an application that watches
its channel is told at once (`ReaderIsTold`). `NoLostWakeup`,
`NoForgottenRequest` and `RequestsComplete` name the stalls of section 4
(`FlushStall`, `ReadFlushStall`, `WantReadStall`, `LookupLost`) and hold outside
of them, and `AwaitsReader`, the wait for a READ that the code intends.
`PROJECT.json` gives for each property a change to the
model, of the kind a mistake in that code would be, that violates it.

**Fairness.** In `channel_liveness`, weakly fair: the dispatch of a watch found
ready, the return of a callback, the end of a lookup, which the main loop, the
application's own callback and `ImplementsContract` of the host lookup guarantee.
Strongly fair: a watched socket is sometimes reported with all it is watched for,
and a dispatch sometimes gets on (a phase is left, deferred output is written);
this is the cooperating peer, for without it a connection may hang for good
reason. The application owes nothing: no call of it is fair. In `host_lookup` and
`channel_lifetime` the main loop goes round, dispatches what it found ready and
poll() returns at its timeout; no event of a socket is promised, so a lookup ends
by c-ares' own timeouts; time passes (strongly fair, for the loop may stop it
again and again only while it has something to do). In `openssl_init` threads
run, and a mutex that becomes free again and again is taken at last (strongly
fair), which is what a mutex is for.

## 4. Findings

Each is a run that checks one sentence of the repository and finds a behaviour
of the model, that is of the code, that contradicts it. The cause is in
`PROJECT.json`, under "findings", at its line.

| run | what happens |
|---|---|
| `reneg_stall` | a renegotiation begun while a write is deferred resets the watch and waits for that write, which nothing will retry |
| `shut_read_stall` | a READ that meets EOF during the flush of a one-way shutdown finishes the flush and disarms the watch; the shutdown is never told |
| `stale_dispatch` | another source's callback reads or writes the channel between check and dispatch; the assertion "exactly one pollrec" fails |
| `start_failure` | the error of `SSL_renegotiate` is stored after it was looked at, and overwritten |
| `lookup_lost` | a lookup that succeeds without a usable address fails the connection without calling the callback |
| `installed_issuer` | `kPmSockCertVerifyOpt_fallbackToInstalledLeaf` is documented to ask whether the peer's certificate is installed; the code asks that of the certificate the error is about, so an installed issuer excuses its own errors for a peer that is not installed |

One more stall has no run, because no sentence of the documentation speaks of it:
a deferred write that wants to *read* (`wantRead`) is watched for input, but
`crypto_process_deferred_ssl_io` retries a write only on output
(`psl_channel_fsm_crypto.c:2789-2794`), so the watch fires again and again and
nothing is retried. `WantReadStall` names it where a shutdown waits for that write,
and `RequestsComplete` fails without that name; `DeferredOutputRetried` is about
`wantWrite` only.

## 5. What is proved

For every value of the constants. The assumptions are types (`KindsAssumption`,
`CbsAssumption`, `FailCondsAssumption`, `OtherSourcesAssumption`,
`ConditionsAssumption`, `ConstantsAssumption`, `SizesAssumption`,
`PartiesAssumption`) and that names do not clash (`NamesAssumption`); the watches
of a channel are finitely many (`WatchesAssumption`), and so are the descriptors
of a process (`FdsAssumption`); a millisecond has at least one tick
(`TicksPerMilliAssumption`), and c-ares waits at least one (`AresAssumption`).

| theorem | module | argument |
|---|---|---|
| `ProcessDeferredSound`, `HandleREADSound`, `HandleWRITESound` | `PslCryptoIOProofs` | the locals of the loop stay in `Locals`: sound I/O, and an operation not yet looked at is pending; from any answer of OpenSSL |
| `TypeCorrect`, `DeferredAlwaysSound` | `PslChannelProofs` | `TypeInv` is inductive |
| `ReferencesBalanced`, `SslAlwaysThere` | `PslChannelProofs` | `RefInv` is inductive, given `TypeInv` |
| `DescriptorAlwaysOwned` | `PslChannelRequestProofs` | `SockInv` is inductive, given `TypeInv` |
| `RequestsRemembered`, `CallbacksOwed`, `CallbacksTellOutcome` | `PslChannelRequestProofs` | `ReqInv` is inductive, given `TypeInv` and `SockInv` |
| `ContractImplemented` | `PslChannelRequestProofs` | each step maps to a step of `PslChannelContract` or to a stutter |
| `WatchAsksForDeferred`, `OutputBeforeControl`, `TimerAlwaysReset`, `AlwaysWoken` | `PslChannelWatchProofs` | `WatchInv` is inductive, given `TypeInv`, and implies each |
| `OtherAssertionsHold`, `FatalErrorsStick`, `DeferredByteReachesReader` | `PslChannelWatchProofs` | every step satisfies `StepOK` |
| `TypeAlwaysOK`, `NothingEverUsedAfterFree`, `LivesAlwaysAsLongAsUsed`, `WatchesTellWhatIsReady` | `PslChannelLifetimeProofs` | `LifeInv` is inductive |
| `TypeAlwaysOK`, `AlwaysSafe`, `CountAlwaysOwed`, `ContextsAlwaysCounted` | `PslOpensslInitProofs` | `Inv` is inductive |
| `MatchIsDescribed`, `DescribedIsMatched` | `PslSslConnectionProofs` | the walk is `Accepts`, for names of any length |
| `TypeAlwaysOK`, `OutputAlwaysInOrder`, `PeerAlwaysTrusted`, `VerdictAlwaysTold`, `NamesAlwaysMatchAsLabels` | `PslSslConnectionProofs` | `VerifyInv` and `OutputInv` are inductive, each alone |
| `LookupTypeCorrect`, `LookupUsesNothingFreed`, `WatchFollowsAres`, `LookupLeaksNothing`, `LoopWakesUp`, `TimerIsNotEarly` | `PslHostLookupProofs` | `LookupInv` is inductive |
| `LookupKeepsContract` | `PslHostLookupProofs` | each step is one of `PslLookupContract` or a stutter (`Promised`): its safety, not its fairness |

**The state machine.** `TypeOK` is not inductive alone: the retry loop is
well-typed only on sound deferred I/O, so `TypeInv` joins it with
`DeferredSound`. Nor is either of `RefsBalanced` and `SslWhereUsed` without the
other: a failed handshake returns two references if there is an SSL object and
one if there is none, and `RefInv` adds that object and context come together and
that only an encrypted connect reaches the handshake. `SockInv` adds to
`DescriptorOwned` that the machine holds the user's descriptor from the moment it
gets it until it is closed; otherwise a socket made by PLAIN_CONN might replace
it. `ReqInv` says that a callback is owed exactly while an operation that was
given one is in progress; `FdWatchOutcome` carries its proof: a dispatch ends the
request with its outcome or goes on with it, and never touches the descriptor.
The contract needs `CallInv` besides, on which states a callback can be called
from; then the status of each state says which step of the contract it is.

`WatchInv` says what each state, and each phase of a renegotiation or shutdown,
asks its watch for. It needs that the cached `lastGIOCondition` is what the watch
asks for wherever the cache is used. The two stalls of section 4 are part of it,
as they are of `NoLostWakeup`. What it takes from the retry loop are two lemmas
about `ProcessDeferred`: an error stays one and the byte stays until it is read
(`Onward`), and bytes to be flushed are never hidden (`Shown`).

**The lifetime.** `LifeInv` has an equation for each count: the header is held by
the user and by the watches that exist, the machine by the header and by its
callback being run, its watch by its context, by the machine and by GLib during a
dispatch. `NothingUsedAfterFree` follows because no operator writes to `fault` in
a world whose counts are right, and `LivesAsLongAsUsed` because a count is zero
only if nobody is left. Each operator of the model has a lemma that says what it
makes of such a world.

**OpenSSL.** A debt is an initialisation held, one being undone, or one of a
context. `Inv` says that `refCount` is the number of debts, and where each thread
may be while another holds the mutex. Every step adds or removes one element of
one of three finite sets.

**Names and certificates.** A recursive function is what its equation says only if
some function satisfies the equation. `Accepts` is one that needs no recursion,
so the walk exists, and by induction on what is left of the certificate's name
(a least counterexample) it is `Accepts`. The documentation describes it exactly,
but for a host whose own name has a star, which the walk compares as a character
before it tries the wildcard; so the converse, and `VerdictAlwaysTold`, which
rests on it, assume a host without one. `ChainInv` says that whatever OpenSSL
need not report any more was excused.

**The buffer.** `OutputCounts` says that what was sent, and what is buffered
behind it, count from one, and that what OpenSSL holds is the beginning of the
buffer; so for every capacity and all partial writes.

**The host lookup.** `LookupInv` says what a session is between callbacks: none,
not started, waiting for its idle source, waiting for c-ares, or answered; and
what it then holds of watch, channel and timer. Inside a callback that does not
hold, so each operator of the model has a lemma on every one of its outcomes:
`Asking`, `Waiting` and `Over` are what a session may be while c-ares is in
control, and `Settles` leads back. `NothingUsedAfterFree` is part of the type of a
world (`fault` is empty), so it must be shown of each intermediate one. Feeding
the descriptors one by one is a recursive function; that it exists, and that every
outcome is sound, is an induction on their number.

The timer is two facts that lean on each other. `TimerOK`: c-ares is due no later
than what the watch will wait, through both roundings, whether the timer runs or
is yet to be started; it gives `TimerNotEarly` (an expired timer without
descriptors finds c-ares due). `PollOK`: while the loop polls, the timer has been
started, and the loop sleeps less than a millisecond longer than what is left of
it; it gives `WakesUp`, and that the assertion of the check
(`psl_multi_fd_watch.c:675`) never fails.

All these invariants were checked with TLC on the constants of their runs before
they were proved.

**Only model-checked.** Liveness, for which the prover has no rule:
`RequestsComplete`, `DeferredOutputRetried`, `CallsReturn`, `ClosedIsTold`, and
that a lookup answers, in the `ImplementsContract` of the host lookup
(`LookupKeepsContract` proves the rest of it). Every invariant and every action
property that a run checks has a theorem. The findings are counterexamples.

## 6. Plan

The components are modelled as far as section 7 says; what is left:

1. That the one-descriptor watch of `PslChannelFsm` is `PslMultiFdWatch` on one
   descriptor: a lemma for each of its operators.
2. That what `PslChannelFsm` does with a lookup (`LookupDone`, a lookup destroyed
   with the connection) are steps of `PslLookupContract`, for which
   `PslHostLookup` stands.

A run still worth having: whether a descriptor that keeps reporting `G_IO_ERR`
alone makes the crypto states spin, as a liveness property.

## 7. Not modelled

* The error path of `PmSockCreateChannel`: its only failures are `g_new0` and
  `g_strdup`, which abort, so no state reaches it.
* `psl_io_buf_extend_if_possible` and `psl_io_buf_truncate_data`: the library
  never calls them.
* The loop around `SSL_shutdown`: its end depends on `SSL_want`, which is
  OpenSSL's.
* Verification inside `SSL_read` when the peer renegotiates, and in a second
  handshake: `PslSslConnection` has the first handshake.
* What the user's `lifecycleCb` may set on the SSL object
  (`psl_channel_fsm_crypto.c:1529-1552`): a session it resumes is accepted without
  `crypto_ssl_peer_verify_callback`, and a server for which it asks for client
  certificates calls it. In `PslSslConnection` a client is shown every certificate
  (`HandshakeDone`) and a server none.
* Plain-text READ and WRITE (calls of `recv` and `send` without state),
  `lastError` and its `GError`, logging, tables of error texts, `GMainContext`
  lookup, priorities and starvation of GLib's sources.
* The user's callbacks of the verification calling the channel back, which
  `palmsocket.h` forbids.

Read alongside: the verification callback is documented as called "only from the scope of
palmsocket's own GSource dispatch, and never from the scope of the user's
function call" (`palmsocket.h:313-316`). A READ during a renegotiation runs the
handshake on (`psl_channel_fsm_crypto.c:1250`, the action `RenegRead`), so
`SSL_do_handshake` may call it from inside the application's read. The state
machine does not model that callback, so no run shows it.

## 8. Running

    tlc -workers 2 -config ChannelSafety.cfg PslChannelProps.tla
    tlc -workers 2 -config SslConnection.cfg MCSslConnection.tla
    tlapm PslChannelRequestProofs.tla
    tlapm PslHostLookupProofs.tla

`HostLookup.cfg`, `ChannelLifetime.cfg` and `OpensslInit.cfg` go with the modules
of the same names. Every run takes at most about a minute; the proofs together
several minutes.
