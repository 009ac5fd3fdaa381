# mining_proxy: a verification project

TLA+ models of mining_proxy, the TLC configurations that check them on small
instances, and theorems about them that TLAPS checks for every value of the
constants. `PROJECT.json` lists the runs, the theorems, the source lines each
definition models, the mutants each property was tried on, and the hazards
the properties are for. Line numbers below are of the repository.

## The system

mining_proxy sits between Ethereum miners and a mining pool. It forwards the
pool's jobs to the miners and the miners' shares to the pool, and in some
rounds, drawn by lot, it hands a miner a job of a *fee pool* instead: the
operator's, or the developer's. A share is then routed by the id of the job
it solves. A web server (the parent) starts one proxy process (a child) per
stored configuration and shows the workers each of them reports.

| component | source | state | operations |
|---|---|---|---|
| miner session | `core/src/client/handle_stream.rs`, `tcp.rs`, `tls.rs`, `encry.rs` | fee-job lists, `Worker`, two sockets | the `select!` loop: a request of the miner, a line of the pool, a timer; the accept loops that spawn it and report its end |
| worker state | `core/src/state/mod.rs` | counters, online flag | login, logind, clear_state, offline, the counters |
| fee pool tasks | `core/src/client/fee.rs` | pool connection, `Receiver` of the share channel | a job arrives, a share is forwarded, log in again, ask for work |
| job queues | `core/src/proxy/mod.rs`, `main.rs:360-361` | `Arc<RwLock<VecDeque>>` per fee pool | `push_back` by the fee task, `back()` by sessions |
| pool selection | `client/mod.rs:58-380` | the dialling task's place in the address list, the runtime's threads | parse the list, dial its addresses in order, TLS handshake, login to a fee pool |
| process start and supervision | `mining_proxy/src/main.rs:60-455`, `util/mod.rs:329-367` | the processes, their ports, their feed connections | start the stored proxies, bind the feed and web ports, kill the children, bind a proxy's ports, end |
| status feed | `main.rs:464-542` | `worker_tx`, a TCP connection, the parent's table | `send_to_parent`, `recv_from_child` |
| web: proxies | `core/src/web/handles/server.rs:18-280`, `main.rs:115-205` | `configs.yaml`, `AppState` | `crate_app`, start of the stored proxies |
| session without fee, session for one wallet | `handle_stream_nofee.rs`, `handle_stream_all.rs` | protocol, last request id, `Worker` | a `select!` loop like the first; compiled, but no live path calls them |
| encrypted relay | `client/monitor.rs`, `monitor/src/main.rs` | two sockets | relays lines both ways |
| fee arithmetic | `util/mod.rs` | none | `is_fee_random`; others that no live path calls |
| settings | `util/config.rs` | none | `check`, `check_net_work` |
| web: dashboards, users | `server.rs:282-514`, `user.rs`, `auth.rs` | none | sums over the table; a JWT |
| `handle_stream_timer.rs` | | | not in the module tree: no build contains it |
| logging, build scripts, message types | `util/logger.rs`, `utils`, `build.rs`, `protocol/stratum.rs`, ... | none | |

How they interact: sessions and fee tasks share the job queues (under a tokio
`RwLock`) and one bounded channel of 15 shares per fee pool; sessions send
clones of their `Worker` on an unbounded channel to the status feed, which
writes them to a TCP connection with the parent; the parent's handlers and
`recv_from_child` share the `AppState` (under a mutex), and the handlers share
`configs.yaml` (under nothing). All tasks of a process share its few runtime
threads, which a blocking connect occupies, and processes started at different
times compete for TCP ports.

What is hard here, and what would make each component correct:

- *Sessions.* A share must never be paid to the wrong pool, though the lists
  it is looked up in are trimmed by a timer, ids may coincide, and the
  session, the miner and the pool go on at their own pace. Counters are set
  at three places (request, reply, login reply) that may come in any order.
  A session ends at a dozen places and must always report it.
- *Fee tasks.* The channel may be full, the pool may hang up while shares
  are queued, the login may fail. Shares must be forwarded in order and once.
- *Job queues.* A session holds a read guard while it writes to its miner,
  who may not read; the fee task needs the write lock in the same loop that
  empties the channel, and in that loop it also awaits writes to its pool and
  logins, which have no timeout.
- *Status feed.* The table must follow the newest report and hold no ghosts,
  though it only knows names.
- *Configurations.* The file and the table must agree, also when handlers
  interleave, when a system call fails, and when the process ends at any step.
- *Pool selection.* A pool that is silent holds a thread for 60 seconds, and
  the fee tasks dial on the thread that also accepts miners. Every address must
  have its turn, and a pool that works must be found.
- *Supervision.* Children outlive a crashed parent and hold their ports; the
  feed, the web port and the proxies' ports are all taken by whoever is first.
  A proxy must never be served twice, or half.
- *The other session loops.* Requests are pipelined, while the loop remembers
  the id of the last one only and tells replies apart by constants.
- *Relay.* One task serves both directions with single `write()` calls, which
  may take part of a line.

## The modules

### WorkerState

The record `Worker` and its methods, without variables. Names are model
values; times, hash rate, wallet and protocol tag decide nothing and are left
out. `fee_invalid_index` is not there: nothing live changes it.

### FeeExchange

The core: the sessions of `Miner`, their connections with the main pool, and
the two fee tasks. Each handler of the `select!` of `handle_stream` is one
action. That is faithful: while a handler awaits, no other handler of that
session runs, and what other tasks do meanwhile commutes with what is left of
it, with one exception, the guard on the job queue, which has a module of its
own (JobLock).

| variable | code |
|---|---|
| `open`, `worker`, `lists` | the session task and its locals `worker`, `fee_job`, `dev_fee_job` |
| `reported` | the online flag of the `Worker` last put on `worker_tx` |
| `poolUp`, `toPool`, `fromPool` | the session's connection with the main pool |
| `known` | job ids the miner received, ever: it may submit old ones, from an earlier session too |
| `jobQ`, `chan` | `Proxy.fee_job`/`develop_job`, the channels `tx`/`dev_tx` |
| `feeUp`, `got` | a fee task's connection and what arrived at the pool |
| `alive` | `try_join!` has not returned |
| `nonce`, `handed` | history: shares submitted; all fee jobs a session handed out |

| actions | code |
|---|---|
| `Accept`, `MinerGone`, `PoolGone` | accept loop and `transfer`; every way `handle_stream` returns |
| `SubmitLogin`, `SubmitDevWork`, `SubmitFeeWork`, `SubmitMainWork`, `GetWork`, `SubmitHashrate` | the first branch, one per method; `mining.subscribe` does what `eth_getWork` does |
| `HandOutFeeJob`, `ForwardJob`, `ReadReply` | the second branch; the lot of `is_fee_random` is a nondeterministic choice |
| `Timer` | the third branch |
| `FeeJobArrives`, `ForwardShare`, `ForwardShareLost`, `ForwardShareFails`, `Relogin`, `ReloginFails` | the loop shared by `fee_tcp`, `fee_ssl` and `develop_fee_ssl` |
| `PoolPushJob`, `PoolAnswer`, `PoolClose`, `FeePoolClose` | the pools, external |

Left out: replies to the miner (always `true`, no decision reads them), the
wallet and hash-rate rewriting, malformed lines, bytes. What is promised:

- `ListsAreTails`: a fee list is the tail of what the session handed out,
  complete or at least `Limit + 1 - Cut` long (251 in the code).
- `NoRecentFeeShareToMain`: no submit sent to the main pool is for one of
  that many newest fee jobs.
- `FeeSharesAreEarned`: a fee pool only gets shares of jobs it issued.
- `FeeSharesInOrder`: in the order of submission and none twice.
- `NoMainShareAstray`: a share counted is accepted, rejected or on its way.
- `NoOnlineReportAfterEnd`: a session that is over was last reported offline.

### JobBoard and JobLock

JobBoard says what the shared queue promises and what FeeExchange takes for
granted: jobs are published one after the other and a miner is handed, in one
step, the newest. JobLock has the lock: a FIFO of waiters (tokio's `RwLock` is
a fair semaphore), read guards kept while the session writes to its miner,
whose socket holds `Sock` lines, and the fee task's loop with everything it
awaits.

| variable | code |
|---|---|
| `pc`, `held` | where a session is: at its `select!`, awaiting the guard, writing the fee job under it, writing something else; the job it writes |
| `task` | where the fee task is: "select", "lock" (`write().await`), "send" (a write to its pool), "login" (dialling, handshake, login), "over" |
| `unread`, `feeUnread` | lines in the sockets of the miners and of the fee pool, which hold `Sock` and `FeeSock` |
| `waiters`, `readers`, `published`, `chan`, `last` | the lock, the length of the queue, the share channel, what each miner was handed |

| actions | code |
|---|---|
| `FeeRound`, `ReadLock`, `FeeJobWritten` | a job of the main pool in a fee round |
| `OtherLine`, `FeeShare`, `MainJobWritten` | any other request or job, and a share put in the channel |
| `SessionEnds`, `Accept` | the ends of a connection that a session can notice, and the next one |
| `JobArrives`, `PushJob` | the arm of the pool's lines |
| `TakeShare`, `GetWork`, `Sent` | the arms of the channel and of the timer, and the return of their write |
| `PoolLost`, `LoggedIn` | the end of the pool's lines, and the new login |
| `ProcessEnds`, `Over` | an error of any branch of `try_join!` |
| `MinerReads`, `FeePoolReads` | the peers, external |

It shows `HandedJobIsNewest`, that it implements JobBoard (`BoardSpec`, where
`last` is what the miner received), and, *if the peers read*, that the fee task
gets its lock (`FeeTaskGetsLock`), that a full channel drains or the process
ends (`SharesDrain`), and that every session comes back to its `select!`
(`SessionReturns`). What the peers owe is not in the specification but a premise
of the property that needs it: `MinersRead` of all three, and of `SharesDrain`
also `FeePoolServes`, that the fee pool reads its socket and that a login to it
comes to an end. None holds without: one miner that stops reading, its
connection open, holds up the fee task and every session behind it, and a fee
pool that stops reading holds up the shares of all miners.

### StatusFeed

One proxy process and the parent. `queue` is `worker_tx`, `wire` the TCP
connection, `workers` the `Vec<Worker>` of the parent's table, `registered`
that `crate_app` has entered the proxy. A report is a name and an online
flag. `mayUse` says under which names a session logs in. `told`, `latest` and
`dropped` are history: which sessions reported themselves online, what was
reported last about a name, and of which names the last report to arrive came
before the proxy was in the table, where `recv_from_child` throws it away
(`main.rs:534-535`).

Once nothing is on its way, the table says of every name what was reported last
under it (`EntriesAreLatest`), and with names of their own it shows exactly the
running sessions that reported themselves online (`TableMatchesSessions`). In
both, the names in `dropped` are the only exception: such a session is left out
until it reports again. `ReportsAreShown` is the liveness of the path, for
reports of either kind. `Send` hands on a whole line: that `main.rs:481` is a
single `write()` whose count is not looked at, so that a full socket could tear
a line, is not in the model.

### ConfigStore

`crate_app` from the opening of `configs.yaml` on, one action per system call,
because the web server runs handlers on several threads and there is no lock;
`Threads` bounds how many are at work. Files are inodes, so that a handler
that holds a removed file open is modelled as it happens.

| variable | code |
|---|---|
| `pc`, `name`, `handle`, `list` | a handler: its place, `proxy_name`, the open `File`, the list it will write |
| `path`, `content` | which inode `configs.yaml` names, and what each holds: a list (`Text`), text that does not parse (`Garbled`), bytes that are no text (`Binary`) |
| `table` | the proxies in `AppState` |
| `up`, `crashes` | the web server's process |

| actions | code |
|---|---|
| `Begin`, `Open` | the handler gets a thread; `OpenOptions::open` (`server.rs:126-131`) |
| `Create` | `File::create` when there is no file (`server.rs:132`). Its handle cannot be read, so `read_to_string` fails, and the other branch runs (`server.rs:226-277`): a list of the one new name, searched for nothing, written to that handle |
| `Read`, `ReadFails` | the list and the search for the name; a file that is not UTF-8 takes the other branch, too, and is written behind its end |
| `RemoveFile`, `Reopen`, `Recreate` | `server.rs:165-178` |
| `Write`, `WriteBehind` | `write_all`. Nothing truncates: a file that another handler filled meanwhile keeps its tail, which may be whole entries (`Overwritten`) |
| `WriteFails`, `Panic` | the error arms of `write_all`, the file holding any part of the text, and the two panics when no file can be created |
| `Run`, `Insert` | `run_server`, which may fail, and the table |
| `Crash`, `Start` | the end of the web server at any step, and `async_main`, which starts what is stored |

One handler at a time keeps table and file in step (`TableIsStored`) and never
creates a name twice (`NoDuplicateProxy`), whatever list was found, also across
ends of the process at any step and processes that cannot be spawned. Both have
the premise `Undamaged`: no request of this web server ended after it removed
the file and before it wrote the new one, and the file is text. Without it
neither holds: the panic at `server.rs:176` leaves no file at all, a list
written in part does not parse and is taken for an empty one, and the table then
has names that the next handler does not find in the file. A missing file at
the start is no exception, although that branch searches for nothing: with one
handler and no damage the table is empty then. Left out: the fields other than
the name, and reads that fail for another reason than the bytes of the file.

### PoolConnect

The tasks of one proxy process while they look for a pool: miners' sessions,
which run on the runtime's `Workers` threads, and fee tasks, which are branches
of `try_join!` and run on the main thread with the accept loops.

| variable | code |
|---|---|
| `addr` | `pool_address`, `share_address`: entries of a scheme and a URL |
| `cond` | what a pool does to a connect: accept, refuse, nothing (external) |
| `pc`, `at` | where a task is, and the entry of the list the loop over the addresses has come to |
| `stream` | the type the whole list was given, by which the stream is wrapped |
| `inbox` | a line of the miner an open session has yet to forward |
| `doing` | an open session's handler: at its `select!`, awaiting a write or a guard for the miner's line or for one of the pool, or free to go on |
| `alive` | `try_join!` has not returned |
| `tried` | history: addresses this pass could not use |

| actions | code |
|---|---|
| `Knock`, `Accept` | the kernel's queue, and the accept loop, which needs the main thread |
| `Dial` | `get_pool_ip_and_type_from_vec` and the first connect |
| `Connected`, `Unreached` | the outcomes of `connect_timeout`, a blocking call: from `Dial` to here the task holds its thread (`HasThread`) |
| `Handshaken`, `HandshakeFails` | `get_pool_stream_with_tls`, awaited and without a timeout |
| `LoginWritten`, `LoginFails` | `proxy_pool_login`, `dev_pool_ssl_login` |
| `MinerSends`, `Take`, `TakePoolLine`, `PeersGoOn`, `Finish` | a line arrives; a branch of the `select!` takes one; those its writes and its read guard wait for let it go on; the handler is done |
| `HangUp`, `FeePoolCloses` | how a session and a fee task's connection end |

The process runs, so at first each fee task is connected to some entry of a list
that has one (`FeeListAssumption`); the sessions' list may be empty or unusable.
An entry without `//` gives no address (`Named`) and is passed over.

Promised: `StreamIsUnderstood` (a list of one scheme, honestly written, never
leads to a stream its pool does not speak), `GivesUpOnlyAfterAll`,
`LinesForwarded` and `AcceptsAgain` (blocking connects only delay the others),
and `BackupServes` (a pool of a `tcp://` list that stays up is reached whatever
those before it do). `LinesForwarded` has the premise `PeersServe`: what a
handler awaits of pool, miner and job queue (`handle_stream.rs:103-147, 206`)
is granted in the end; a peer that does not read holds its session for ever. A
mixed list has the type of its last entry, which is why the first and the last
speak of uniform lists only.

### StratumSession

The two loops that hand out no fee jobs, `handle_stream_nofee` and
`handle_stream_all`, told apart by `mode`. The first request decides
`protocol`; `rpc_id` is the one id the loop remembers. One action per branch
and method: `EthLogin`, `EthSubmit`, `EthSubmitAll`, `EthGetWork`,
`StratumLogin`, `LoginAll`, ..., `Swallow` for a first request that leaves the
protocol undecided; `ReadEth`, `ReadStratum`, `ReadNicehash`, `ReadUnknown` for
a line of the pool; `Timer`; `End`. `replies`, `forwarded`, `waiting`, `serial`
and `answered` are history. Promised: a miner that waits for its answers gets
each under the id it asked with, in every protocol (`AnswersMatchRequests`); a
share it was told is good was sent (`PraisedSharesWereSent`, which excepts
`eth_submitWork` in mode "all", where the call is commented out);
a worker is reported online only after a login was answered
(`ReportedOnlineIsAnswered`); and counters fall back only then
(`CountersResetOnlyAsLogin`). The loops take bare bools for the answer to the
login: in STRATUM any, in NICEHASH one in answer to a request passed on, such as
`mining.extranonce.subscribe` (`handle_stream_nofee.rs:617-621, 730-732`), which
therefore puts a worker online that never logged in. The two properties name
these cases and say that there are no others.

### MonitorRelay and LinePipe

LinePipe is what a direction of a relay promises: lines come out in order, none
twice, none made up of others, and none missing as long as no write fell
short. MonitorRelay is one connection of `monitor`: `pc` is the task (`select!`,
or in a write of either direction), `inq` and `out` the sockets, a line being
two chunks so that a `write()` can take part of it. `Read`, `ReadBinary`,
`ReadEof`, `IdleTimeout`, `Write`, `WriteFails`, `Connected` and `ConnectFails`
are the code; `Sends`, `Receives` and `HangsUp` the peers. A torn line and the
next one together are `Garbled` to the peer, after which it is in step again;
without a short write that never happens. `BothWaysArePipes` is the refinement
of both directions at once, `EndsTogether` that no side is left connected alone.

### Supervision

`Instance` are the starts of the web server, which may overlap; `Child` are the
proxy processes, named by who started them and for which proxy.

| variable | code |
|---|---|
| `par`, `next` | how far `async_main` of an instance is; the stored proxies it tried to start |
| `table` | the proxies in its `AppState` whose child it has not killed |
| `feed` | who listens on 127.0.0.1:65501 |
| `pc`, `held` | how far `tokio_run` of a child is; the ports it has bound |
| `conn` | the one connection of its `send_to_parent` |
| `failed`, `crashed` | history: children that failed by themselves, instances that crashed |

| actions | code |
|---|---|
| `Start`, `Spawn`, `Spawned` | `async_main`, `run_server`, whose error is only logged |
| `BindFeed` | `recv_from_child`, a task of its own: a taken port is `process::exit(1)`, and the children stay |
| `BindWeb`, `Kill`, `KillFails`, `Bail` | the web port; when it is taken, `kill().await?` for one entry of the table after the other, which may fail and leave the loop, and the end of the process after the last (`main.rs:190-201`) |
| `Crash` | any end of the parent: there is no `kill_on_drop` |
| `StartUp`, `StartFails`, `Bind` | settings and fee-pool logins; the ports in the order they are bound, or `process::exit(1)` |
| `Connect`, `Report`, `TaskFails` | the feed connection, opened once and never again, whose failing write panics; an error in `try_join!` |

Promised: a process that serves has all its ports and shares none
(`WholeOrNothing`), no proxy is served by two processes (`OneProcessPerProxy`),
a web server that came through the loop that kills its children leaves none,
since whoever runs was in the table (`WebFailureLeavesNone`; if a `kill()`
fails, the rest stays), a serving process ends only by its own parent, feed or
failure (`EndsForCause`), and a first start brings every proxy up or loses the
race for a shared port (`FreshStartServes`, with the premise `LoginsReturn`: a
child logs in to its fee pools before it binds a port, without a timeout). What
the doc says of a restart is not so: see the disagreements.

### FeeMath

`is_fee_random`: the range of the draw, the clamps and the comparison. A rate is
a binary fraction, as an f32 is one, and a thousand times it is exact in an f64:
so 0.005, which as an f32 is a little less, makes 4 of the 999 draws a fee round
and not 5, a positive rate below 0.001 makes none, and one of zero or less,
which is tested before the cut to an integer, makes one. FeeMath has no
variables and no run; the end of FeeExchangeProofs says all there is to say of
it. FeeExchange leaves the outcome of the draw open.

## The runs

| run | instance | shows |
|---|---|---|
| `jobs_and_lists` | 1 miner, fee jobs f1 and f2 with f1 also a developer's job, lists trimmed above 2 by 1, 4 jobs handed out, queues of 2 | several trims of both lists, an id in both lists, every failure of the fee tasks |
| `login_and_shares` | 1 miner with all methods, 2 shares, 2 messages each way, a share channel of 1 | every order of login, replies, shares and hang-ups, the full channel, lost writes and new logins |
| `job_lock` | 2 miners, sockets of 1 line to them and to the fee pool, channel of 1, 2 jobs | deadlock freedom, safety, liveness where the peers read, refinement of JobBoard |
| `status_feed` | 2 sessions, 2 names, owned or shared, 2 reports on their way, a proxy entered in the table at any time | the table against the sessions, and against the last reports |
| `store_serial` | 3 requests, 2 names, any list found at first or none, 1 thread, 2 ends of the process, failures of every call | file and table |
| `pool_connect` | 2 sessions and a fee task, 1 worker thread, 2 pools of which one speaks TLS, 4 lists (a backup, TLS, mixed with an entry of no address, unusable), 2 fee lists | failover, and that blocking connects only delay |
| `plain_sessions` | both loops, all protocols, 4 requests, 2 lines each way | pipelined requests, pushes and late answers |
| `relay` | sockets of 3 chunks, 3 lines from each side | full sockets, writes of half a line, both directions interleaved, refinement of LinePipe |
| `supervision` | 2 proxies, one with 2 ports of which it shares one with the other; 2 starts, any crashes | who gets which port, and who is left over |
| `ghost_workers`, `store_race` | the instances of `status_feed`, and 2 requests on 2 threads | disagreements 1 and 2 |
| `restart` | 2 proxies with ports of their own, 2 starts | disagreement 3 |

Why these bounds are enough: the lists interact with a trim only through how
long they are, so 3 entries above a limit of 2 cover every case of
`drain(750..)`; shares interact only through a channel that is empty, partly
filled or full; two sessions are the least that can race on a lock, a name, a
file or a thread; two starts the least that can overlap or follow a crash; a
socket of 3 chunks has room for a line, for half of one, or for none; four
requests of a miner are a login, two that wait for an answer and one in between;
three requests to `crate_app` are two of one name and one of another, before,
between and after the ends of the process. Two
sessions on one share channel are covered by the theorems, not by a run.
`MaxSend`, `MaxQueue`, `MaxShare`, `MaxPipe`, `MaxJob`, `MaxPending`,
`MaxReq`, `MaxLine`, `MaxStart` and `MaxCrash` are guards that stop counters
from growing; they only disable steps of the environment and of timers. `Cap`,
`Limit` and `Cut` are the code's 15, 1000 and 750; `Workers` is the number of
processors. Deadlock is checked where the system never stops (`job_lock`); the
other systems stop when the process ends or the bounds are used up.

### Fairness

tokio polls every task that can go on, from a FIFO run queue; `select!` draws
among its ready branches, so a branch that is ready again and again is taken.

- *JobLock*: weak for taking a free lock and for writes to a socket with room;
  strong for `TakeShare`, the share branch, which competes with arriving jobs,
  the timer and the end of the pool's lines.
- *StatusFeed*: weak for connecting, sending, entering the proxy, receiving.
- *PoolConnect*: weak for the return of a blocking connect, by its timeout;
  strong for `Dial`, `Accept` and `Finish`, which wait for a thread that others
  may take and give back in between, and for `Take`, a branch of the `select!`.
- *MonitorRelay*: weak for the connect, writes and peers that read; strong for
  the branches of `select!`, since a write takes the task out of it.
- *Supervision*: weak for the steps of running processes, for the first start,
  and for `Report`, which the sessions' timers cause twice a minute as long as
  the proxy has a miner.

What the code awaits without a timeout is in none of these (but for the relay's
peers). It is a premise of the properties that need it, and of no other:

| premise | says | of |
|---|---|---|
| `MinersRead` | miners read their sockets | `FeeTaskGetsLock`, `SharesDrain`, `SessionReturns` |
| `FeePoolServes` | the fee pool reads, and a login to it ends | `SharesDrain` |
| `PeersServe` | what a session's handler awaits is granted | `LinesForwarded` |
| `LoginsReturn` | a child's logins to its fee pools return | `FreshStartServes`, `RestartServes` |

FeeExchange, StratumSession and ConfigStore state no fairness and are checked
for safety only.

## The proofs

Every theorem holds for all values of the constants that satisfy the named
assumptions of its module: any number of miners, jobs, pools, names, requests
and lines, any capacity, and any value of the runs' bounds. All invariants and
all action properties of the passing runs are proved, and both refinements;
liveness is not (see below).

`FeeExchangeProofs` (`CapacityAssumption`, `TrimAssumption`, `CallsAssumption`,
`BoundAssumption`):

- `TypeCorrect`: `TypeOK`, split by the component that owns the variables.
- `Tails`: `ListsAreTails` is inductive given the types: a hand-out appends
  the same id to the list and to `handed`, a trim keeps a tail of length
  `Len - Cut`, at least `Limit + 1 - Cut`; a tail of a tail is a tail.
- `RecentFeeSharesStay`: a step that appends a submit to `toPool` is a
  `SubmitMainWork`, whose guard denies that the id is in a list, while by
  `Tails` all recent ids are.
- `FeeSharesEarned`: not inductive by itself, since a share is routed by the
  session's list; the invariant `EarnedInv` adds that the lists hold only ids
  from `jobQ`, which only grows.
- `FeeSharesOrdered`: the invariant `OrderInv` adds that every nonce in the
  channels and at the pools is below `nonce`.
- `MainSharesAccounted`: `NoMainShareAstray` is inductive once it is said with
  the places of a pipe that hold a submit or a verdict (`BalanceInv`,
  `BalanceIs`). `PlacesAppend` and `PlacesTail` count those places; a submit
  adds one to both sides, the pool's answer moves one from `toPool` to
  `fromPool`, reading it moves one into a counter, and a login reply sets the
  left side to zero.
- `ReportsEndOffline`: the invariant `ReportInv` adds that a session that was
  reported online is running and is online still: only its end changes that.
- `RateIsHonoured`, `RateLimits`, `RatesNest` (FeeMath): a positive rate below
  one, whatever fraction it is, wins as many of the 999 draws as it has
  thousandths, cut to an integer, so it is never exceeded and short by less than
  one; from one on all draws win, below 0.001 none does, and at zero or less one;
  of two positive rates the higher takes every round the lower takes (a rate of
  zero takes one that a rate of 0.0005 does not). `RateCut` says what the cut
  gives, `LotsOf` which draws win.

`JobLockProofs` (`LockAssumption`, `FeeTaskAssumption`):

- `TypeCorrect`, `Newest`, `ImplementsBoard`: the invariant `LockInv` adds to
  the types that a session that writes a fee job holds a guard, and that what
  it writes is the newest job; a push needs `readers = {}`. Each step of
  JobLock is then a step of JobBoard or leaves its variables alone.
- `LockIsNeverStuck`: the invariant `WaitInv` says that nobody is twice among
  the waiters and that they are exactly the sessions at "read" and the fee task
  at "lock". With `LockInv`, the first waiter may go on at once unless it is
  the fee task and some session is in the middle of a write under its guard:
  a miner that does not read is the only thing that can hold up the queue.
  This is the part of the run's deadlock freedom that holds for any number of
  miners; that waiting ends is the run's liveness.

`StatusFeedProofs` (`NamesAssumption`, `PendingAssumption`):

- `TypeCorrect`, from `UpdateEntries`: what the parent does with a report keeps
  one entry per name.
- `LatestIsShown`: `EntriesAreLatest` speaks of states where nothing is on its
  way, which no step can be argued from. The invariant `NewsInv` speaks of all:
  the last report about a name in `wire \o queue` is `latest`, and when there
  is none there the table's entry is, but for the names in `dropped`.
- `TableIsTrue`: the invariants `SessionInv` (a session that told is online,
  open and has a name it may use) and `ToldInv` (with names of their own, the
  latest report under a name is "online" exactly while its session has told so)
  tie `latest` to the sessions, and `LatestIsShown` ties the table to `latest`.
  `DroppedInv` says that a dropped name has no entry: nothing is dropped once the
  proxy is in the table, and nothing is entered before.

`ConfigStoreProofs` (`ThreadsAssumption`):

- `TypeCorrect`: the types for any number of threads, and that with one thread
  no list that is read, kept or written names a proxy twice. (With two, an
  overwritten file can: the list of one entry over one of two may leave the
  second behind.) The invariant `TypeInv` adds that a handler reads and writes
  only what it opened.
- `SerialTableIsStored`, `SerialNoDuplicate`, for one handler at a time, which
  is what `Threads = 1` says. The code has no lock, so this is a hypothesis and
  `store_race` shows that it is needed. The invariant `SerialInv` says at each
  system call of the handler what it holds (`Knows`): that a file it made is the
  one at the path and empty, and, as long as nothing was damaged, that a list of
  one is written only when the table is empty, that otherwise, from the removal
  of the old file on, its list contains the whole table and the new name, and
  that this name is not in the table.

`PoolConnectProofs` (`ThreadAssumption`, `TaskAssumption`, `PoolAssumption`,
`ListAssumption`, `FeeListAssumption`):

- `TypeCorrect`: that no more tasks are inside a blocking connect than there
  are threads is the cardinality invariant `Threads`: only `Dial` and
  `HandshakeFails` enter one from outside, and both need a thread.
- `StreamsMatch`, `SearchIsExhaustive`: the invariant `Knowing` says of a task
  that dials that `tried` holds the addresses of exactly the entries before the
  one it dials. `NextEntry` shows that a pass skips none (the least of what is
  left, `MinIsLeast`, by well-founded induction), so a task that gives up has
  tried them all.

`StratumSessionProofs` (`ModeAssumption`, `BoundAssumption`):

- `TypeCorrect`, with `Early`: before the first request nothing is decided.
  Requests have one form (`RequestForm`), which the other proofs argue from.
- `CountersLast`: the invariant `FlightInv` says that every request and answer
  under way has the id its method is given in the session's protocol
  (`Fitting`), and that an undecided session has asked nothing (`Unasked`), so
  no verdict carries the id of a login, and what is left are the bare bools to
  requests passed on.
- `PraiseIsEarned`: `Sent`, whatever is under way or answered was forwarded.
- `OnlineIsAnswered`: in STRATUM any bare bool sets the worker online. The
  invariant `LoginFirst` says that the answer to the login, which is the first
  request, is ahead of every other in the pipe, in ETH, too, where a request
  passed on may have the login's id; in NICEHASH there is no such order, and the
  case is `Mistaken`.
- `AnswersMatch`: `Once`, no request is under way twice, and `Serial`, a miner
  that never asked while an answer was due waits for its last request only,
  whose id is the one the loop remembers.

`SupervisionProofs` (`StoredAssumption`, `PortsAssumption`, `StartAssumption`):

- `TypeCorrect` needs `Unspawned`: the proxies an instance has yet to come to
  have no process. `Stored` names each proxy once, so none is spawned twice.
- `ServesWhole`, `ServedOnce`: the invariants `InOrder` (a child has bound a
  beginning of its proxy's ports, all of them once it serves) and `Exclusive`
  (no port has two holders); two processes of a proxy would share its first
  port. Only `Bind` gives ports (`OnlyBind`), the rest takes them away.
- `EndsOnlyForCause`: which step may end a child is `StepOfChild`; a task of a
  child that failed is told from an old failure by `FailedIsOver`.
- `NoneIsLeft`: by the invariant `Tabled` every child that runs is in the table
  of the instance that started it, until its loop takes it out, which ends it;
  the loop ends with an empty table, and nothing is entered from then on.

`MonitorRelayProofs` (`SockAssumption`, `LineAssumption`):

- `TypeCorrect`, among it that no write exceeds the socket (`Writing`).
- `ImplementsPipes`: the invariant `Inv` says of each direction that what is
  unread are the last lines sent (`Input`), that lines received, the begun one
  and the chunks in the socket are in ascending order and at most what was read
  (`Ordered`), and that they leave no gap while no write was short
  (`Contiguous`: the number of chunks taken and in the socket is twice the
  number of lines written). A received chunk is then a step `Deliver` of
  LinePipe, or nothing; every other step is `Put`, `FallShort` or nothing.

Only model-checked: liveness, that is `FeeTaskGetsLock`, `SharesDrain`,
`SessionReturns`, `ReportsAreShown`, `LinesForwarded`, `AcceptsAgain`,
`BackupServes`, `EndsTogether` and `FreshStartServes`. Fairness is a statement
about when an action is enabled, and the prover knows no ENABLED; nor do its
provers take an operator as a parameter, which induction over data would need.

## Disagreements between the sources and the program

1. Workers of a proxy that died stay online on the page (`ghost_workers`),
   against `doc/0.2.2开发日志:24`.
2. Two handlers lose each other's configurations (`store_race`), against
   `doc/0.2.2开发日志:9`: with no file at first, each creates it and writes a list
   of one. With a file it happens as well, since both may read the list before
   either writes it, and by the same race one name can be created twice.
3. After a crash of the web server the restarted one does not bring its proxies
   back (`restart`), against the same line: the old children hold the ports,
   the new ones exit on finding them taken, and the old ones then panic on
   reporting to the web server that is gone.

Seen in the code while modelling, without a source that says otherwise: a
refused login puts the worker online (`handle_stream.rs:269`); a fee share is
counted as accepted before `try_send`, also when the full channel drops it
(`handle_stream.rs:134`); an end of the web server between the removal and the
rewriting of `configs.yaml` forgets every proxy (`server.rs:165`), and so does
the panic when the new file cannot be created (`server.rs:176`); the list is
written over a file that may not be empty, without truncating it
(`server.rs:168-183`); with a missing file no duplicate is looked for
(`server.rs:226-277`); a fee rate between 0 and 0.001 takes nothing, while 0
takes one round in 999 (`util/mod.rs:158-162`).

## Not modelled

- The dashboards: floating-point sums for display, which change nothing.
- Users and tokens: a comparison and a JWT library call.
- `handle_stream_timer.rs`: in no build, and it calls functions that are gone.
- `get_pool_random_stream`, `dev_pool_tcp_login` and the floating-point
  functions of `util/mod.rs` besides `is_fee_random`: no live path calls them.
- TLS and certificates: a handshake or start-up that succeeds or fails.
- `Settings::check` and `check_net_work` beyond their outcome: the first lets a
  child start or ends it, the second is only logged.
- Log set-up, build scripts, and message types that are data without state.
- Malformed lines that end a session or a fee task with a panic: the modelled
  peers send well-formed ones, except to the relay.

## The plan

Done: WorkerState, FeeExchange, JobBoard, JobLock, StatusFeed, ConfigStore,
PoolConnect, StratumSession, LinePipe, MonitorRelay, Supervision and FeeMath,
each with its runs, and theorems about each. Every safety property the runs
check is proved. What could still be added:

1. FeeExchange: what its fee tasks take for granted of the job queue is JobBoard;
   a history of which job each hand-out was would let it be stated as a second
   refinement of JobBoard.
2. ConfigStore: the strongest statement about the file that holds for several
   handlers at once.
3. The steps of the liveness arguments that are safety: what can hold up a
   waiter, as `LockIsNeverStuck` says it of JobLock, for the threads of
   PoolConnect and the sockets of MonitorRelay.
