# Locutorium in TLA+

Locutorium lets agent programs on one machine write to each other. A *seat* (an endpoint such as
`claude.a.b`) has a queue on a NATS JetStream broker that the project runs itself, a row in a ledger
of files that says which process occupies it, and a server process, started by the agent's runtime,
that tells the agent when mail is waiting. This directory models the parts of that program that many
processes touch at once, checks them with TLC on small instances and proves what matters most about
them with TLAPS for every value of their constants.

Paths below are relative to the repository (`src/` in `PROJECT.json` is its root).

## The system

| Component | State it keeps | Operations | Talks to |
|---|---|---|---|
| Bell, `internal/mcpserve/bell.go` | window, streak, breaker counters, flags of the watch, all behind one mutex | arrived, backlog, fire, ring, counted, again, stop; the watch's callbacks | the broker (watch, count), the notifier, the log |
| Server lifecycle, `internal/mcpserve/serve.go` | the tenure it wrote | preflight, displace, register, claim, wait, depart | the presence verbs, the ledger, the bell |
| Presence verbs, `cmd/loc/presence.go` | none of their own | subscribe, unsubscribe, sweep | the ledger, the queues, the event topic |
| Ledger, `internal/presence/` | one row file and one pid file per seat; derived activity | Load, Save, Remove, ListAll, ApplyActivity, Findings | the file system, the process table |
| Send, `cmd/loc/main.go` | none | is there a queue, is there a row, publish | ledger, broker |
| Read, `cmd/loc/read.go`, `internal/provider/nats/read.go`, `internal/mcpserve/tools.go` | what is fetched and not taken | fetch, show, acknowledge, record, return, close | broker, terminal or tool result, day's record |
| Provider, `internal/provider/nats/` | one connection, dialled once; a watch with its own | queues, counts, pulls, watch | broker |
| Daemon, `cmd/loc/daemon.go`, `start.go`, `stop.go` | its pid file, the broker's store | start, heartbeat (sweep), stop | ledger, broker |
| Notifiers, `internal/mcpserve/notify*.go`, `courier.go` | a rate limit | Ring | a pane, a webhook, a courier |
| MCP entry, `cmd/loc/mcp.go` | parent and child generation | fork, forward signals | the server |
| Day's record, `cmd/loc/transcript.go`, `internal/loc/log.go` | lines of a day's file | append, reconstruct outcomes and streaks | everyone who writes it |
| Hermes adapter, `integrations/hermes/loc/` | draining, drain-again | bell request, drain, dispatch | the read verb, a webhook |
| Envelope, rendering, configuration | none | parse, format, look up | everyone |

No lock spans a file and the broker, or two processes. The hard behaviours follow from that:

* **Interleaving inside the bell.** Its mutex is free during every call that may block, and up to
  four kinds of goroutine (main, the client's callbacks, the subscription, expired timers) meet
  between those calls. Correct means: no counted arrival is left without a ring to come, the tries
  stop, the breaker holds, nothing starts after stop.
* **Interleaving between processes.** Two servers, an operator's verb, the heartbeat and a sender
  read a row, decide, and write later. Correct means: mail a sender was told is accepted is
  destroyed only by a deliberate unsubscribe of the right seat, and the records agree in the end.
* **Partial failure.** Every verb has two or three writes and may be killed, timed out or refused
  between them; the broker may stop and forget its queues.
* **Order without a clock.** Hooks, senders, readers and bells each stamp what they did and write it
  down later, some in whole seconds. Correct means: an older event never replaces a newer one, and what a
  report makes of the lines is so, or is listed here as what it cannot know.
* **Looking and acting.** A notifier looks at a pane and types into it later, a verb reads a pid file and
  signals later, a status reads four facts one after another. Correct means: nothing is typed where it
  was not meant, nobody is signalled who is not ours, and one report does not contradict itself.
* **Signals.** They come to one process or to the group, at any point of a boot or a goodbye. Correct
  means: none of them strands a seat or is lost by a process that had heard it.
* **At-least-once delivery.** All readers of a seat share a cursor; signals, kills, failed writes
  and unanswered acknowledgements leave messages in flight. Correct means duplicate, never lose.

## Modules

| Module | Models | Checked by | Proved in |
|---|---|---|---|
| `Bell` | the bell of one seat and the medium as it sees it | `MCBell` | `ServerProofs` |
| `Seat` | one seat's records and everyone who writes them | `MCSeat` | `SeatProofs` |
| `Mailbox` | what a seat promises for each message | as a property of `MCReadPath` | `ReadPathProofs` |
| `ReadPath` | reads over the shared cursor of one seat; implements `Mailbox` | `MCReadPath` | `ReadPathProofs` |
| `Record` | the day's lines of one seat and what is derived from them | `MCRecord` | `RecordProofs` |
| `Presence` | an endpoint's activity file, the hooks, and one status report | `MCPresence` | `PresenceProofs` |
| `Daemon` | the broker's port and pid file, start and stop | `MCDaemon` | `DaemonProofs` |
| `Notify` | one ring, through each of the four notifiers | `MCNotify` | `NotifyProofs` |
| `Entry` | the launched process and the server it starts, and signals | `MCEntry` | `ServerProofs` |
| `Hermes` | the adapter that holds a seat for an agent gateway | `MCHermes` | `HermesProofs` |

### Bell

A step is one critical section of `bell.go` or one blocking call made with the lock free. `pc[t]`
says where goroutine `t` stands, and `look`, `who`, `result`, `charge` are the locals it carries from
one section to the next: the queue the broker counted, the names a ring will give, the ring's result
and the minute it was charged to.

* `pending`, `senders`, `blind`, `timer`: the window. `tryTimer`, `tries`, `rangs`, `streakSenders`,
  `streakN`: the streak. `minuteBucket`, `minuteN`, `hourN`, `tripped`: the breaker. `cut`, `back`,
  `stopped`: the flags. All are the fields of the struct.
* A Go timer is `"nil"`, `"armed"` or `"fired"` as the *field* sees it. When a field is overwritten or
  set to nil while its timer still runs, and nobody called Stop, that timer goes on without a name:
  `looseWindows` and `looseTries` count those. `Stop` of a timer whose goroutine has already started
  changes nothing, because the goroutine is a `pc` by then.
* `Publish`, `Take`, `LinkDown`, `LinkUp`, `Tick` are the medium: a watch copy exists only while the
  watch is connected, and copies the client had received survive a loss (any subset of them may).
  Any message can be taken at any time, as two readers of one seat may take them out of order.
* `conn` is the provider's one connection, over which the count goes. It is dialled on first use with
  NoReconnect; once lost it is `"closed"` for good (`connectWithin` returns at once while `p.nc` is set).
* `untold`, `rungMinute`, `rungHour` are history: which mail no try has announced, and how many rings
  each calendar minute and hour has paid for.

The notifier's answers are a constant, so that each run chooses the ones its question needs. One of them is
`"never"`: tmux, herdr and the courier are run without a deadline (`notify.go:568`), and `NotifyHangs` is a ring that
does not return. It costs a timer's goroutine, for which nobody waits, so its slot is free again; Main and Link, when
they ring for a backlog, stay `"hung"`. Names and log lines are formatted nowhere. `startBell`'s case in which the watch cannot be made leaves no bell
at all and has no state.

### Seat

The row is known by the process that wrote it. That is the *tenure* of `serve.go`, a triple of pid,
start time and registration stamp, which distinguishes registrations made in different milliseconds;
two registrations by one runtime in one millisecond are not modelled. Every Load, Save, Remove, pid
file access and broker call is one step, so everything may happen between any two. `held` is the row a
process has read and not yet acted on, `finding` what the sweep will act on, `dialled` the boot of the
broker at which a process opened its connection: after a stop of the broker the old connection fails.

A server goes through `heldByAnother`, `displaceOrRefuse` and `DisplaceRemove`, the four steps of
subscribe, `claimPIDFile`, `wait`, `depart` with the four steps of a forced unsubscribe,
`ReleaseReads` and `ReleaseRemoves`. A clerk is a process that runs one verb from the command line.
The sweep is `ListAll`, `SweepLooks`, then `SweepReaps` and `ReleaseServerPID`, or `SweepRepairs`.
`Killed` may strike a server or a clerk anywhere. `DepartTimesOut` is the expiry of `departureWait` (2 s):
the unsubscribe is abandoned, and what its goroutine may still do before the process exits commutes
with the release of the pid file, so it is covered by abandoning it later. Presence events are stored by nobody;
of an announcement only its failure matters here. `lost` and `found` are history: who destroyed a
message, and which row each process found when it came to end the seat. `Entitled` says of the two who may: the
broker that stops, a server that found its own row, a forced unsubscribe, and a plain one that found no row or a dead
runtime's.

### ReadPath

A reader is a process slot that reads again and again. `NextQueued`, `readMode`, `drain`, `Ack`,
`LogRead`, `Topics` and `Close` are one `loc read`; a peek stops after showing one message; a tool's
read writes to a buffer and `read` returns the buffer or the error. `Signal` is the soft stop, noticed
above the write and the acknowledgement; `Kill` gives nothing back. The cursor (`fresh`, `again`,
`holder`) is the broker's and modelled as external: redeliveries come first, the acknowledgement wait
(30 s) may end at any time, a late acknowledgement still deletes. A delivery that comes as a fetch
gives up is in flight to `Nobody`. `returnUnacked` allows for the client taking a message whose
acknowledgement got no answer for settled. A fetch may be reported dry though mail waits, because it failed or the cursor
was unreachable, and a `read` line may be swallowed with its append. A payload that is no envelope (not in `Envelopes`)
writes no `read` line; it is shown cut to 120 bytes, whole with `--json`, and a blank one not at all. The rooms (topics) are another stream with a position of
its own; of them only that they may fail, or be cut short, reaches the queue.

`Mailbox` is the promise behind it: each message is accepted, shown, forgotten by the medium and
recorded as read, in that order and one step at a time. `ReadPath` maps a message's stage to the last of
`sent`, `shown`, no longer `stored` and `recorded` that holds of it, and every step of a reader, a fault or the cursor is a step
of the mailbox or none (`IsMailbox`).

### Record

Writing a line is a step of its own, after the fact it tells of, as in the code: a send publishes and
then appends `sent`, a reader acknowledges and then appends `read`, an unsubscribe removes the row, the
queue, and then appends the line. `files` are the day files. A line holds a stamp in whole seconds; the
clock is UTC, which names the files too, and counts finer ticks, because registrations are stamped finer, and two
comparisons in the code turn on that. An append may fail, and nobody hears of it (`LogEvent`); `unwritten` keeps which
lines were lost so, and `Swallowed` is the exception for them. Each registration has a bell with a streak of its own, and
an earlier server's bell rings on under the seat's name after the row has changed hands. A streak here is a function of
the registration: overlapping tries of one bell are `Bell`'s, and a streak that an empty queue ended is followed by a
new one (`fire`). A line is read at its *place*, which is its file and its number in it. `join` gives a message
the places of its lines, and `outcomes` and `transcript` say of them what `transcript.go` does: which is first, which is last,
which line of the seat comes soonest after the send. The scan of `presence.go` is a recursive function over the
lines of a file and over the files (`ScanFile`, `ScanFiles`, `Scanned`). `mail`, `taken`, `loss` and `lastBell` are the facts, which
no report sees. Lines of other seats and of rooms carry another key and are left out.

### Presence

A hook is a process: it stamps its event when it fires, reads the activity file, compares, and writes.
A removal takes the row away and then the activity, or is cut between the two. A status reads the row,
the activity, the attendance and the process one after another, with everything else between. `raced`,
`swept` and `leftover` are history: they say when one of three races the code has no guard against has
happened, and the properties claim everything but those.

### Daemon

`Boot` takes the port or ends; the daemon then ensures its topics, writes its file, makes a beat,
serves, closes the broker and releases the file, each a step. `start` and `stop` ask the file
and the port in the order the verbs do, and wait a bounded time. A process is pid and start time
together; a dead daemon's number may come to belong to a stranger at any time (`reused`), and when that is between a stop's
check of the pair (`stop.go:31`) and its signal to the bare number (`stop.go:58-62`), `slipped` keeps it. The port may be another
supervisor's (`Outsider`). `Silence` is a dial that is refused, fails or takes longer than its second (`daemon.go:110-117`):
the verb takes the port for free. `pending` is history: who was still to remove the file when a daemon bound
the port or had it taken for silent. Removing the file is taken to succeed, and a failed write of it ends the boot.

### Notify

A ring is the calls its notifier makes. `there` is what the address leads to and moves between any two
calls. The guards are only as good as what they ask: a screen is searched for two markers, and herdr's word is taken. So
some places are `Lookalikes` that no guard can tell from the seat's prompt: a screen that shows both markers
(`"mimic"`), another agent's prompt behind a stale pane id (`"other"`), a menu that herdr reports idle (`"menu"`). A line that
goes there is `"misled"`, and the properties claim nothing of where it went. Typing and submitting are two calls for tmux and one for herdr; the webhook has a deadline; the
courier is a model's session whose output (`stream`) is a set of events, listings, sends and last a result, if it
comes to one; the outcome is derived from those by the rules of `courier.go`, with the error of the process when it did
not finish. A listing prints pane ids and session names and no pane targets, so of a target (`~Checkable`) a courier
that woke anybody counts, as in the code. Registration of a seat refuses the types and addresses the code refuses.

### Entry

`loc mcp` starts itself again and waits. `Bare` are the places where the default disposition of a
signal is in force and ends the process; `Heeding` those where a handler's channel holds one; at the
others it is ignored. The runtime signals the group or the launched process alone, kills, or closes the pipe. Between
`register` and `wait` the server is `"ringing"`: `startBell` rings for what waits on the main goroutine, and returns
when the notifier does. The server's own work is in `Seat`; here it is one row, taken and given up.

### Hermes

The adapter is one thread of coroutines, so a step is what stands between two awaits, and at an await
anything else may happen. `task` is where the drain is (`exec`: a read is being spawned, `collect`: its
lines come, `reap`: it was killed and is waited for, `pass`: a message is with Hermes), `gate` where the gateway's
connect or disconnect is. `draining` and `again` are the fields `_draining` and `_drain_again`, `listening` is whether
`_bell_path` is set, `seen` the deduplicator. Mail is a set: which line is first matters to no property.
A message is in the `queue`, printed into the `pipe` of a read, collected in `lines`, in the `inbox` log,
then `current` or `todo`, then `passed` or `named` (logged as read and not passed on).
`Declined` are the lines `sort_read_output` refuses: rooms, no sender, the seat's own.

Cancelling is modelled as asyncio does it: the exception comes at the task's next step, and a task
that has not made its first step is dropped without running, its `finally` included. The read is `loc read` as
`ReadPath` has it, in three actions: print, acknowledge, end (at any point, for any reason). `cut`, `unwritten`, `owed` and `late`
are history: lines left in the pipe of a read that was killed, lines whose write to the log failed,
a bell without a read since, a drain begun while a close was waiting for its tasks.

## Runs

Every value of the constants is small and named in the `.cfg`. Model values stand for messages, seats
and processes.

| Run | Question | Bounds | Distinct states |
|---|---|---|---|
| `bell_streak` | do overlapping tries lose a wake, stay exhausted, outlive stop, or raise a cap? `NoLostWake`, `ExhaustedGivesUp`, `StopIsFinal`, `BreakerCap` | 2 messages, one unparsable, 2 timer goroutines, 2 tries, rang, refused or held, the count may fail, 2 minutes of an hour each | 3.0 M |
| `bell_told` | is every message that stays announced, through an outage too, and do the tries run out: `EveryMailTold`, `FallsSilent`, `NoLostWake` | 1 message, 1 timer goroutine, 1 outage, rang, refused or never, caps of 1 | 0.16 M |
| `seat_safe` | who may destroy accepted mail: `MailAccounted` | 2 servers of one runtime, 1 unsubscribe from the command line, 1 message, sweep, kills | 2.2 M |
| `seat_heals` | do row, process and queue come to agree: `Reconciles` | a server, a clerk of another runtime with any verb, 2 stops of the broker, kills | 0.69 M |
| `read_safe` | is anything deleted unshown, recorded wrongly, kept by a read that ended, or never shown; is it a mailbox: `ShownBeforeGone`, `RecordedIsGone`, `EndedHoldsNothing`, `EveryMailShown`, `IsMailbox`, `TypeOK` | 2 messages, one that is no envelope, a read, a peek, a tool's read, 1 fault | 0.35 M |
| `record` | are the reports so: `OutcomesTrue`, `WaitingIsListed`, `VainBellShown`, `HeldSinceFirst`, `TypeOK` | 1 message, 2 registrations with a bell each, failed or held, 2 tries to a streak, 2 in all, 2 ticks to a second, 1 second to a day, 2 ticks, 1 fault or failed append | 1.2 M |
| `presence` | is activity the newest and the occupant's own, does a report agree with itself: `EventsKept`, `OwnActivity`, `ReportOfOne` | 2 occupants, 2 hooks, idle after 0 ticks, 1 tick, 1 removal cut | 2.1 M |
| `daemon` | does the file mislead, who may take a name away, who is signalled: `NamedHoldsPort`, `UnnamedOnlyIfOverlapped`, `OthersUnharmed`, `SignalledEnds` | 2 daemons, 2 starts, a stop, a forced stop, any reuse of numbers, 1 fault or missed dial | 1.0 M |
| `notify` | is a line typed astray, is a result so, what does an outcome prove: `NothingAstray`, `ResultTrue`, `OutcomeProven`, `CourierWindow`, `RingEnds`, `TypeOK` | 2 rings, 2 sessions, each type and one unknown, window 1, 1 tick, 3 events, 1 fault | 0.30 M |
| `entry` | does a signal strand a seat, does what was heard end the server: `NothingStranded`, `HeardEnds` | 3 signals, 2 faults | 724 |
| `hermes` | is mail it took ever without a trace, does a drain outlive a close or meet another, is a bell forgotten: `TakenIsFound`, `PassedOrNamed`, `ClosedIsQuiet`, `BellDrains`, `TypeOK` | 2 messages and 1 declined, 2 bells, 2 calls of connect or disconnect, 1 fault | 1.4 M |
| `read_handed` | the one kept disagreement, below: `HandedIsLogged` | 2 messages, a tool's read, 1 fault | violated |

Why the bounds are enough. The bell's races are between two goroutines over one field, or between a
goroutine and the fields a third has changed; two timer goroutines with Main, Link and the
subscription make every such pair, and two messages make an arrival during a streak. Two tries give a
first, a last and one that overlaps. In `bell_streak` both counters roll while rings are under way; that the caps hold
when they roll apart is proved for every clock (`BreakerHolds`). In `bell_told` one outage may fall before
the first count, so that the reconnect's count dials, or after it, and one goroutine and one message keep the liveness check small; a ring that never returns may be the one for a
backlog of Main or Link, or a timer's.
In `Seat` each race is between one reader of the row and one writer; two servers, a clerk and the sweep
make four of them, a server's subscribe runs the steps of a clerk's, and no argument depends
on a second message; a forced unsubscribe, a clerk's subscribe and a stop of the broker are in `seat_heals` and, for
`MailAccounted`, in the proof. In `ReadPath` one message in
hand and one behind it is what overtaking and redelivery need; each fault is a different step's, and one
of them at any point makes every redelivery there is; its safety properties are proved for any number.
In `Record` the report on a message looks at its own lines and its seat's, never at another message's; two registrations and the
instants 0, 1 and 2 over seconds of two ticks make every pair of stamps that are equal, equal in the second only, or a day apart. In `Presence` each
race is a hook or a removal against one other, over two occupants, and a report reads across one change
of hands. In `Daemon` a third daemon would meet the same port and file; two starts and two stops make the
verbs overlap. In `Notify` two rings share a box or a window, and three events make a listing, a send and its
result. In `Entry` a first signal, its forwarded copy and a later one in the goodbye are three. In `Hermes` one bell begins a
drain and one comes during it, two calls are a connect and what undoes it, and of two messages one is being passed on
while the other waits. The types of `Bell`, `Seat`, `Presence`, `Daemon` and `Entry` are in no run: they are proved.
Deadlock is checked in the runs of `ReadPath` only: its readers read again for ever. Elsewhere the system may really
stop: a bell that has nothing to do rests, and processes that have ended stay ended.

Each property has a mutant of the code that it catches: the window that opens late or stays shut, a
reconnect that asks for no count, the
streak that forgets its timer, a try too many, a refused try that is not counted, a refund to the wrong
bucket, a reap that takes the queue with the row, a sweep that only prints, a failed write that goes on to
the acknowledgement, a record before the confirmation, a signalled read that does not close, a hook that does
not compare stamps, a process known by its number alone, a courier spawned while another runs, a signal
obeyed and not passed on, a default disposition put back before the goodbye, a drain that takes its flag down too early, a
close that does not wait for what it cancelled.

### Fairness

* `Bell`: every goroutine that can run does (Go's scheduler), an armed timer expires (its slot in the
  bounded pool `Timers` becomes free again and again, hence strong fairness), a delivered copy is
  handed on, the watch keeps redialling (`MaxReconnects(-1)`). A ring returns or hangs, and no notifier is assumed to
  return: where it hangs the goroutine's own step is over. Nothing is assumed of senders, readers, the clock, losses or `stop`.
* `Seat`: a process that has begun a verb goes on until it ends or is killed, a server hears its runtime
  go (its stdin closes), the heartbeat runs (every 5 min, `beatInterval`), a stopped broker is started again.
  Nobody is obliged to launch, to die or to send.
* `Daemon`: each daemon's own steps go on; none of them waits for another process. Verbs may stop anywhere.
* `Notify`: the webhook's calls end, by an answer or by their deadline (`notify.go:383`). tmux, herdr and the courier have no
  deadline in the code, so nothing is assumed of them and nothing is claimed.
* `Entry`: both processes go on, and of the launched process's two reasons to wake (a signal, the child's end)
  neither is put off for ever, as Go's `select` picks at random. Nothing is assumed of the runtime, nor that the
  first ring returns.
* `Hermes`: a drain goes on at its awaits, since its read ends or times out and Hermes takes or refuses a message. Nothing is
  assumed of the server, the read, the bell or the gateway's calls.
* `Record` and `Presence` claim safety only.
* `ReadPath`: plain reads are started again and again (an agent that attends its seat), a read that
  runs ends, and the broker's acknowledgement wait expires. Faults are bounded, so in the end there are none.

## What the runs found in the code

One run is kept that ends in a counterexample. `read_handed`: a read tool call that fails after an
acknowledgement drops both the text and the `handed=` line (`tools.go:118` against `docs/CLI.md:982`).

Others were seen while modelling and follow from the same actions; no run is kept for them, and the
properties of the passing runs name them where they need an exception. In the bell, the seat and the read path:

* Two overlapping tries arm two timers over one field; the one that lost its name tries
  again after the give-up (`bell.go:485` against `bell.go:42`).
* After one loss of the broker the bell's count never answers again, so the backlog of
  the reconnect announces nothing (`nats.go:117` against `bell.go:197`). `EveryMailTold` excepts just that mail (`Uncounted`).
* Nothing ends a tmux, herdr or courier command that does not return (`notify.go:568`; "May spawn a courier and wait for
  it", `serve.go:172-175`). One that hangs in a try ends the streak's tries with the mail unread. One that rings for a
  backlog holds the client's callback, so that later reconnects ask for no count (`Uncounted`). One that rings as the
  server starts keeps it from the signal and the closed pipe it should end on (`serve.go:235`, `bell.go:199`; `HeardEnds`).
* The row may be replaced between a departing server's check and its unsubscribe
  (`serve.go:541` against `serve.go:501`).
* Two runtimes find the row free and both take the seat (`presence.go:187` against `docs/CLI.md:350`).
* A window goroutine that starts late and finds nothing pending clears the streak a backlog has opened
  meanwhile, and the tries stop with mail unread (`bell.go:357` against `bell.go:38`).
* A read between two arrivals can make the broker's count agree with the bell's by accident, and a later
  try names a seat whose mail was taken (`bell.go:634` against `bell.go:608`).
* The sweep reaps, by endpoint, a live row that replaced the dead one it had listed (`presence.go:431`
  against `docs/CLI.md:391`); the next sweep does not bring it back.
* A runtime that crashes closes its server's stdin as one that ended does, and the server then unsubscribes,
  mail and all (`serve.go:308` against `docs/PRESENCE.md:155`).
* Queues are created with memory storage and go with the broker (`internal/provider/nats/presence.go:71`
  against `docs/OPERATORS.md:67`).
* A message stranded in flight is shown after the one sent later by the same sender
  (`internal/provider/nats/read.go:201` against `docs/CONTRACT.md:44`).
* `docs/CLI.md:187-190` says that a `read` killed by a signal never reaches the give-back and that catching the signal is something
  "this build does not do yet". It does (`cmd/loc/read.go:151-217`): a signalled read closes as any other and gives back
  what it holds. `EndedHoldsNothing` says what the code does; its mutant `CloseUnlessSignalled` is what the document says.
* A fetch that fails is reported as a dry queue though mail waits (`internal/provider/nats/read.go:171-207`), and a read of
  it says there is none.
* A payload that is no envelope is acknowledged with no `read` line, cut to 120 bytes on the screen and not shown at all if it
  is blank (`read.go:300-306`, `render.go:47-57`).

In the record and its reports (names of actions and properties are those of the module named):

* When the reader is faster than the sender's own line, the `read` line stands before the `sent` line, and the
  transcript calls the message pending for ever (`main.go:383` against `transcript.go:293`; `ReadFirst`).
* A read in the same second as the last line of the bell does not silence it: status goes on to say that mail is
  unread (`presence.go:1027` against `presence.go:943`).
* With stamps in whole seconds, a queue destroyed in the second of a send leaves the message pending though it is lost, and a
  send stamped before the deletion and published after it is called lost while it waits.
* A publish that was stored and answered with an error is shown as failed.
* Where a bell event and a deleted queue both apply, `docs/CLI.md:263-264` says the later one wins. In the code a
  deletion is final: nothing after it changes the outcome (`transcript.go:382-417`). `OutcomesTrue` needs the code's rule: the
  document's, which is its mutant `NewestSeatEvent`, calls lost mail pending.
* `LogEvent` swallows every error (`log.go:31-56`), so a sender is told `sent` with no line on record
  (`main.go:383-395`) and mail that waits is in no list; a swallowed `read` leaves what was read pending (`Swallowed`).
* An earlier server whose row was taken by a later one of its runtime (`serve.go:433-443`), or removed by force, rings on under the
  seat's name. Its lines replace the occupant's in the report (`presence.go:980-997`), though
  `presence.go:949-951` says that a previous occupant's bell is not this seat's: only its lines from before the registration are dropped.
  `VainBellShown` claims the occupant's line while it is the last.

In `Presence`:

* Two hooks that both compared before either wrote leave the older event standing (`ledger.go:203-211`; `raced`).
* A hook that writes after the row was removed leaves an activity that the next occupant inherits
  (`ledger.go:94-96`; `leftover`), and a slow removal takes the successor's activity away (`swept`).
* A report may say of one agent that its process is alive and of its activity that it is away, when the file holds a predecessor's end.

In `Daemon`, `Notify` and `Entry`:

* An old daemon's release, or a stop that was slow, removes the file of a daemon started since
  (`daemon.go:350`); it then runs unnamed (`UnnamedOnlyIfOverlapped` says when).
* `loc start` may report that the port is held by something else when the holder is a daemon of this
  deployment that has not written its file yet (`start.go:49` against `docs/CLI.md:49`).
* A dial that fails or is slow for any reason counts as a silent port (`daemon.go:110-117`): a stop that only missed the
  daemon reports it stopped and removes its file.
* A stop compares pid and start time and then signals the bare number (`stop.go:31`, `stop.go:58-62`). A process that took the
  number in between is signalled (`slipped`).
* herdr may report an agent idle while it shows a menu, and the bell lands in the menu (`notify_herdr.go:67-71`); a pane id
  that has gone stale leads into another agent's prompt, with success reported (`docs/CLI.md:770-774`); and a screen that shows the
  markers passes for a prompt (`notify.go:251-274`). `NothingAstray` says only that there is no other way to go
  astray, unless the place changes under the ring.
* A courier that confirms a send to the wrong session at a pane target is recorded as `rang` (`courier.go:37-41`, which calls
  it a known gap); the same goes for a pane id that names another session by now (`docs/CLI.md:786-795`). `OutcomeProven`
  claims no more of a target than that somebody was woken.
* A ring inside the courier's window is recorded as `rang` though no courier was spawned for it, and the
  one that was may find nobody (`notify.go:309` against `docs/OPERATORS.md:217-218`); `CourierWindow` says what the word is worth.
* A signal to the launched process between the start of its child (`mcp.go:105`) and the handler
  (`mcp.go:122`) ends it and is not passed on; nor is one that waits in its channel when it is killed (against `docs/CLI.md:882`).

In `Hermes`:

* A drain that is cancelled or times out kills its read with lines in the pipe that nobody collects: loc has recorded them as
  read, and they are neither in the inbox log nor named (`adapter.py:439-447` against `adapter.py:418-420`; `cut`).
* A task cancelled before its first step never runs the `finally` that takes `_draining` down. When a close does that to
  a drain just asked for, the next connect hears bells, answers 202 and never reads (`adapter.py:316`, `adapter.py:356` against `adapter.py:12`).
* A server that dies between the status that shows it registered and the return of connect is not reported
  (`adapter.py:270` asks for `_running`, which is set later, against `adapter.py:258`): the adapter is marked connected without a seat.
* A bell that comes while a close waits for the tasks it cancelled begins a drain the close knows nothing of (`late`); it may
  read on after the seat is given up.
* When a read cannot be spawned the exception ends the loop, and a bell that came meanwhile is forgotten (`adapter.py:361`).

## Proofs

Every safety invariant and action property of a passing run is a theorem, for any values of the constants that the
assumptions allow; what is left to TLC is named at the end of this section.

`ServerProofs` has two parts that share no state: the bell and the entry. The part on the bell assumes only
`BellAssumption`: messages and timer goroutines are finite sets, the caps and
the number of tries are positive, the goroutines are distinct. TLC evaluates the assumption in every run
of `MCBell`. The bound on minutes and losses is a parameter, so the theorems hold for each value of it.

* `TypeCorrect`: `Spec => []TypeOK`. `TypeOK` is inductive. It carries one relation that is not a type,
  `untold \subseteq queue`, and needs that the broker's count is a natural number (`CountIsNat`, from
  the library's theorems on finite sets) and that a minute's hour is one of the hours (`HourType`).
* `WakeNeverLost`: `Spec => []NoLostWake`. `NoLostWake` alone is not inductive: a window timer that has
  `"fired"` keeps `arrived` from arming another. The invariant adds that a fired timer is still held by a
  goroutine on its way into `fire`, which will set the field to nil (`FiredIsFiring`). The step that
  matters is `BacklogSets`: it takes the window's timer away, and it can because it goes into `fire` itself.
* `ExhaustedIsGivenUp`: `Spec => []ExhaustedGivesUp`, for any number of overlapping tries. It is
  inductive with `TypeOK`: only `counted` raises `tries`, and what brings it to the limit goes to `gaveUp`.
* `StoppedForGood`: `Spec => []StopIsFinal`. Each place that arms a timer is behind a test of `stopped`
  in the same critical section; the proof goes through them one action at a time.

* `BreakerHolds`: `Spec => []BreakerCap`. The code never sees what a past minute has paid,
  so the invariant speaks of what each bucket *owes*: the rings it paid for and those still charged to it,
  counted as a set of goroutines. No bucket owes more than its cap, no bucket later than the current one owes
  anything, and `minuteN` and `hourN` are exactly what the current ones owe. A roll keeps this because the new
  bucket owes nothing yet (`RollCounts`, `HourMonotone`), a ring because the caps were tested in the section
  that charges (`RingKeeps`), an answer because it turns a charge into a payment (`NotifyKeeps`), and a refund
  because it takes from a counter only what that bucket owes for this very ring (`RefundKeeps`). The other actions
  neither begin nor settle a ring (`Untouched`).

`SeatProofs` assumes `SeatAssumption` (servers, clerks, the sweeper and the broker are distinct, each process of a runtime).

* `TypeCorrect`: `Spec => []TypeOK`, inductive as it stands.
* `MailIsAccounted`: `Spec => []MailAccounted`, for any servers, clerks, verbs, kills and stops of the broker. What
  makes it inductive is where a process stands: one on its way to an unsubscribe may begin it (`MayBegin`), one past
  the unsubscribe's own look at the row is entitled by what it found (`MayEnd`), one that destroyed mail never checks again (`DestroyerIsDone`), accepted mail was
  sent (`AcceptedKept`) and waiting mail has a queue (`MailInQueue`).

`ReadPathProofs` assumes `ReadAssumption` (the three kinds of reader are disjoint).

* `TypeCorrect`, `NeverLost` (`ShownBeforeGone`) and `ReadsAreTrue` (`RecordedIsGone`) come from one invariant: the cursor
  keeps what is stored, once, and offers as new only what is in flight to nobody (`CursorOK`), what a read holds will not be
  delivered as new again (`HandsOK`), and what is being acknowledged was shown and what is being recorded is gone
  (`TakenOK`), beside plain types (`RestOK`). The step that needs it all is a late acknowledgement
  after the message was handed to another reader.
* `Implements`: `Spec => IsMailbox`. Each action moves at most one message (`Progress`), and with the
  invariant that move is one stage (the stages need `ShownBeforeGone` and `RecordedIsGone`).
* `EndsEmptyHanded`: `Spec => EndedHoldsNothing`: what is in flight to a reader is the one message in its hand
  (`InFlightInHand`, `EmptyHanded`).

`PresenceProofs` assumes `PresenceAssumption`.

* `OwnerKnown` (`OwnActivity`) needs that a file that is not the occupant's is accounted for while the seat is
  free too (`AccountedFor`). `NewestStands` (`EventsKept`) needs that a hook about to write, which nobody has overtaken,
  still compares well with the file (`Compared`).
* `ReportsAgree` (`ReportOfOne`) follows the report line by line: what it has read so far
  (`ReadSoFar`), with an agent that was ever registered having lived (`Lived`), so that one found gone stays gone.

`DaemonProofs` assumes `DaemonAssumption`.

* `FileNeverMisleads` (`NamedHoldsPort`) and `NameLostToOverlapOnly` (`UnnamedOnlyIfOverlapped`): who has booted and not
  closed holds the port (`PortHeld`), only such a daemon wrote the file (`FileWritten`), and every release that
  comes while a daemon runs was under way when it bound the port or took that port for silent (`ReleasesKnown`).
* `OthersAreSafe` (`OthersUnharmed`): whom a stop is about to signal is a daemon whose number is still its own, or one that
  lost it since the check, or an outsider under `--force` (`TargetKnown`). Numbers may be reused at any step.

`NotifyProofs` assumes `NotifyAssumption`; rings, sessions, events and ticks are any number.

* `TypeCorrect`: the bound it carries, on the events of all couriers together, counts a set of places in their
  streams. The set starts empty and a step adds at most one place to it, so it is finite and stays within the bound (`BoundsStep`).

* `LineGoesWhereLooked` (`NothingAstray`), `AnswersAreTrue` (`ResultTrue`) and `OutcomesProven` (`OutcomeProven`) are parts
  of one invariant with the places a ring stands at (`InItsNotifier`, `LookedAt`, `Untouched`). Of the lookalikes a ring may
  be `"misled"`, and nothing follows. The lemma `OutcomeAgrees` says of any stream a courier may print what its outcome proves, and is
  weaker at a pane target than at an address that is printed.
* `CouriersSpaced` (`CourierWindow`): the courier's stamp is never older than a spawn's (`Stamped`), so a
  second spawn in a window would have been refused.

The part of `ServerProofs` on the entry assumes `EntryAssumption`; signals and faults are any number. `EntryTypeCorrect` is
inductive as it stands. `SignalsStrandNothing` (`NothingStranded`): a row exists only from the registration to
the goodbye, and from the goodbye on no signal is heard.

`RecordProofs` assumes `RecordAssumption` and `NoneIsNoLine` (a line is not the absent value); messages, registrations, tries, faults and
the length of the clock are any number. A report sees lines and the properties speak of facts, so one invariant ties the two:

* `Types` with each bell's streak, when it is not ending, having a try left (`StreakTyped`), since the tries a line shows are bounded by it.
  It makes `TypeCorrect`, where the stamp of every line is not past the clock and names its file.
* `FactsInv`: a message not yet published is nowhere, and one that was published waits, was taken or was destroyed.
* `LinesInv`: a line of a message tells of what its sender or reader did, and a message has at most one line of each. So
  its first and its last line exist and are one of two (`FirstAndLast`), and "sent" is the last word only if no reader's line follows
  (`SentLast`).
* `WrittenInv`: what was sent, what was read and recorded, and a deletion in a later second, have their lines, unless
  their append failed.
* `BellInv`: the scan of the whole record stands where a bell last wrote, whichever it was, and its last read is one of the lines. `HeldInv`: it
  stands in a run of held tries exactly when such a run ends the record, with the stamp of the run's first.

From these follow `OutcomesCorrect` (`OutcomesTrue`), `WaitingCorrect` (`WaitingIsListed`, where the soonest deletion
after the send is found by stamp, file and number: `SoonestIn`), `VainBellCorrect` (`VainBellShown`) and `HeldSinceCorrect` (`HeldSinceFirst`).
The scan grows by one `Scan` when the bell appends (`ScanAppend`), since a line with the clock's stamp goes to the last file that has any. The one line
that does not, a send that crosses midnight, is a line the scan passes over. That a recursive function over lines is
defined at every length, and grows so, is argued from the least length at which it would fail (`NatMin`, by the library's theorem on
well-founded orders), which is an induction without an operator as parameter.

`HermesProofs` assumes `HermesAssumption`; mail, bells, calls and faults are any number. One invariant serves all:

* `TypeCorrect` needs that no waiting message was declined (`OnePlace`), so that none is passed on. Of its parts, that a running
  drain holds the flag is what keeps two drains apart.
* `TakenIsNeverLost` (`TakenIsFound`): what a read has in its hand, and may acknowledge, it has printed to this drain
  (`PrintedToUs`), and a drain that reaps has no read left (`Reaped`), so its lines are all there is.
* `NoneUnaccounted` (`PassedOrNamed`): a duplicate may be skipped because what counts as seen was passed on, named or is
  with Hermes now (`SeenWent`).
* `CloseLeavesNone` (`ClosedIsQuiet`): while a close waits, the drain is gone, cancelled or late (`StoppedOrLate`).

Only model-checked: the liveness properties (`EveryMailTold`, `FallsSilent`, `Reconciles`, `EveryMailShown`, `SignalledEnds`,
`RingEnds`, `HeardEnds`, `BellDrains`), which rest on fairness and `ENABLED` and are beyond the prover. `HandedIsLogged` is not a
theorem: its run refutes it.

## Not modelled

* Of the Hermes adapter: its sends, which keep no state; the text of the handshake; the deduplicator's size and time limits. The
  gateway is external and calls connect and disconnect one at a time.
* The rooms' (topics') positions: another stream with a cursor of its own, of which `ReadPath` keeps only that it fails.
  Their lines in the record and the verbs on topics are left out with them.
* The medium's event watch (`loc watch`), the registry's listing and `loc unread`: they read and print, and change nothing.
* The heartbeat's log and its pruning in the daemon; the sweep of the heartbeat is in `Seat`.
* Two registrations of one runtime within a millisecond, which share a tenure.
* The composition of the bell with reads: in `Bell` any message may be taken at any time, which is
  more than any read does.
* Parsing, rendering, identity, configuration and the provider's lookup table keep no state and are
  formatting. The legacy listener pid check is consulted only on a medium without presence.
* The broker's own code, Go's runtime and the file system are external: they appear as what the code relies on.
