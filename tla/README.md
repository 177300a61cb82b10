# Verification of nrf-examples

TLA+ models, TLC runs and TLAPS proofs for the programs of this repository: small
Zephyr applications for Nordic chips. Most of them set up a peripheral and stop
there. A few keep real state that is shared by interrupts, timers, work queues and
Bluetooth or socket callbacks. Those are what this project is about.

Contents

1. The system: components, state, interactions, what is hard
2. The modules and how they correspond to the code
3. The runs, their bounds and the fairness they assume
4. What is proved
5. Disagreements between code and comments
6. What is not modelled

## 1. The system

### UART asynchronous API adapter (`peripheral_uart_beacon/src/uart_async_adapter.c`)

Gives a UART driver that has only the interrupt-driven API (the CDC ACM class) the
asynchronous API.

* State: `struct uart_async_adapter_data`. The transmit half has the buffer, a cursor,
  the bytes left and a timer. The receive half has the current buffer, the next one,
  the offset of the last report, the bytes left, a timer and whether it is enabled.
* Operations: `tx`, `tx_abort`, `rx_enable`, `rx_buf_rsp`, `rx_disable`; the handlers
  `uart_irq_handler`, `tx_timeout`, `rx_timeout`; a callback to the client that may call
  any of the operations.
* Hard: three contexts (thread, interrupt handler, clock interrupt) share the data. A
  spin lock guards parts of each function, but interrupt enabling, timers, some checks
  and every callback are outside of it, and the callbacks re-enter the API.
* Correct when: a buffer is reported exactly once; "done" means sent; received bytes are
  reported contiguously, once, before their buffer is given back; after the end of
  reception nothing is held; the interrupts are on exactly when they must be.

### NUS bridge, UART side (`peripheral_uart_beacon/src/main.c`)

Moves data between the Nordic UART Service and an asynchronous UART.

* State: the heap of blocks, `fifo_uart_tx_data`, `fifo_uart_rx_data`, the statics of
  `uart_cb` (`aborted_buf`, `aborted_len`, `disable_req`) and the delayable work
  `uart_work`.
* Operations: `uart_init`, `uart_cb` (six events), `bt_receive_cb` (a write of the peer),
  `uart_work_handler` (retries to enable reception), `ble_write_thread`.
* Hard: `uart_cb` runs in an interrupt, or in the USB work queue, and passes blocks to and
  from the threads; the heap can be exhausted at each allocation; transfers can be aborted.
* Correct when: a block is in one place at a time; the peer's data goes out in order and
  does not wait for an idle transmitter; received data reaches the Bluetooth thread;
  reception always comes back.

### NUS bridge, Bluetooth link (same file)

* State: `current_conn`, `auth_conn` and the references behind them, the mode of advertising,
  the one connection object (`CONFIG_BT_MAX_CONN` is 1).
* Operations: `connected`, `disconnected`, `auth_passkey_confirm`, `pairing_failed`,
  `button_changed` (two mode buttons, two passkey buttons), `num_comp_reply`, and the start in `main`.
* Hard: the Bluetooth receive thread runs between the steps of `button_changed`, which is on the
  system work queue; `disconnected` does not start advertising: the stack does, if the mode was
  started as connectable and no reference is left on the object.
* Correct when: references are balanced, no NULL connection is handed to the stack, and a bridge
  without a link advertises.

### Dual UART printer (`dual_uart_int/src/main.c`)

Two interrupt callbacks collect lines and queue them; two threads print the lines of each
UART on the other. State: receive buffers and positions, message queues, print buffers.
Correct when every message is terminated and is the line that was typed.

### Simple service (`simple_service/`)

A central (scan, connect, secure, discover, subscribe, write the LED) and a peripheral
(advertise, pair, notify the button). State: connection pointers, the client's flags
(`NOTIF_ENABLED`, `WRITE_PENDING`) and handles, `auth_conn`, `notify_enabled`. Disconnections
come at any point of the sequence; what survives them is the hard part.

### Dual role with authentication (`dual_role_authen/`)

A device that is both: what a phone writes to its LED it writes, as a central, to the same service of a
sensor. State: `default_conn`, the remote handle, one static write request, the discovery manager (one
link at a time), the scanner. The callbacks of both roles are called for both links, so that the
discovery of a phone can take the manager, or the handle, of the sensor. The passkey callbacks of
`central_role.c` never run: the stack takes one set of them (`bt_conn_auth_cb_register`), and `periph_role.c`
registers first. Correct when writes go to the sensor's own handle, and a device without a
sensor looks for one.

### GNSS over CoAP (`gnss_coap/src/main.c`)

A receive loop, a work queue, the GNSS event handler and button interrupts share the CoAP
buffer, the token of the last request, the socket and the last fix. Correct when a reply is
matched with its request and a fix is sent whole. `assistance.c` stands beside it and is built by no
configuration of the repository.

### LTE tracker (`lte_tests/src/main.c`)

Alternates GNSS and LTE over two semaphores, and sends each fix to a server. Correct when it
never sends before LTE is up and never waits for something that cannot come.

### CTS client, heart rate over two PHYs, interval beacon, UART wake-up

* `peripheral_cts_client`: discovery and encryption end in either order, and the later one must
  subscribe. The library keeps connection and handles of the last link, and a button reads with them.
* `peripheral_hr_coded_multi`: two advertising sets, restarted from `disconnected` by the PHY that the
  lost link had at its end; its callbacks are registered after both starts were queued. Correct when each set
  advertises, serves a link or is about to be started.
* `interval_beacon`: two work items that schedule each other; the cycle must not stop.
* `uart_wakeup_rx`: a button suspends the UART, an interrupt of its receive pin resumes it, and
  both come at any point of `main`. Correct when a suspended UART is woken by the next byte.

### The rest

`rtc_sleep*`, `timer_*`, `custom_gpio_handler`, `i2c_scanner`, `sensor_thingy`,
`disable_uart_runtime`, `hello_world_rtt` and the beacon of `lp_hci_nrf9160dk` configure a
peripheral and keep no state of their own. `lora_overlay`, `nrf21540dk_confs` and
`hci_lpuart` are configurations without a program.

### How they interact

Every directory is a firmware of its own. Inside `peripheral_uart_beacon` the bridge calls the
adapter (or a hardware driver) through the asynchronous UART API, and the driver calls
`uart_cb` back. That contract is written down twice, from both sides: `AsyncTx` and `AsyncRx`
are what `NusBridge` relies on, and what `UartAdapterTx` and `UartAdapterRx` are shown to implement
for a client like the bridge.

## 2. The modules

| Module | Models |
| --- | --- |
| `Preemption` | Contexts and the preemption rule of a single core (kernel, external). |
| `AsyncTx`, `AsyncRx` | The promise of an asynchronous UART to its client. |
| `UartAdapterTx` | Transmit half of the adapter. |
| `UartAdapterRx` | Receive half of the adapter. |
| `NusBridge` | The UART side of the NUS bridge, over `AsyncTx` and `AsyncRx`. |
| `DualUart` | The dual UART printer. |
| `SimpleCentral`, `SimplePeripheral` | The handlers of the two programs of `simple_service`. |
| `SimpleService` | Both on a link: the stacks, the radio, the users; which handler runs when. |
| `GnssCoap` | `gnss_coap`: interrupts, work queue, `main` and the server. |
| `LteTracker` | `lte_tests`: `main`, its handlers and the modem. |
| `NusLink` | The Bluetooth side of the NUS bridge: link, passkey, advertising modes, buttons. |
| `CtsClient` | `peripheral_cts_client`. |
| `DualRole` | `dual_role_authen/peripheral_and_central`, with both roles' handlers. |
| `HrAdvertiser` | `peripheral_hr_coded_multi`. |
| `IntervalBeacon` | `interval_beacon`. |
| `UartWakeup` | `uart_wakeup_rx`. |
| `MC*` | Values of the constants for TLC. `MCPrograms` checks the programs of one module each (`DualUart`, `LteTracker` and the six above) in one run: a behaviour is one of any of them, while the others stay in their initial states. |
| `*Proofs` | Theorems about the module of that name; `ProgramsProofs` about `NusLink`, `CtsClient`, `DualRole`, `HrAdvertiser` and `UartWakeup`, and about the types of all that `MCPrograms` joins. |

### Grain

A step is what runs between two points at which another context can come in: a region under
`data->lock`, or one access outside of it. Functions that call others and call back are
sequences of such steps. In `UartAdapterTx` every context has a program counter (`pc`); a
context whose callback starts a new operation goes on with that operation, because nothing
is left to do in the callback's caller. In `UartAdapterRx`, where callers do go on after the
callee, every context has a stack of frames. `Preemption!MayStart` and `MayStep` say who may
run: only a context of higher priority comes in between two steps of another, and it
finishes before the other goes on.

`NusBridge` takes the events of the UART in two steps: the driver reports (it changes its own
state and sets `cb`), and `uart_cb` handles (one step: on a single core it runs to its end
before any thread goes on). With `Isr = TRUE` the callback comes in between any two steps of a
thread (the hardware UART of the default boards). With `Isr = FALSE` it waits for the
cooperative Bluetooth receive thread and work queue (CDC ACM, through the adapter).

### State

| Model | Code |
| --- | --- |
| `UartAdapterTx`: `tx.buf, tx.curr, tx.left, tx.size` | `data->tx`; `curr` as an offset in `buf` |
| `UartAdapterRx`: `rx.buf, curr, last, left, next, nextLen, timeout, enabled` | `data->rx`; `last` is `last_notify_buf` |
| `irq`, `armed`, `fifo` | the target's interrupt enable, the `k_timer`, the target's queue |
| `NusBridge`: `free`, `len`, `txFifo`, `rxFifo` | heap, `uart_data_t.len`, both `k_fifo`s |
| `aborted`, `disableReq` | statics of `uart_cb` |
| `work`, `boot`, `rcv`, `ble` | where `uart_work_handler`, `uart_init`, `bt_receive_cb`, `ble_write_thread` are |
| `SimpleCentral`: `defaultConn, cRefs, scanning` | `default_conn`, the references the program holds, scanning |
| `conn, notif, pending, data`; `dm, sub, write` | `bt_simple_service_client` and its flags; what the stack does with them |
| `SimplePeripheral`: `currentConn, authConn, pRefs, notifyEnabled, buttonValue, led` | the statics of those names |
| `SimpleService`: `cLink, pLink, cAlive, pAlive, enc, asked, cNews, pNews, cBond, pBond, cccStored` | the two Bluetooth stacks (external) |
| `GnssCoap`: `lte, sock, token, buf, payload, pvt` | `LTE_Connection_Current_State`, `sock`, `next_token`, `coap_buf`, `coap_payload`, `pvt_data` |
| `queue, wq, pc` | the work items that wait, where the running one is, where `main` is |
| `LteTracker`: `lteConnected, gnssFix, status, toogle, resolved, sock` | both semaphores and the statics of those names |
| `mode, registered, news, gnss` | the modem: functional mode, registration, a report under way, GNSS started |
| `NusLink`: `currentConn, authConn, refs, step, event` | the pointers, the references held through them, where `button_changed` is and its `buttons` |
| `nusMain, nusLink, pairing, advMode, persist` | where `main` is; the stack: link, open passkey, what it advertises and whether it goes on |
| `CtsClient`: `hasCts, handles, subscribed, read` | `has_cts`, the link that `cts_c` was assigned on, what the stack does with it |
| `DualRole`: `defaultConn, remoteHandle, relayed, dm` | `default_conn`, `remote_led_char_handle`, the handle of the request under way, the link that the discovery manager works on |
| `HrAdvertiser`: `hrAdv, hrWork, hrLink` | the sets that advertise, `advertising_work_coded` and `_regular`, the connection objects |
| `IntervalBeacon`: `scheduled, beaconOn` | `start_adv_work` and `stop_adv_work`, the stack |
| `UartWakeup`: `wakeMain, isr, armed, uartOn` | where `main` and the running handler are, the interrupt of the pin, the power state of the UART |
| `DualUart`: `rx, pos, queue, tx, printing` | `rx*_buf`, `rx*_buf_pos`, `uart*_msgq`, `tx*_buf`, the threads |

In `SimpleService` a step is one handler: both stacks call their program from one thread, and a
button is handled in between. Each stack learns of the link, its security and its loss on its own
(`cAlive`, `pAlive`, `cNews`, `pNews`), so that one side can still send to a link that the other has
left. Requests that come before the link is secured are refused and sent again by the stack of the
central, as the host does. A discovery ends with the service found, or fails because the link is
lost; permissions are one guard (`Permitted`) for the LED and the CCC descriptor.

In `GnssCoap` interrupts are single steps that come in anywhere. A work item is divided where an
interrupt can matter (between reading `pvt_data` for the log and for the payload) and where it waits for the
modem (`setsockopt`, `send`), which is where `main` can run and receive into the buffer. A datagram is copied
in one step. On the descriptor 0 and on a closed one `setsockopt` fails at once, and `send` does on a socket that is not
connected: such a request is dropped. The server answers any request that reached it, in any order, again and again, or not at all. An answer
that is so late that its token is in use again (`TokenMod` requests, 65536 in the code) is left out.
The loop is the same whether the wait for the time ends by the event or by the timeout.

In `NusLink` a step of `button_changed` is one call of the Bluetooth stack: calls wait for the controller, and the
receive thread runs meanwhile. `disconnected` is on the same work queue as the buttons and waits for the handler.
In `UartWakeup` a step is one device call, and a handler comes in between any two steps of `main`. In
`DualRole`, `CtsClient` and `HrAdvertiser` a step is one callback of the one Bluetooth thread; calls that the stack may
refuse are refused or not. Handles and links are named by whose they are (`remoteHandle` is "sensor",
"phone" or "old", `handles` is the number of a link), which is what their properties tell apart.

In `LteTracker` every call of `main` that can fail or block is a step, with both outcomes; the handlers
come in between. Registration, its loss and the report to `lte_handler` are steps of the modem, so that a
report can be late.

Bytes of the bridge and the adapter are counted, not named: which byte it is matters to no
branch but the line end (`eol`) and a final CR (`cr`), which are chosen freely. In `DualUart`
the characters are kept, since what a message contains is the question. History variables
(`lent`, `got`, `owed`, `sent`, `typed`, `lines`, `line`, `createFailed`, `sentToken`, `late`, `latest`,
`verdict`, `waiting`, `came`, `spare`, `lost`, `refused`, `ctsGivenUp`, `early`, `noHandle`, `phoneLater`, `scanEnded`,
`unserved`, `ended`, `fault`, `nullDevice`) record what the client gave and was
told; no guard of the code reads them, except where the client's own discipline does.

The client of `UartAdapterTx` is a constant (`Calls`): which operations it calls in which
context. The client of `UartAdapterRx` follows `uart_cb`: it disables reception only in
`UART_RX_RDY`, once, and enables it when it is off.

## 3. The runs

| Run | Question | Bounds |
| --- | --- | --- |
| `uart_tx_nus` | Does the adapter keep the promise `AsyncTx` to the NUS bridge, and is "done" sent? | 3 buffers, transfers up to 4 bytes, a target queue of 3 |
| `uart_tx_any` | With aborts, timeouts and submissions from callbacks: is every buffer reported once, and in the end? | 2 buffers, 2 bytes, a queue of 1 |
| `uart_tx_done` | With timeouts: is a transfer reported as done always sent? No (section 5). | as above, queue of 2; the timer submits only from its callback (`TimerOnlyRestarts`) |
| `uart_rx_nus` | Does the adapter keep the promise `AsyncRx` to a client like the bridge? Are received bytes reported contiguously, once, in the end, before the release; are buffers given back once and not before their last report; is the receiver on when the client thinks so? | 3 buffers of 2 bytes, a queue of 3 |
| `programs` | Printer: is every message terminated, and is what a foreign terminator does confined to the end of a line? Tracker: does it go on only with a registration, and send each fix it read? Bridge: when does the stack get a NULL connection, when does a bridge without a link not advertise? CTS client: are subscriptions and reads those of the present link, and is a time that can be had subscribed to? Dual role: do writes reach the sensor's handle, is a sensor looked for? Heart rate: is each set advertised or about to be? Beacon: does it go on? Wake-up: does a byte wake the UART? | messages of 3 bytes, queues of 1, two characters (a letter, a line end); 4 references, 3 links of the CTS client, 2 connection objects; the other programs are finite |
| `dual_uart_line` | Is what is printed the line that was typed? No (section 5). | as above |
| `nus_isr` | Hardware UART that may abort: blocks in one place, their bytes accounted for over aborts and the appended LF, at most one block stranded and overtaken, received data reaches the Bluetooth thread, reception retried. | 3 blocks of 2 bytes, writes up to 2 |
| `nus_coop` | CDC ACM UART: data in order, nothing stranded. | 4 blocks of 2 bytes, writes up to 2 |
| `nus_live` | CDC ACM UART: the fifo drains, reception resumes. | 2 blocks of 2 bytes, writes up to 2 |
| `simple_service` | Do flags, references and subscriptions of both sides stay in step over links that come and go, and does a link that stays end in a subscription? | one connection object per side, three byte values |
| `gnss_coap` | What can the shared buffers and tokens spoil and what not: a payload is one whole fix unless an event overtakes the work item, an answer is taken only for the last request, and when no more positions come the newest fix is sent. | 3 tokens |
| `gnss_token` | Is the answer to the token sent last accepted? No (section 5). | as above; requests are built only while `main` receives (`OnlyWhileReceiving`) |

The two constraints pick a common way to the counterexample among the shortest: they take behaviours away and add none, so
what is found is a behaviour of the unconstrained specification too. No passing run has a constraint.

Why these bounds are enough. A transfer of two bytes with a queue of one has a first, a
middle and a last interrupt; two buffers give a transfer and its successor, which is what
aborts, timeouts and nested submissions can confuse; a fourth byte adds no new branch. Three
receive buffers are `buf`, `next` and one whose release is under way, of two bytes each so that a report can be partial. Three
blocks are what the bridge needs to have one in each direction and one waiting (the queue
order needs a fourth, `nus_coop`), and with them every allocation can fail. With `BufSize = 2`
a full block of the peer has one byte plus the LF, and a write of 2 takes two blocks. A
message of three bytes has room for two characters, so that a terminator can fall inside,
behind and before the line. The bounds `MaxLen`, `FifoSize`, `BufLen`, `BufSize`, `MaxWrite`,
`MsgSize`, `QueueLen`, `TokenMod`, `MaxObjects` are all constants. One connection object per side is the
configuration of both simple service programs; of the bytes, 0 and 1 are the values of a button and 2 is any
other that a write may carry. Four references are a link, its pairing, and two more that repeated pairings
lose. The third link of the CTS client is one whose predecessor left handles that are not those of the first.
Two connection objects are the configuration of the heart rate sensor, and of the dual role, which does not set the
number, both one and two are tried. `SetsServed` also holds with three and four objects; with one it does not, as then a set
that advertises keeps the other from starting. Three tokens are the current one, the one before and one that is still older.

`CHECK_DEADLOCK FALSE` stands in the adapter's runs, whose clients may have nothing more to do, and in
those of `MCPrograms`: the tracker ends after an error, and so do the bridge and the wake-up program
once a NULL pointer was used. The bridge, the simple service and `GnssCoap` never stop,
and their runs check deadlock.

Fairness. In `UartAdapterTx` and `UartAdapterRx` strong fairness on the adapter's own steps says
that interrupts come at a finite rate, so that the interrupted context goes on; weak fairness
on the handler and the interrupt is what hardware does with an enabled, pending interrupt;
strong fairness of a fill that takes bytes says that the target's driver does not refuse
for ever; nothing makes a client call, nothing makes bytes come in, and the transmit timer
need not expire. `Reported` therefore speaks of a client that pauses in the end: one that
submits from every callback can keep the thread from ever running. `BytesReported` speaks of
the case (`prompt`) that the receive timer does not expire within the handler run that armed
it: a handler held up for the whole timeout would store a byte after the timer had found none.
It is also the reason for the values of `Timeouts`: a client that enables reception from
within a callback with another kind of timeout than before finds the timer as the running
handler left it.
In `NusBridge` all code runs when its turn comes (strong fairness where the UART's events come
first), the UART reports what it has done, and the retry work runs again and again;
`ReceptionResumes` assumes that the peer stops writing.

In `SimpleService` both stacks go on: they report what they know, answer, end the security procedure and notice that
the other side left. Nothing is assumed of users and radio; `EventuallySubscribed` is about a link that happens to
stay. The case it leaves out, a central that kept the keys which the peripheral has lost, can fail for ever:
the central encrypts with its keys, is refused, and nothing deletes them.
In `GnssCoap` the work queue runs and the modem answers its calls; interrupts, the server and the buttons need not
come. In `LteTracker` `main` goes on, the modem registers while LTE is on, and registrations are reported; a receiver that
waits for an answer waits for ever when it is lost, which `FixSent` names (`recv`).
In the CTS client a discovery that was begun ends, an encryption that was begun ends and is reported; links may break at any
time, and `TimeSubscribed` says what happens to one that does not. In the beacon the work queue runs what is
scheduled. In the other programs of `programs` nothing is assumed, and nothing is claimed to happen.

`ImplementsPromise` is the refinement, of both halves. In `uart_tx_nus` it is `Promise == INSTANCE AsyncTx WITH current
<- Current`, where `Current` is the transfer the adapter holds, or the one that a context has
taken out and is about to report. In `uart_rx_nus` it is `Promise == INSTANCE AsyncRx WITH rx <- Promised`: the state
comes from what the client asked for and was told, the buffers are those whose release is under way and those of
`data->rx`, in that order, and the count is what was reported of the first. So a buffer that overtakes another, a
report of a buffer whose turn it is not, or an end of reception before the last release would be a step that `AsyncRx`
does not have; its fairness (`Ending`) says that reception that is to end does end.

## 4. What is proved

The theorems hold for every value of the constants that satisfies the named assumptions
(`PrioAssumption`, `RxAssumption`, `BridgeAssumption`, `DualUartAssumption`, `GnssAssumption`, `NusLinkAssumption`,
`CtsAssumption`, `DualAssumption`, and the transmit half's own): every number of buffers and blocks, every size, every client, every priority.

| Theorem | Says |
| --- | --- |
| `UartAdapterTxProofs!TypeCorrect` | the transmit half keeps its types and its cursor |
| `UartAdapterTxProofs!AssertionsNeverFire` | the assertions of `on_tx_ready` and `on_tx_complete` hold |
| `UartAdapterTxProofs!BuffersReportedOnce` | every buffer has exactly one reporter while it is lent |
| `UartAdapterTxProofs!DoneIsSent` | when no `tx` can come in the middle of `on_tx_complete` (`NoPreemptingTx`), done is sent |
| `UartAdapterTxProofs!KeepsPromise` | for a client like the bridge (`NeverAborts`, `NoPreemptingTx`) every step is one of `AsyncTx` or a stutter |
| `UartAdapterRxProofs!AssertionsNeverFire` | the assertions of the receive path hold |
| `UartAdapterRxProofs!TypeCorrect` | types, and the stacks of the three contexts |
| `UartAdapterRxProofs!ReportsAreContiguous` | each report continues the last one of its buffer |
| `UartAdapterRxProofs!BuffersGivenBack` | a lent buffer is in one place until its release, which comes after its last report |
| `UartAdapterRxProofs!ReceiverFollows` | at rest receiver and interrupt are on exactly while the client believes so |
| `UartAdapterRxProofs!KeepsPromise` | every step is one of `AsyncRx` or a stutter |
| `DualUartProofs!MessagesTerminated` | no message without a terminator |
| `DualUartProofs!DamageIsAtEnd` | a printed line differs from the one typed at its end only |
| `NusBridgeProofs!OneBlockStranded` | at most one block waits for an idle transmitter |
| `NusBridgeProofs!CoopStrandsNothing` | with `Isr = FALSE` none does |
| `NusBridgeProofs!ReceptionIsRetried` | reception that is off has a retry under way |
| `NusBridgeProofs!BlocksAreKept` | every block is in exactly one place: none is leaked or freed twice |
| `NusBridgeProofs!BytesAreAccounted` | a block is freed when all of it was sent, also over aborts; no data array is overrun |
| `NusBridgeProofs!CoopSendsInOrder` | with `Isr = FALSE` the peer's data goes out in order |
| `NusBridgeProofs!StrandedIsNext` | with any UART a block is overtaken once at most |
| `NusBridgeProofs!ReceivedIsHandedOn` | received data leaves through `ble_write_thread` only |
| `SimpleServiceProofs!ServiceTypeCorrect` | types; at most one and two references |
| `SimpleServiceProofs!FlagsAreRight` | the client's flags say what the stack does |
| `SimpleServiceProofs!NoReferenceLeaks` | references match the pointers and are released with the link |
| `SimpleServiceProofs!SubscriptionsAgree` | an accepted subscription is one on both sides |
| `SimpleServiceProofs!KeepsLooking` | a central without a link scans, unless creating one was refused |
| `SimpleServiceProofs!SecuredFirst` | LED and notifications are switched on a secured link only |
| `GnssCoapProofs!TrackerTypeCorrect` | types; no work item is queued twice |
| `GnssCoapProofs!ReportsAreFixes` | a payload that is not one whole fix is made only by a work item that an event overtook |
| `GnssCoapProofs!NewestIsUnderWay` | the newest fix is in `pvt_data`, the payload or a request, and the work item that takes it further is queued or runs, until it is sent, dropped or spoiled |
| `GnssCoapProofs!LatestIsAccepted` | no answer to another than the last request is taken |
| `LteTrackerProofs!EarlyOnly` | the tracker goes on only with a registration, or a spare one |
| `LteTrackerProofs!WaitsInGnss` | it waits for fixes with LTE off and no socket |
| `ProgramsProofs!NullOnBothOnly` | the bridge hands a NULL connection to the stack only for both passkey buttons at once |
| `ProgramsProofs!OffForAReason` | a bridge without a link advertises, but for a lost reference or a refused start |
| `ProgramsProofs!HandlesAreOfLink` | subscriptions and reads of the CTS client are those of the present link |
| `ProgramsProofs!HandleIsOfSensor` | when the discovery of the present sensor's link has found a handle, writes go to it, or to that of a phone discovered later; never to one of an earlier link |
| `ProgramsProofs!ScansOn` | the dual role looks for a sensor while it has none |
| `ProgramsProofs!ByteAlwaysWakes` | a byte on a suspended UART wakes it |
| `ProgramsProofs!SetsAreServed` | with two connection objects or more neither advertising set is lost |
| `ProgramsProofs!TypesAreKept` | types of all programs of `MCPrograms` |

The arguments.

* Transmit. `CursorInv` ties the cursor to the bytes left. `OwnInv` gives each lent buffer one
  holder: the adapter's data, or one context that has taken it out and not yet called the
  client. It is needed because a context that has passed the unlocked check and waits for the lock
  knows nothing of the transfer any more: only the data, not the context's memory, can carry
  the claim. `SentInv` adds, for `DoneIsSent`, what the handler does know when nobody can abort
  in between: no bytes are left, and the target is empty. The refinement, `KeepsPromise`, adds `DoneInv`: without
  aborts and finite timeouts (`NeverAborts`) only the handler takes a transfer out, and only when it is done. Then
  `Current` is the transfer of `data->tx`, or the one in the handler's event (`CurrentIs`), and `PromiseStep`
  goes through the actions: `Tx` submits, a fill that takes bytes sends, `Notify` reports, and taking the
  transfer out is not seen.
* Receive. `CursorInv`: bytes left imply a current buffer whose end is the cursor plus the bytes
  left. It is preserved because every step that takes the buffer away sets all the fields together,
  under the lock. The rest needs to know what nested calls and preempting contexts have half done. `StackInv` says
  which frame can lie on which (`Fits`), so that a context returns where the source returns. `WorkInv` says that one context at
  most is anywhere but at the start of a notification or of a run of the loop, and what its innermost frame implies:
  reception is `Settled` or `Ending`, up to the one switch that this frame is about to make (`ControlAt`), and each lent buffer is
  in `rx.buf`, `rx.next` or the release which that frame is about (`BuffersAt`). It is inductive because a
  context of higher priority finds the phase complete or finds nothing to do: the timer takes the lock, the handler's
  interrupt is off where the thread has not finished. The four properties follow from it, and so does `KeepsPromise`,
  an action at a time: `rx_enable`, `rx_buf_rsp` and `rx_disable` are `Enable`, `Respond` and `Disable`, the
  callbacks are `Ready`, `Release` and `Disabled`, and every other step leaves `Promised` alone, as a buffer moves from `data->rx`
  into the release that is then first in the order. No assumption is made about the client beyond the discipline that
  the model's client has.
* Printer. `ClosedInv` is about the last byte: no callback ever writes index `MSG_SIZE - 1` of a
  buffer except with a terminator, so every copy of it ends there at the latest, although `uart1_cb`
  terminates the wrong buffer. `DamageInv` extends this to the contents: the line being typed is in the buffer
  character by character (`Holds`), but that in uart0's buffer some may have been overwritten with a terminator, and each
  queued or printed message `Resembles` its line. `strlen` is the smallest index of a terminator, which exists by
  well-foundedness (`HasSmallest`). So a cut can only be the first terminator (`CutResembles`) and a tail can only
  follow the whole line (`TailResembles`).
* Bridge. A block is put in the fifo only by the thread that found the transmitter busy, and a
  `UART_TX_DONE` takes one from the fifo if there is one. So with an idle transmitter the fifo
  can hold only what that one thread put there after the last event; it tries the transmitter
  before every block, so it puts one at most. `StrandInv` (and `CoopInv` for `Isr = FALSE`) says this
  over the program counter of `bt_receive_cb` and the event in flight. `ReceptionInv` relates the
  receiver's state to the retry work and to `disable_req` in the same way.
  `BlockInOnePlace` counts places; its inductive form (`OnePlace`) says that of all places a block is in one and in no other,
  so that a step is either one that moves nothing (`Kept`) or moves one block from a place to another (`Moved`). It
  needs `HandsInv` (what threads, receiver and callback hold, and when), that no fifo holds a block twice, and `AbortInv`:
  `aborted_buf` is about the block being transmitted, without which `UART_TX_DONE` would free the address of another. The
  byte counts add `RxCountInv` and `LineInv`, one for each direction. Order is `DueInv`: what is owed to the peer
  is the fifo, then the block in hand, with the one block in transmission put in at some position; at the first one when
  `Isr = FALSE`. `ReceivedIsHandedOn` follows a block with data through the places from the receiver to the thread.
* Simple service. References: the central holds one exactly while it is not idle; the peripheral's second one
  (`auth_conn`) belongs to a link that has been through a passkey entry which cannot come again, because the
  pairing succeeded, still runs, or failed and ends the link (`PeripheralHolds`). Without that clause a second
  `auth_passkey_entry` on the same link would leak the first reference. Subscription: it belongs to a link
  (`SubscriptionOfLink`), and `notify_enabled` is cleared only when the peripheral's side of that link ends.
* GNSS. `FixInv`: as long as no event came while the work item was pending or printing, `pvt_data` and the part of it that was
  read are the fix that the item was submitted for. `UnderWay` ties the newest fix to the work: in `pvt_data` it has
  `new_fix_work` queued or running, with what was read so far still of it; in the payload it has `coap_put_work` queued or
  at its start, although an item that is queued already is not queued again; in a request, the work queue waits for the modem with it. It
  needs `StartInv`: `gnss_init_and_start` writes its initial payload before any position can come. `AnswersInv`: the server
  can answer with `next_token` only if that token was sent last, since building a request advances the token before any
  datagram can carry it. That is why a response is never mistaken, and also why the right one is sometimes
  refused (section 5).
* LTE tracker. `TokenInv` says what the binary semaphore `lte_connected` can hold at each place of `main`: before
  the wait, the registration it waits for or a spare one; after it, a spare one only. `ModeInv` follows the
  mode and the socket through the loop.
* Bluetooth link of the bridge. `ReplyInv` says for which button each step of the handler runs: `auth_conn` is checked
  once, and only the first of two replies can clear it. `RefInv` makes the references those of the two pointers, unless
  one was lost, so that a lost link frees the object; `OffInv` says that, while the handler is not
  between a stop and a start, something is advertised, or a link stands after which the stack will.
* CTS client. `has_cts` is cleared in `connected`, and only a discovery on the present link sets it (`KnownInv`), so that the
  handles it vouches for are the link's own; `SubscribedInv` and `ReadInv` follow.
* Heart rate. `Turns` counts what serves the two sets: links, sets that advertise, and queued starts. Handlers only turn one
  of them into another or lose one, so there are never more than two (`HrInv`), and a start finds an object free
  whenever there are two or more. `MaxConn > 1` is what `prj.conf` of that program sets (`CONFIG_BT_MAX_CONN=2`); with one
  object the property is false.
* Types of the programs. Each has a lemma of its own; most types are inductive by themselves. The printer's need `ClosedInv` (a
  buffer index never leaves the buffer), the bridge's need `RefInv` and `CountInv`: references are a natural number because none
  is dropped that is not held, and stay within the model's bound because a bridge that can be connected to holds none. `EachAlone` says that only the program that runs takes steps.
* Wake-up. `HandlerWakes` needs that a handler which is past the pin and means to suspend has armed it
  (`WakeInv`); a second handler cannot come in, and `main` arms the pin only before it resumes the UART.

Every safety property that a passing run checks, invariant or action property, is stated by a theorem, but for the two
`ImplementsPromise`, which contain fairness; their safety part is what the `KeepsPromise` theorems state.

Model-checked only: liveness, for which the prover can state neither ENABLED nor a ranking (`Reported`, `BytesReported`,
`FifoDrains`, `ReceptionResumes`, `EventuallySubscribed`, `LastFixSent`, `FixSent`, `TimeSubscribed`, `BeaconGoesOn`, and the
fairness part of either `ImplementsPromise`). `AssertionsHold` of `UartAdapterTx` and the types of both halves of the adapter,
`SimpleService` and `GnssCoap` are proved (`AssertionsNeverFire`, `TypeCorrect`, `ServiceTypeCorrect`, `TrackerTypeCorrect`) and
no longer part of a run; of the types of `NusBridge` the part is proved that its invariants need (`TypesInvariant`, and the length
of the blocks in `BytesAreAccounted`). `KeepsPromise` of the transmit half is about a client
with the constants of `uart_tx_nus`: an aborted transfer is reported before it is sent, which the promise excludes there
(`aborts <- FALSE`), and with a preempting timer even one reported as done need not have been sent (`uart_tx_done`, section 5).

## 5. Disagreements between code and comments

* `uart_tx_done`. `on_tx_complete` reads `size_left` without the lock (line 407) and then, under
  it, reports whatever transfer it finds, with the comment "Transfer really finished". In the run a transfer
  with a finite timeout has left the target and the handler has passed the check. Before it has the lock the timer, which nothing
  stops at the end of a transfer, aborts that transfer, and the client's callback for `UART_TX_ABORTED` starts another one, as
  `uart_cb` does (lines 211 to 224 of `main.c`). The handler goes on, takes the new transfer and reports it as done with none
  of its bytes sent. It takes a finite timeout and a target whose handler the clock can interrupt (CDC ACM);
  the NUS bridge passes `SYS_FOREVER_MS` and is not affected (`uart_tx_nus`).
* `dual_uart_line`. `uart1_cb` writes its terminator into `rx0_buf` (line 77). A line of uart1 is
  printed with the tail of an older one, and a line being typed on uart0 is cut. `programs`
  shows what it cannot do.
* `gnss_token`. `client_handle_response` is to "Confirm the token in the response matches the token sent" (line 613),
  but compares it with `next_token`, which `coap_put_work_fn` advances (line 265) before the request that carries it
  is sent. In the run two requests are made one after the other. The first is sent; the second is built and waits in
  `setsockopt` when the answer to the first, the last one sent, is received: it is refused as invalid.

Behaviour that no comment contradicts: with a hardware UART, `bt_receive_cb` can find the transmitter
busy, be interrupted by the `UART_TX_DONE` that finds the fifo still empty, and then put a block that
nobody transmits until the peer writes again (`OneStranded` and `OvertakenOnce` bound the
effect, `NothingStranded` holds only with `Isr = FALSE`). A CR LF makes the LF the first
character of the next line in the dual UART printer. In `gnss_coap`, `main` and the work queue use one `coap_buf`: a datagram
that comes while `coap_put_work` waits for the modem replaces the request, and a request built between `recv` and the parsing
is taken for the datagram. In `lte_tests` a registration during `modem_configure` leaves a
token in `lte_connected`, with which the tracker goes on to the server before LTE is up the first time (`spare` in
`EarlyOnlyWithSpare`).

## 6. What is not modelled

Left out of the modelled components: `on_error` and `UART_RX_STOPPED` of the adapter (its target
has no `err_check`, so the branch is dead; taken, it would treat the target's data as the
adapter's), the pass-through functions, calls that change nothing (`-EBUSY`, zero lengths),
the durations of timers, the text of messages, the failure paths of `uart_init` that end the program
without a running UART, and a `uart_tx` that fails for other reasons than a busy transmitter.

Left out of `SimpleService`: the passkey display and the confirmation dialogues, which keep no state, and the early returns
of `bt_simple_service_handles_assign`, which the repository's peripheral cannot cause. Left out of `GnssCoap`: the second
button (it switches a UART that nothing else uses). Left out of `LteTracker`: the content of the position, which `main` may
read while the next one is being copied, and of the response. Left out of `DualRole`: the passkey callbacks, which answer
the stack at once, and the two functions that nothing calls; `dual_role_authen/peripheral` is the same code without the
central role. Left out of `HrAdvertiser`: the two notifications a second of `main`.

Components without a model:

* the adapter's pass-through API forwards its arguments and keeps nothing;
* `rtc_sleep*`, `timer_*`, `custom_gpio_handler`, `i2c_scanner`, `sensor_thingy`, `disable_uart_runtime`, `hello_world_rtt`
  and the beacon of `lp_hci_nrf9160dk` are sequences of driver calls, with at most a counter or an LED that one handler
  toggles: no two steps whose order could be wrong;
* `lora_overlay`, `nrf21540dk_confs` and `hci_lpuart` hold no program;
* `assistance.c` of `gnss_coap` is built by no configuration of the repository.

Hazards without a property, and why. What a write carries that is repeated after the end of the function which
its data points into (`simple_service_client.c`; the model sends any byte). Requests and datagrams that spoil each other in
`coap_buf`, and requests for a socket that a malformed datagram made `main` close: no comment says what should
happen, and `LastFixSent` counts the newest fix as spoiled or dropped then. A modem button before `gnss_coap` has set itself up, a
button of `uart_wakeup_rx` before `gpio_dev` is set, and a tracker whose GNSS did not start: the models take those
steps, and no comment promises otherwise. A mode button of the bridge during a link, after which nobody advertises, and a link of the heart
rate sensor that ends before its callbacks are registered, after which its set is not advertised again: `OffOnlyAfterRefusal` and
`SetsServed` name these as exceptions.

Exceptions. Several properties of `programs` hold but for cases that the code does not handle, and each has a history variable
that names them: `refused` and `lost` in `OffOnlyAfterRefusal`, both buttons in `NullOnlyOnBoth`, `early` in `HandlesOfLink`,
`noHandle` in `HandleOfSensor`, `scanEnded` in `ScansWithoutSensor`, `unserved` in `SetsServed`, `spare` in `EarlyOnlyWithSpare`,
`ended` in `BeaconGoesOn`. The properties say that nothing else leads there; they do not say that those cases are right.

What could follow: receive clients of `UartAdapterRx` other than the bridge, that disable before the first byte, for TLC and,
with a weaker phase than `Settled`, for the prover; and the refinement of `AsyncTx` with `aborts <- TRUE` for the transmit clients that abort.
