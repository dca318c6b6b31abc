# A TLA+ development of matter-aliro

`matter_aliro` is a Matter door lock that runs Aliro transactions with readers reached over
CoAP/DTLS. It is one Python process on one asyncio loop, plus the threads that
`threading.Timer` starts for timed interactions. This directory holds TLA+ models of its parts,
TLC configurations that check them and TLAPS proofs of the main results.

## The system

Paths are under `src/matter_aliro/`.

| Component | State | Operations | Modelled in |
| --- | --- | --- | --- |
| Duplicate detection, `matter/message/message_layer.py` `MessageReceptionState` | `max_message_counter`, `reception_bitmap` | `process_reception_encrypted`, `process_reception_unencrypted` | `ReceptionWindow`, `MessageReception` |
| Exchange layer, `message_layer.py` `MessageLayer` | `exchanges`, pending acknowledgements and their timers, `next_exchange_id` | `process_recv_matter_frame`, `find_exchange`, `send_message`, `send_standalone_acknowledgement`, `close_exchange`, `initiate_exchange` | `ExchangeLayer` |
| Secure channel and session table, `matter/crypto/secure_channel.py`, `message_layer.py` | `pase_state`, `case_state`, `in_use_session_ids`, `secure_unicast_session_context` | PBKDF request, PAKE 1 and 3, sigma 1 and 3, status report, counter wrap | `SessionTable` |
| Commissioning, `matter/interaction_model/root_node.py` | window flags, verifier in use, candidate key and root, fabrics | open, basic open, revoke, cancel, commissioning complete, CSR, add root, add NOC, remove fabric | `Commissioning` |
| Access control, `interaction_model/acl.py`, `root_node.py` | `acl` | `get_granted_privileges`, `replace_acl` | `AccessControl` (evaluation and changes), `Dispatch` (the state), coarsely in `Commissioning` |
| Device state, `matter/device.py` | `device_state.json` | `save_state`, `load_state` | `Commissioning` (what is saved when, what comes back) |
| Flow control and chunked reports, `message/protocol.py`, `interaction_model.py` | in-flight markers, pending messages | `send_message`, `release_next_message`, `chunk_report_data`, status responses | `RequestFlow` |
| Subscriptions, `interaction_model.py` | `_subscriptions`, their timers, changed attributes, events | subscribe, `report`, `report_now`, events, cancel | `Subscriptions` |
| Timed interactions, `interaction_model.py` | `_timed_requests`, `_expired_timeouts` | timed request, timer thread, write/invoke | `RequestFlow` |
| Dispatch, `interaction_model.py`, `cluster.py`, `endpoint.py` | endpoints, clusters, data versions | read, write, invoke, wildcard paths | `Dispatch`, without the values of data versions |
| Door lock, `cluster.py`, `device.py` | users, credentials, reader configuration, bolt, `state_door_lock.json` | set/clear user and credential, reader configuration, lock, unlock | `DoorLock` |
| Reader front ends, `coap/views.py`, `coap/coap.py` | command and response queues per device | new target, APDU response, delete | `NfcInteract`, abstractly `TargetSession` |
| DTLS server, `coap/dtls.py` | connections by id, address and pointer, their timeouts and record queues, the future of waiting writes | accept, handshake, record, timeout, write, remove | `DtlsServer` |
| Aliro reader, `aliro/`, `__main__.py` | the transaction, the credentials it started with | `run_aliro`, `run_step_up`, `nfc_handler` | `NfcInteract` (its commands), `NfcHandler` (its credentials and its effect) |
| Certificates, `matter/crypto/certs.py` | none | conversions and names | not modelled |
| mDNS, `matter/mdns.py` | instance name, discriminator, announcing tasks | answer, announce | `Mdns` |
| Encodings, generated messages, cryptography, mDL | none | decode, encode | not modelled |

How they interact. A UDP frame becomes a task (`message_layer.py` 313-317). Duplicate detection
marks it, `find_exchange` routes it to an exchange or opens one, and a second task runs the
handler of its protocol (475-478). The secure channel's handlers change the session table; the
interaction model's handlers run cluster commands, which reach back into the session table
(removal of a fabric), the secure channel (the verifier of a window) and the device state. All
answers go back through `send_message`, which carries the pending acknowledgement. A reader's POST
either starts a transaction task or hands it a response, then waits for the task's next command;
a transaction that succeeds moves the bolt of the same lock that the door lock commands move. CoAP reaches
the device on connections that the DTLS server accepts and hands out, each read by a task of its own. What
the commissioning commands change, the mDNS responder publishes.

What is hard here:

* interleavings: each frame and each handler is a task; delayed acknowledgements, window timeouts
  and subscription timers are sleeping tasks; a command may remove the session, the fabric or the
  exchange on which other tasks already wait;
* delivery: frames are lost, duplicated and reordered, counters and exchange ids wrap;
* order of effects: handlers change state, then may raise; nothing rolls back;
* restart: some handlers save, some do not, and a save may be cut off in the middle;
* waiting: a POST and a transaction wait for each other on queues of one place; writes of all connections wait
  for one future, and the DTLS server for the earliest of their timeouts.

`PROJECT.json` lists each such hazard at its line with the properties that cover it.

## Modules

**ReceptionWindow** translates `MessageReceptionState` (73-135). The bitmap is the set of positions
whose bit is set. Python never masks the integer, so bits beyond the window exist, but no test
reads them: the set keeps positions inside the window. `CounterMod` is 2^32 and `WindowSize` is 32
in the code.

**MessageReception** is one peer's reception state driven by any counter in any order. `times`
counts how often a counter was accepted (capped at 3) and `sinceMove` holds the ones accepted since
the maximum last moved; both are history.

**ExchangeLayer** is one established session. `exchange` is the Python objects: an object leaves
the table (`open`) before the tasks that hold it end. `tasks` is a bag of the tasks alive with the
step each is at; a task runs until it awaits, so an action is the code from one await to the
next; whether sends wait for the socket (`sendMaySuspend`) is chosen at the start. `Receive(m)` is `process_recv_matter_frame` for message m, any number of times and in any
order, which is the network's loss, duplication and reordering. `RunAck` and `RunHandler` start
the body of an acknowledgement and of a protocol handler; `FinishAck` and `FinishReply` are what
follows the awaited send. What a protocol handler does is external: it may answer, close the
exchange, both or neither, as those of `secure_channel.py` and `interaction_model.py` do. The
retransmission table is not part of the state: `send_message` tests the context against
dictionaries keyed by identifiers (508), finds it in neither and always clears the
reliability flag. The first id may be 2^16, one more than a header has room for (297, `randint` includes its end): encoding its message
raises, and the exchange stays.

**SessionTable** is the handshakes and the table. Each handler is one action: its only await is the
send of its reply on a datagram socket that has room, which does not yield. `Session.fabric` and
`outlived` serve the properties. `detached` is the sessions removed from the table for which
dispatched requests still run, since `handle_message` keeps the object.

**Commissioning** extends SessionTable with the root node. `MayAdminister` is the access check of a
command: the PASE exception while the device is in commissioning mode, or an entry of the
session's fabric. A command that raises half way is an action with the effects up to there: an
invalid verifier leaves `pbkdf_params` replaced; a session whose fabric is gone leaves the window
open but no vendor id. `StopAndLoad` is a stop between two handlers and the load at the next start.
`SaveState` is the save of handlers that change nothing else here and of every event (`report_event`), whoever caused it.
`owner` of an entry and `overtaken`, `lapsed` are history.

**AccessControl** is the evaluation of the list entry by entry, with its early end, subjects (node
ids and CATs with versions), targets, and the two assertions that make it raise; and what `replace_acl`,
AddNOC and RemoveFabric make of the list. It has no state. The evaluation is a recursive function over the
list and is compared with `Deserved`, which says in one set expression what is granted.

**Dispatch** extends it with the interaction model's requests. Its state is the list and the indices in
use; endpoints, clusters, attributes, commands and events are constants, so a declaration says which
privilege it takes, whether it is timed, and what its writer or handler returns. `ReadAttribute`,
`WriteAttribute` and `InvokeCommand` are the methods of the same names: each makes its checks in the code's
order (`ReadStatus`, `WriteStatus`, `InvokeStatus`), for concrete paths and for wildcards, after
`DecompressedPaths`. `Served` folds a batch from left to right over a record of the list so far, the calls
made and the answers; `WriteRequest` and `InvokeRequest` make its list the new one. Nothing awaits between
two items, so a request is one step. Why a writer or a handler raises is the state of other modules (a window, a
candidate certificate, a key, a save), so each item of a request comes with how it ends at each endpoint: it returns, or raises before
or after what it does to the list (`ends`). What makes the decoder raise is told apart by whether `Attribute.write` and
`Command.__call__` catch it (`Malformed`, a ValueError) or not (`Broken`). A read changes nothing here and is an operator the properties evaluate
at every reachable list. Whether a request is timed is an input: the timed interaction before it is
not in the model.

**DoorLock** is the door lock's commands and the state they share, over any number of configured
locks. A handler does not await, so it is one action. `Saves` is `save_state`, which asks every
credential for its key before it opens the file: one holding the bytes of a request
(`cluster.py:602`) makes it raise, and the action is then `Raises`: what the handler had changed stays
in memory, and nobody is answered. `Stop` is a stop between two handlers and `StopInSave` one after the file was opened, which truncates it: it holds
no JSON then (`file = None`). `Start` is the next start, at which every lock loads the same file, or the factory state without one.
`named_by`, `supplied_by`, `reported`, `saved` (what a lock held when it last saved or started), `saver` (the lock that saved last)
and `failures` are history.

**TargetSession** is what a front end promises: one target in play, which moves the bolt at most once.

**NfcInteract** is the `Interact` resource with its two queues per target and the transaction on
them. Each action is a task from one await to the next. `After` is the transaction's program: which
command, or the end, may follow the response to a command; a chained response always ends it,
because `response_chaining` does not await its second transmission (`iso7816.py:121`). `AfterGone` is
the same for "Target gone". `awaited` and `holding` are the reader at the other end of CoAP: with
`orderly`, fixed at the start, it sends a response only to a command it was given, once; without, it
repeats itself and does not wait. The identity of a response is the command it answers. The queues' operations are those of
the asyncio library (external).

**NfcHandler** extends DoorLock with `nfc_handler`: `NewTarget` takes the keys known to the lock,
`Succeed` moves the bolt after any number of commands in between, `Fail` is every other end. `late` is
history: how often a credential was used since it was cleared.

**Subscriptions** is the subscriptions in time. A `Subscription` object outlives its entry in the table:
its timer or a task that has not started may hold it, and `Update` drops it only when nothing does.
`attributes_changed` and `report_event` note the change and queue a task (`RunTask`), which reports at
once or brings the timer forward (`ReportNow`); `TimerDue` is the end of the timer's sleep. A second
passes (`Tick`) only when no task is ready and no sleep has ended: handlers take no time against intervals
of seconds, which is what the bounds of the timing properties assume of the machine. A report is one step:
its send is taken to find room in the socket and its reads not to raise. `waiting` and `left` are history.
`pending_subscription_reports` is kept by the ids in it; a success leaves the exchange there for ever.

**RequestFlow** is what the interaction model sends on an exchange and when. A `channel` holds what
`protocol.py` keeps by exchange, the in-flight marker and the pending messages, and the history the
properties compare them with. `ChunkReportData` cuts a report's encoded lengths as `chunk_report_data` does
(attributes, then events, are one sequence: they share the running length). Handlers run in the order of their
messages, each a single action, except that write, invoke and timed requests are one action for each access to
`_timed_requests` and `_expired_timeouts`: the callback of a `threading.Timer` (`Elapse`, `CallbackDeletes`,
`CallbackAdds`) runs in a thread of its own between any two of them. Exchange ids come around, so an
exchange stands for all that ever compare equal to it: the interaction model's tables are not cleared when it
is closed. A write or an invoke may also end with neither answer nor close (`Perform`): a chunked write, and an item that raises. A peer keeps to the protocol in one respect only: on the device's exchanges it just answers.

**DtlsServer** is the task that runs the server, one action for what it does between two waits: `Receive` a datagram
or be `TimedOut`, then `WaitAgain` for the earliest timeout. What wolfSSL answers to a call is any of the results
the code tells apart; it is external, as are the eight random bytes of a connection id. An object is one
`DTLSInternalConnection` with its pointer, which comes again after `Delete`. `ReadQueue` is `process_connection`
(`coap.py`), and `StartWrite`, `OnWritable` and `FinishWrite` are a `write` up to, at and after its wait for the socket:
the rest of a `write` runs when the server already sleeps on a timeout it computed before. `conn_by_ptr` keeps the
pointer of a connection whose stateless accept failed (428), and the model with it (`freed`). The code gives a new
connection no timeout until its second datagram (422-425), and none if wolfSSL asks for none (472): such a one
whose peer is not heard of again stays. A datagram that bears no known id but comes from the address of a
connection is given to it (413), which sets its idle timeout back. A message that does not decode ends
`process_connection` (`coap.py:50`), after which the queue of the connection grows unread. An error of a write (a result
below zero) is ignored.

**Mdns** is the responder. Answering changes no state, so `Response` is an operator that the properties evaluate in
every state, for each query of the run; it has the replies to each type of question (`Replies`) and what the known
answers of the querier keep out (`Needed`). An announcing task is followed through its sleeps (`Wake`), its packets
and the sends that wait (`Send`); tasks share nothing but the socket, so `task` is any one of those there are. The
commands of the root node are reduced to what they change of what is published. `due` and `outdated` are
history. Where the code does what one might not expect, the module follows it: the services query lists `_matterc` and
`_aliro-coaps` but not `_matter`; questions of type ANY are not answered; one question that asks for a unicast answer
makes the whole answer one; a fabric's announcement carries the text record of the device's instance, not of its
own (195); the name of the CoAP instance does not change with the window; there are no goodbye packets, so that listeners keep a
closed window until it expires with them. A fabric's packet is sent twice in a row (197, 201), the device's once (146); each
is one `Send` here. A packet that the socket refuses is lost without notice (`except OSError: pass`): `Send` takes it for
announced.

**Absent** declares `None`, Python's None, for the modules that are proved about side by side: two declarations of one name
cannot be extended together. For the same reason `ReceptionInit`, `InteractNext`, `mdnsVars` and the like carry their module's name.

**MC modules** give the constants of the runs: `MCExchangeLayer` the kinds of messages,
`MCRequestFlow` what there is to read, `MCDispatch` a root node, two locks, sessions, entries and requests,
`MCNfcHandler` the lock of each front end, a bound and a symmetry set, `MCSubscriptions` two requests, `MCCommissioning` the
symmetry set, `MCMdns` fabrics, addresses and queries. `MessageReception`, `NfcInteract` and `DtlsServer` are run as
they are.

### Proof modules

| Module | About |
| --- | --- |
| `ExchangeLayerProofs` | `MessageReception`, `ExchangeLayer` |
| `CommissioningProofs` | `SessionTable`, `Commissioning` |
| `RequestFlowProofs` | `RequestFlow` |
| `DispatchProofs` | `AccessControl`, `Dispatch` |
| `SubscriptionsProofs` | `Subscriptions` |
| `ReaderProofs` | `DoorLock`, `NfcHandler`, `NfcInteract`, `TargetSession` |
| `NetworkProofs` | `DtlsServer`, `Mdns` |
| `Iteration` | lemmas the others use: the least member of a set of naturals, and functions defined by iteration |

## Runs

| Run | Question | Bounds and why they suffice |
| --- | --- | --- |
| MessageReception | how often is a counter accepted, is a fresh one refused | 9 counters and a window of 3: the maximum crosses the window three times, so every bit is shifted in, through and out |
| MessageReceptionOnce | is a counter accepted once | the same; a violation, see below |
| Exchange | do interleaved tasks acknowledge what was not received; is a close brought to its end, and leaves nothing owed; is an owed acknowledgement settled | two messages of any kind, two objects, three tasks, one device exchange with the only exchange id, sends that all may wait or none: a duplicate, a collision of ids and an overtaken acknowledgement all occur |
| RequestFlow | are parts sent whole, in order and one at a time, across conversations on one exchange; is an entry for a timed interaction used once | one exchange of each side, used again and again (exchanges share nothing but the loop); four messages or reports, so that a report of three chunks is answered to its end, meets the next request half way, or a second timed request meets the timer of the first; reports that are empty, that fill a chunk exactly and that leave a rest; two handlers that wait |
| Commissioning | do windows, their timeout tasks, the verifier and the mode agree; who owns an identifier, whose fabric a session is of; do entries and disk belong to the fabric that holds the index | one exchange, two identifiers, which run out and are reused; two fabrics that hold the one index in turn, so that a handshake outlives its fabric; two cancel tasks (a stale one and a live one); one removed session with requests. That more of any of these make no difference is proved |
| Dispatch | does the evaluation grant what the entries deserve; is every writer and handler that runs permitted at its turn; do wildcard reads and invocations do what concrete paths would; is a request answered | two fabrics, so that one index is freed and given out again; up to three entries in the list and two per write: an entry before, between and after others; a root and two locks, so that a wildcard goes on after its first endpoint; a cluster for each way an attribute or a command may be declared and return; items that raise, before or after their effect, that do not decode, in both ways, and that leave out their command; batches in which an item takes away, or gives, the next one's permission |
| AccessControlTarget | do stored targets meet the preconditions the evaluation states | the same; a violation, see below |
| NfcInteract | is every POST answered, does every response reach its command, does one target at a time move the bolt; what of that holds for a reader out of turn | two targets, so that one is replaced while its transaction runs; two POSTs, of which one may wait to put while the other waits to get, or belong to the replaced target; both kinds of reader |
| NfcHandler | what may users, credentials, bolt and report disagree on; what does a start bring back of each lock; how often does a cleared credential still move the bolt | two locks that share the file, one with two front ends; two fabrics, so that one is not the creator; two users, the second with the index that means everyone; a credential of each of two types, so that one can be evicted; one handler in a row may raise; stops between handlers and in a save. `Bound` goes on from a state if the second lock has not saved yet, in which case the first has all of this and its transactions, or if there is no transaction and the two locks hold two users or credentials between them: enough for either to be unable to save while the other saves. More make no difference, which is proved |
| Subscriptions | is news reported in time, are reports far enough apart, is a timer lost or left behind | two objects and two ids, so that a subscription is replaced, removed or revived beside another; one subscriber in each of two fabrics; a request whose maximum is too short for the five seconds' lead and one with urgent events whose reports come later than its minimum; one task of a kind per subscription |
| Dtls | do the tables agree however a connection ends; does the server sleep past a timeout; does a silent connection go; are records read and writes finished | three objects: one that listens, and two connections, one of which ends, is deleted and comes again; two addresses, so that a datagram finds a connection by id, by address or not at all; a handshake timeout of nothing or 1, an idle timeout of 2: a wait for the one ends before, with and after the other; one retransmission; one record in a queue. That more make no difference to the first two is proved |
| Mdns | is an answer true and, with what the querier knows, complete; is an announcement true; is what was begun announced | two nodes of one fabric (the same discriminator record) at two indices, so that an index is freed and held by the other while a task sleeps; two discriminators; two interfaces, so that a packet is made while the one before waits; one successor of each task; seven queries, each for a rule of the responder: several questions, half expired, stale and partial known answers, classes and types it does not answer |

Every bound is a constant or a named guard: `MaxInitiated`, `MaxObjects`, `MaxTasks`, `MaxInputs`, `MaxWaiting`,
`MaxDetached`, `MaxCancelTasks`, `MaxWritten`, `MaxEntries`, `CountCap`, `MaxFailures`, `MaxQueue`, `Bound`,
and the sizes of `Interaction`, `Post`, `Object`, `Peer` and `Query`. `CHECK_DEADLOCK FALSE`
stands where the system may stop: no message left to send, all counters used, a full id table.

### Disagreements with the repository's own comments

1. `MessageReceptionOnce`: "# Returns true if a duplicate" (`message_layer.py:105`). `_update_max`
   (100-102) does not mark the former maximum, so it is accepted once more after the maximum has
   moved. `AtMostTwice` states, and the proof shows, that it is never accepted three times.
2. `AccessControlTarget`: "# Precondition: target cannot be empty" (`acl.py:101`) and "# Precondition:
   target cannot specify both endpoint and device type" (`acl.py:103`). `replace_acl` does not look at the
   targets of an entry: it stores one with both fields, and stores `t.endpoint or None`
   (`root_node.py:134`), so a target of endpoint 0 alone is stored empty. The assertion then raises
   whenever the evaluation reaches the entry.

### What the properties had to allow

Where the code does not give the plain statement, the property names the exception and holds with
it. `SessionsHaveTheirFabric` excepts a fabric removed between sigma 1 and sigma 3
(`case_sigma_3` does not look it up again). `EmptyIsCommissionable` excepts a window that outlives
the last fabric and a session that gave itself entries after its fabric was removed.
`GrantsAreNotInherited` excepts entries such a session wrote.
`OwedIsSettled` holds only while a send does not wait for the socket: `send_message` clears the
acknowledgement after its await (524), also one registered in between. `ClosesAreFinished` has the same
condition in part: a close that overtakes a waiting send leaves that send's exchange in the table.
`StopAndWait` promises the next part for an answer on the peer's exchanges only: SUCCESS to a report of a
subscription closes its exchange (366-367), so of a report of several chunks only the first is ever sent, and
the marker and the other chunks stay for the exchange that gets the id next. And it does not say that the
answer comes: the last part of a read tells the peer not to answer, the marker stays, and a read, subscription
or timed request on an exchange with the same id (they come around after 2^16) is queued behind it; a write or
an invoke releases first (319, 328), the part of the older conversation if one is left.
`ReportsAreWhole` also says that the parts of a report follow each other with nothing in between. It excepts a last report that fills its chunk exactly: the chunk says that more come (428-433) and
the peer waits for a chunk there is not.
`EntriesUsedOnce` is all that is promised of timed interactions. A second timed request is answered with a
mismatch and then carried out (683-693), so the timer of the first ends it early; between the two statements of
the callback (689, 690) an exchange is in neither table, and an untimed write is admitted; a handler that finds
its entry gone raises KeyError and nobody is answered; expired entries are never removed.
`StartsAsSaved` says that a start brings a lock back to what it held when it last saved: what a handler left that raised is
lost with the process, but costs nothing that was saved. It has two exceptions, both of which the run has. `config.yaml:17-20`
declares `locks:` as a list and `main` makes a device of each (`__main__.py` 187-193), but all of them load and save one custom
state, "door_lock" (`device.py:60`, `:107`): all start as the one that saved last, and the others' users and credentials are gone.
And `save_custom_state` opens the file before it writes (`matter/device.py:269`): a stop in between costs every lock all it had,
and the next start is the factory's. After `SetCredential` modified a credential, every save of that lock raises until the
credential is cleared: commands take effect in memory, nobody is answered (nothing between the handler and the task of the message
catches it), and what they did is lost at a restart. `BoltIsReported` excepts the reports of these saves.
`CredentialsBelongToUsers` needs no exception.
The creator of a user is a fabric index (`cluster.py:292`): no code clears the users of a fabric that is removed, and the next
fabric with the index inherits them.
`ResponseFitsCommand` and `PostsAnswered` are about an `orderly` reader. A reader that responds twice can have a
POST wait in `response.put` for ever: the end of a transaction shuts the command queue only.
`ClearedSoonUseless` is what the code gives for clearing a credential: a transaction that started before
may still use it, so at most one use for each front end remains.
`StrayTimersAreKnown` names the timers that outlive their subscription: `subscribe_request` drops the
replaced ones without cancelling them (516-523), starts the timer of one it then does not enter
because a path could not be read (528), and a `report_now` queued before a cancellation re-arms the timer
after it (188-196). They report for ever, and nothing can cancel them. Ids are reused, so the
answer INVALID_SUBSCRIPTION to an old report may remove the subscription that has the id by then
(370-373). A request with minimum 0 and maximum at most 5 makes `report` re-arm itself with no
delay; the timing properties then say only that no time passes, and the run leaves such a request out.

`WildcardsMatchConcrete` is `ReadsMatchConcrete` and `CallsMatchConcrete`. The latter asks that the calls be the concrete
ones up to the last endpoint called (`InOrder`), not all of them: `invoke_command` assigns the result of one endpoint to the variable that holds the fields (1390), so a command that decodes its fields runs on the first
endpoint and is refused on the others. A handler that takes no fields runs on all of them, unless it answers
with a pair of statuses, which the wildcard branch cannot encode (1398): it raises after the first.
`RequestsAreAnswered` names what goes unanswered, since nothing catches what serving an item raises: chunked writes, which are not
implemented; an invocation that leaves out its cluster or command, which the line that logs the path formats as a number
(`interaction_model.py:646`); data whose decoding raises anything but a ValueError, such as fields out of their order (`tlv.py:314`,
an IndexError); writers and handlers that raise themselves, of which there are many (an invalid verifier and a fabric that is gone,
`root_node.py` 546 and 553; the certificates of AddNOC; the enumerations and the key of a credential, `cluster.py` 439 and 481;
every save that fails); Identify's command and its `identify_time` writer, which return nothing where a status is read
(`interaction_model/cluster.py:252`, `interaction_model.py:1229`); commands without a handler; a pair of statuses for a wildcard;
and evaluations that meet a target their assertions refuse. What it promises is the rest: no request is lost to which none of this
applies, whatever lists the requests before it left, and a write has a status for every item. A request may ask that its answer not be
sent. A read of a wildcard cluster on an endpoint there is not is silent too (924, a KeyError).
`ReadsMatchConcrete` leaves out wildcard paths that name their event: the endpoint's variable is rebound to
the event (1134), and the key registered is one no report has. And of what a data version filter suppresses it says only
that both kinds of path suppress the same: a subscription does not register it either (883, 939), so later changes of it are
not reported.

`TablesAgree` says of a negotiating connection what it says of all, but `NeverOversleeps` gives a timeout to
established ones only, and `SilentIsRemoved` speaks of a connection that has one. `RecordsAreRead` excepts a reader that
met a message that does not decode. `AnnouncedInTheEnd` is about what was begun: a restart forgets it, since `load_state`
begins no announcement of fabrics; the removal of the last fabric turns commissioning on (`root_node.py:946`), and a window
opened by a session whose fabric is gone is open (553), without one. `PacketsAreTrue` excepts a packet made before a change, and of
a fabric also those of the round under way: the fabric was looked up when it began.

Identifiers drawn by a handshake that fails are never released (`secure_channel.py` 254, 429 and
others); after 0xFFFF of them no session can be established until a restart. The Commissioning run
has such states; no property claims the contrary.

## Fairness

`FairSpec` of ExchangeLayer: strong fairness of `Run` and `Finish`. asyncio runs each task that is
ready, in order; that one of them starts can be delayed by others between its being enabled and
not (while a send is between its two steps), hence strong. Receiving is not fair: the
network owes nothing. `InteractFairSpec`: weak
fairness of each transaction and of each POST's task; what such a task waits for, once there, stays
there until a task of the same target takes it, and asyncio wakes the waiters of a queue in turn. A
reader is not fair: it may fall silent at any point, and then its transaction waits for ever. `FairSpec` of DtlsServer: weak
fairness of time, of the expiry of a wait (which no datagram disables: with no time left `wait_for` does not look at the
socket), of the socket becoming writable, and of each connection's reading task and each write that can go on. Peers are not
fair, and wolfSSL is not either: a handshake may go on as long as datagrams arrive. `MdnsFairSpec`: weak fairness
of `Wake` and `Send`, a sleep that ends and a socket that takes packets again. Queries and commands are not fair.

## Proofs

TLAPS checks for all values of the constants that meet the named assumptions of the modules; TLC evaluates each of these on
the runs. Most of them only say what a constant is. Those of `Dispatch` say more: endpoints are numbered from 0 without a gap,
as `add_endpoint` does (`DispatchAssumption`); None is no endpoint, cluster, attribute or kind of result, and the two kinds of data that do
not decode are two (`NoneAssumption`); a decoded write holds lists where the decoder makes lists, and every item says how the code it
runs ends at each endpoint, in any of the ways there are (`RequestAssumption`), and a decoded path has all
its fields, those left out as None (`ReadAssumption`).

What a recursive operator computes is out of reach here, so the modules define by a recursive function on `0 .. n`
what the code does in a loop: `GetGrantedPrivileges`, `WriteItems`, `InvokeWildcard`, `SendAll`, `ChunkReportData`.
`Iteration` proves, from the least member of a set of naturals (the library's well-founded induction on them), that such a function
exists (`IterationExists`) and that what every step keeps holds at the end (`Upwards`). The proofs about loops are
then about one step.

* `ExchangeLayerProofs`, duplicate detection. The inductive invariant adds to the types what the two history
  variables mean for the bitmap: a counter accepted since the last move has its bit set; one
  accepted twice is either in the window with its bit set, or behind it; and a fresh one in the
  window has its bit clear. The three properties follow. Modular positions are handled by lemmas
  about `%`.
* `ExchangeLayerProofs`, exchanges. `AckIsSound` is about acknowledgements that were sent; the invariant says the same of every one
  that is yet to be: what an object keeps to acknowledge, and what a task carries, is owed, and for the exchange it is
  on (`Good`). It holds of objects and tasks at each of the small steps an action is made of (`GoodSpawn`, `GoodTake`,
  `GoodSet` and so on), so an action's proof is their chain. `ClosesAreFinished` has two parts: what left the table owes
  nothing, which is in `Good`; and, while no send waits for the socket, an exchange that closes has the task that
  takes it out, which needs that at most one task is in a send then (`Quiet`).
* `CommissioningProofs`, the session table. `IdsAreReserved` and `OneOwnerPerId` are inductive only together: a new
  handshake draws an identifier outside `in_use_session_ids`, which is nobody's because all owners are
  reserved; a release is safe because the owners are unique. `SessionsHaveTheirFabric` needs the same
  statement for pending handshakes and for the detached sessions that may take an index.
* `CommissioningProofs`, the whole. `ImplementsSessionTable` shows each step of the composed system to be a
  SessionTable step or a stutter, so its invariants carry over (`CommissioningKeepsIds`). The
  other theorems rest on one invariant `CInv` that ties window flags, cancel tasks, verifier,
  administrator, entries and the saved state together; `AdminFollowsWindow` is part of it.
* `RequestFlowProofs`. The invariant has four parts, and most actions disturb one or two of them. A channel is orderly (what was
  sent and what is pending are together what was handed over, something is pending only behind the marker, one part is unanswered at
  most) and whole (`IsWhole` for every report handed over, and no part of one beyond them); a peer's exchange is also attended: the
  marker stands for exactly one unanswered part, whose answer releases the next. The inbox holds requests on the peer's exchanges
  only. The handler under way is at one of its accesses. An entry that was admitted, or lapsed, or is still there was
  made. `ReportsAreWhole` rests on `ChunksWhole`: whatever is read and whatever a chunk's size, the chunks joined are what was
  read, all but the last are full, and the last is full only if it says that more come.
* `DispatchProofs`. `GrantedIsDeserved` compares the evaluation with its reference for any list: as long as it has not ended
  early, what it granted is what the entries so far earn; once Administer is granted nothing more can be
  earned. Serving a request passes from one record to the next, and every step keeps `Good`: a list of admitted entries, and
  calls that were deserved (and timed, where that is asked) at the list of their time. Which entries are admitted is a
  parameter: all that can be stored (`Entry`) for the type invariant, `GrantsMatchReference` and `CallsAreDeserved`; for
  `RequestsAreAnswered` those that no assertion of the evaluation refuses (`UsableEntry`), since a request that may
  write others is excused. `ReadsMatchConcrete` reduces both kinds of path to one predicate of an object and an attribute
  (`Shows`). `CallsMatchConcrete` follows the walk over the endpoints (`Follows`): it has called all that run the command
  so far, at the list the request began with; or it has ended itself; or a result has taken the place of the fields, and
  no command that decodes them is called again. A command that changes the list must decode its fields for this: both that do,
  AddNOC and RemoveFabric, declare a type for them (`DispatchAssumption`).
* `ReaderProofs`, door lock. The inductive invariant is types, `Consistent` and `DecidedByCreator` for every lock and
  for the file, plus `Serializable(file)`: the file needs them too because every lock may start from it.
  Lemmas say once what `Saves` and `Raises` keep, given that the new state is well formed, and one lemma
  per kind of change shows that it is. For
  `StartsAsSavedHolds` it adds what the file is (`FileIsSaved`): what the lock that saved last held then, if one saved since the
  start, and otherwise what every lock started with; nothing only after a stop in a save. A handler that raises changes neither
  the file nor what was saved, since a save asks for the keys before it opens the file.
* `ReaderProofs`, front ends. The invariant says that a transaction which is not the current one has its response
  queue shut and empty, so it can only learn that its target is gone. With it each action is a step
  of TargetSession or a stutter: only `ReceiveResponse` moves the bolt, and only for the current target. After
  "notify" no command follows that could move it again. `ResponseFitsCommand` needs what taking turns means for the one
  target in play (`TurnTaking`): its command is in the queue, with a POST that may take it, or at the reader, or answered in
  the response queue, and in no two of these places.
* `ReaderProofs`, transactions. `HandlerImplementsDoorLock` shows that every step of readers and commands is a step
  of `DoorLock` or a stutter, so what is proved of the lock holds with transactions under way. For
  `ClearedSoonUseless` the invariant counts: for a credential the lock no longer has, the uses since it was
  cleared and the transactions that still hold it are together no more than the front ends. A use ends the
  transaction that held it, a new transaction never holds it, a command changes neither number unless it
  adds the credential again (and then nothing is owed) or clears it (and then the count starts at 0).
* `SubscriptionsProofs`. The invariant relates the timer to the last report: counted from it, the timer falls
  due between the minimum interval and the promised one, and exactly at the minimum while a report is pending;
  and news nobody was told of is pending, or it is new and a ready task sees to it, in which case no time can
  pass. Every action but `Tick` changes objects one by one and then drops the unused (`ObjectByObject`,
  `UpdateKeeps`), so each lemma is about one object. `Pace` shows that only a report sets the clock back, and
  that both of its callers come no earlier than the minimum.
* `NetworkProofs`, DTLS server. To the two properties the invariant adds what keeps the ends of a connection apart: the context
  that listens is not shut; only a connection whose handshake is over has tasks, so a write that fails removes neither
  the listener nor one that negotiates; and the one a timeout is awaited for was accepted and is not deleted meanwhile. The
  lemmas are about the two things that happen to the tables, `RemoveKeeps` and `RegisterKeeps`, about the next context
  that listens (`AcceptKeeps`, `FatalKeeps`), and about the wait (`WaitsForEarliest`).
* `NetworkProofs`, mDNS responder. `AnswersSuffice` is a fact about `Response` in any state. Per type of question there is a lemma that
  says which records are answers and which additional (`PtrAnswers`, `SrvAnswers`, `TxtAnswers`, `OtherAnswers`); from these follow that
  they are true, complete and reach what they point to, and a record that is left out is one the querier
  knows. For `PacketsAreTrue` the invariant adds that the fabric a task looked up is still the one at its index
  while nothing changed since (`Heeded`): the second packet of a round is made from it without another look.

The type invariants are proved and not checked in the runs.

Every safety property of the passing runs is proved. Model-checked only is liveness (`OwedIsSettled`, `PostsAnswered`,
`ReplacedEnd`, `SilentIsRemoved`, `RecordsAreRead`, `WritesEnd`, `AnnouncedInTheEnd`): the provers have no rule for fairness
or ENABLED. The two violations are shown by TLC.

## Not modelled

* Byte encodings, cryptography, certificates and generated message classes are pure functions of bytes: their verdicts
  are nondeterministic inputs. That a saved access control entry with a target cannot be loaded (`device.py:230`: the keys
  of the entry are read where the target has them, so every start raises) is of this kind: there is nothing to
  interleave, and the models restart with entries that have no targets.
* Data versions. Dispatch takes a filter as the set of objects it suppresses. The versions wrap at 2^32 (`cluster.py:337`)
  while filters compare with `>=` (883, 939), and are saved only when a handler saves the state, so versions may be given
  out again after a restart.
* A stop in the middle of writing `device_state.json`; that of the locks' file, which is written in the same way, is in
  `DoorLock`.
* Sends of the interaction model that wait for the socket, by which its handlers could interleave. ExchangeLayer has
  them for the layer below.
* Retransmission by the device, which the code never starts. Group sessions, group keys and general diagnostics, which
  the repository's README lists as not implemented.
* The device that the DTLS verify callback notes for a connection, and the parsing of CoAP requests.
* The certificate and schema scripts beside the package, which do not run in the device.
