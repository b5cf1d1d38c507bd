# A TLA+ model of the QoD path of free5gc-qod-enforcement

The repository is a free5GC core (13 network functions in Go) extended so that an
application can ask for *quality on demand*: an application calls the NEF
(AsSessionWithQoS), the NEF creates an app session at the PCF, the PCF changes the
policy decision of the PDU session and notifies the SMF, the SMF turns the decision
into PDRs and QERs and installs them in the UPF over PFCP, and the UPF's gtp5g module
enforces the rate.  This directory holds TLA+ modules of that path, the TLC
configurations that check them on small instances, and TLAPS proofs for every
instance.  `PROJECT.json` lists the runs, the source lines behind each definition,
the hazards, the findings and the theorems.

## Inventory

| Component | State | Operations | Talks to | What is hard | What makes it correct |
|---|---|---|---|---|---|
| UPF PFCP server (`go-upf/internal/pfcp`) | remote nodes, session table with a free stack of SEIDs, rule tables of each session | association set-up, session establishment, modification, deletion, reports and their responses | SMFs (PFCP), gtp5g (netlink), perio server | recycled SEIDs, takeover of sessions, driver calls that fail one by one, counts of PDRs per URR | the tables agree with each other and with gtp5g; a live session is never another's |
| UPF PFCP transactions | Rx and Tx transactions, timers, sequence numbers | receive, retransmit, time out, stop | the server's main loop, UDP | duplicates, late answers, a timer that has fired when its answer arrives | a request is handled once, a report ends once, every transaction ends |
| UPF forwarder and perio server | ticker groups, event and report channels, packet buffers | add, delete, tick, query, notify, buffer, flush, stop | main loop, gtp5g | bounded channels written in both directions | nobody waits on everybody; periodic reports follow the rules |
| SMF QoS enforcement (`smf/internal/context`) | PCC rules, QoS data, QFIs, data paths, QERs, QerUpfMap | apply a decision, build a PFCP request, clean up | PCF (notifications), UPF (PFCP) | QERs shared between rules, loops over maps that return half way, lost PFCP answers, QFI range | the UPF holds what the SMF thinks, with the right rates, and nothing else |
| SMF session life cycle | SM contexts, their pool, SMLock, T3592, the address pool | create, update, release, policy notification, loss of the UPF | AMF, UDM, PCF, UPF | removal goroutines, calls to the AMF under SMLock, late answers of UE and gNB, an SEID that outlives its session | a session that ends leaves nothing behind, and is not another's end |
| PCF policy authorization | policy decision, app sessions, remaining bit rates | POST, PATCH, DELETE of an app session; requests of the UE; end of the policy | NEF, SMF | concurrent handlers without a lock; failures half way through a request; rates taken and given back along different paths | the guarantees fit the aggregate; a rule id is never another rule's |
| NEF AsSessionWithQoS | AFs and their subscriptions | POST, PATCH, DELETE | applications, PCF | two levels of locks, a PCF call under a lock, lost answers | a subscription is reachable and lives as long as its app session |
| NEF traffic influence and PFD management | AF data, PFD transactions | handlers, the SMF's callback | UDR, PCF | as above | PFDs the UDR holds are not forgotten |
| AMF | UE contexts, routing entries | transport of session messages, status notifications | SMF | a lock of the UE held over calls | – |
| AUSF, CHF, N3IWF, TNGF, NRF, NSSF, UDM, UDR | – | – | – | unchanged free5GC, beside the QoD path | – |
| `scripts/qod-controller.py` | a file with the session it asked for | baseline, create, get, delete | an HTTP gateway outside the repository | – | – |

The order of the modules follows the data back from its effect: what the UPF enforces
(UpfSession), how a decision gets there (SmfQos), how requests reach the UPF and reports
leave it (PfcpTransaction, UpfReport), what a session's life and end do to all of it
(SmfSession), and where decisions and requests come from (PcfPolicy, NefAf).

## Modules

| Module | Models |
|---|---|
| `UpfSession` | The PFCP server of the UPF: nodes, session table, rules, reports |
| `PfcpService` | What the PFCP transactions promise: the abstract specification |
| `PfcpTransaction` | The transactions of the UPF over a network that loses, repeats and delays; implements PfcpService |
| `UpfReport` | The goroutines around the UPF's reports and the bounded channels between them, the packet buffer, the shutdown |
| `SmfQos` | The policy decision of one PDU session at the PCF, its application by the SMF, and the rules of the UPF: three components composed |
| `SmfSession` | The life cycle of a UE's SM contexts in the SMF, with the AMF, PCF, UDM and UPF as far as it can tell |
| `PcfPolicy` | App sessions, PCC rules and guaranteed bit rates of one SM policy in the PCF |
| `NefAf` | The handlers of the NEF as goroutines over its locks, with the calls to PCF and UDR in the middle |
| `MC...` | The instances of each module: model values, definitions too long for a cfg, symmetry |
| `UpfSessionProofs`, `PfcpTransactionProofs`, `UpfReportProofs`, `SmfQosProofs`, `SmfSessionProofs`, `PcfPolicyProofs`, `NefAfProofs` | Theorems about each module |
| `FiniteSums` | Sums over finite sets, for PcfPolicyProofs |

How the modules meet.  SmfQos composes PCF, SMF and UPF for one session and abstracts each
to what a rule needs; PcfPolicy and UpfSession are the PCF and the UPF in detail.
SmfSession has the UPF's session table of UpfSession (a new session takes the SEID freed
last) as an external component.  PfcpTransaction justifies that a PFCP exchange is one of
done and answered, done but the answer lost, or never received, which is what SmfSession
and SmfQos assume of it, and PfcpService states it.  UpfReport takes the rule tables of
UpfSession down to one URR per session.

Operators named `..._Something` under the comment "Faulty variant" are mutated forms
of the definition after them: each is a plausible mistake in the code, and for each a
property of some run fails.

### UpfSession

`PfcpServer.main` is one goroutine that takes events from channels, so a handler is one
action, named after the Go function.  `owner`, `rseid`, `book` and `free` are the slots
of `LocalNode.sess` with `LocalNode.free`; `nodeSess` is the `sess` map of each
`RemoteNode`; a RemoteNode object is a number (`Handles`) because renaming
(`UpdateNodeID`) and replacing are different things.  `kern` is what gtp5g holds; each
driver call for an id in `Flaky` may fail, and a failing call has exactly the effect the
Go method has when it returns early.  FARs, QERs and BARs are handled alike by `node.go`
and are one kind of rule here.  A panic ends the program (`log.Fatalf`), which is
`up = FALSE`.  A request whose session or association is unknown changes nothing and is
left out.  Each step of a modification is a function on the session's tables, in the
order of `session.go`; the iterations of one loop over IEs are independent and are taken
together.

Bounds: `MaxSess` slots, `MaxNodes` RemoteNode objects, `MaxIEs` rule IEs per request,
`MaxSeq` URSEQN.  Three slots (`upf_sessions`) are enough for a stack of two with a live
session beside it, and two SMFs for a takeover; two PDRs and a URR (`upf_rules`) are what a
count of PDRs needs to go wrong, and two RemoteNode objects of one node ID a set-up after a
set-up.

### PfcpTransaction and PfcpService

PfcpService is four facts: a request of the SMF is handled at most once, the SMF is
answered only for a handled request, a report of the UPF ends exactly once, and it is not
given up after its answer was received.  PfcpTransaction is how the code does it:
`rxTrans` keeps the answer of each request for `RxTimeout` after it came, `txTrans` repeats
a report every `RetransTimeout`, `MaxRetrans` times.  Each case of the `select` in
`PfcpServer.main` is an action.  The refinement maps `got` to the requests whose answer
the SMF has and `outcome` to the state of each TxTransaction.

Time is discrete and bounded by what counts down: a timer at zero may fire now or later
(`FireTimer`), and what it puts into `trToCh` is taken later still, so that a timer may fire
before and be seen after the answer it waited for.  A packet takes at most `MaxDelay`.  What
the peer does is external (the PFCP library of the SMF); it repeats a request for
`PeerSpan` at most, and `PfcpAssumption` says that the last copy of it arrives before the
UPF forgets its answer.  Without that no server with a timer could promise to handle a
request once.  Errors of marshalling and of the socket are a lost packet.

Bounds: one request and one report at a time are enough for every race, because
transactions with different numbers share nothing but the channel; the counts of
retransmissions are those of the configuration file.

### UpfReport

`main`, the perio server, one ticker goroutine for each period and the multiplexer of
netlink (external) run concurrently.  `evtCh` and `srCh` are the two bounded channels; a
send blocks when its channel is full, and panics when it is closed.  A request of the SMF
is one action that changes the tables and leaves a list `todo` of the sends and netlink
calls the handler makes in its order; `called` is main waiting for the netlink answer,
which mux delivers, and mux may itself be blocked on `srCh`.  `q` is the packet buffer of a
PDR, `far` the action of its FAR.  The shutdown follows `PfcpServer.Stop` and
`Gtp5g.Close` step by step.

Bounds: channels of two and one stand for 512 and 128: every state in which a goroutine
finds a channel full, empty or in between occurs.  Two URRs of one period are enough for a
group that shrinks without becoming empty.

### SmfQos

One PDU session, one UPF.  The SMF's handler holds `SMLock` from the arrival of a
notification to the end of `PostRemoveDataPath`; `pc` is where it is.  The loops of
`ApplyPccRules` run over Go maps, so each iteration is an action and TLC tries every
order: `RemovePccRule`, `InstallPccRule`, `InstallPccRuleFails` for rules in the
decision, `KeepPccRule`, `ChangePccRule` for the others.  `ctx` is the part of the
SMContext that data paths live in, and `PreRemoveDataPath`, `CreatePccRuleDataPath`,
`refreshQERRemovalState` and `PostRemoveDataPath` are functions on it.
`ActivateUPFSession` builds the request, which changes the rule states (`Sent`), and the
UPF applies it (`Applied`); `ModificationFails` is the same request without an effect,
which the handler of a notification never learns.

The PCF is its decision (`pcfRules`, `pcfQos`) and the notifications under way.  A POST
hands its goroutine a pointer to the decision, so what is sent is read later
(`posting`); PATCH and DELETE build their own objects.  `net` is a set: notifications
arrive in any order.  `Sequential` says that a request waits until the one before took
effect, which is how the repository's scenarios use the system; without it requests and
notifications interleave freely.

Abstractions.  A QoS datum is its rate, 0 meaning that there is none; data with an empty
rate are not modelled.  A data path is one PDR: uplink and downlink PDR are created,
marked and removed together.  Traffic control and charging data do not take part in the
QER logic.  Ids of paths and QERs come from generators over at least 2^16 numbers and are
taken as the least one that nobody holds, the UPF included; `Room` stops new requests
when lost PFCP requests have used the ids of the instance up.  The QFI generator is
modelled as it is (next free number from an offset on, cyclic), because its range, 2..63,
is small enough to matter; `MaxQFI` stands for 63.  `refreshQERRemovalState` is a map
operation over QFIs in the code and a set operation here: the two agree as long as two
paths to be removed never hold different QERs with one QFI: that is proved for a reliable N4
(`Tidy` in SmfQosProofs), and with faults TLC found no such state in the instance of
`smf_faults`.

Bounds.  What the runs are about needs two rules that share a QoS datum and two app
sessions, one GBR and one not, replaced at least once.  The path and QER ids exceed what
all rules together can hold, so the guards on fresh ids never stop a handler in a run
without faults.  The small `MaxQFI` of `smf_faults` brings exhaustion within reach; with
63 the same state needs 62 leaked QFIs first.

### SmfSession

A context is a number (`ref`), a record of what its end has to give back, and its place
in `smContextPool`, `canonicalRef` and the AMF's table.  Under `SMLock` a handler is one
step for everybody else; a goroutine that calls the AMF takes `SMLock` in a step of its
own (`lock`), because its call waits for the AMF's lock of the UE.  That the AMF holds that
lock during its Create but not during other requests is taken from
`amf/internal/gmm/handler.go`.

A PFCP exchange is done and answered, done with the answer lost, or never received.  Calls
to the PCF and the AMF may fail.  The removal of a context runs in one or more goroutines
(`rm`), each of which may find the context gone.  UE and gNB answer late or never
(`owed`), and a retry of T3592 makes them answer twice.  A restarted UPF has no sessions
and gives their SEIDs out again; the heartbeat tells the SMF later.

Bounds: two PDU sessions, two addresses, two contexts in all, one message and one event
that nobody asked for.  Two contexts are enough for one to replace the other under the same
identity, and one fault at a time is what the properties are about; `smf_answer` has one
PDU session and two messages.

### PcfPolicy

The handlers take no lock.  A request is a step to begin, a step for each media component
in any order, as the loops range over Go maps, and a step to end, and two requests
interleave between these steps; finer interleavings are unsynchronised accesses to Go maps,
whose outcome Go does not define, and are left out.  `modifyRemainBitRate` and the functions
around it are translated with their order of checks and their asymmetry between uplink and
downlink.  A flow is a model string that belongs to one direction.  `told` is what the SMF
holds, each notification applied when it is sent; SmfQos has their reordering.

Bounds: an aggregate of 3 against guarantees of 2 and 1, so that a second guarantee of 2 is
refused; two component numbers, three requests, two workers.

### NefAf

Every request is a goroutine.  `readers` and `waiting` are `NefContext.mu` with Go's rule
that new readers wait behind a writer that waits; `w` of an AfData object is its mutex.
Between two operations on a lock a handler is one step, a call to PCF or UDR another, with
the outcome refused, done, or done and the answer lost.  A subscription is the
correlation number it carries, the app session and whether it has influence data; what the
AF asked for in it is abstracted.  `KnownAfs` are registered at the start; in the run the AF
is (see Observations for one that is not).

Bounds: two concurrent requests of any of 16 kinds, two creations in all, one AF and one
application.  Every pair of handlers meets in every order; three handlers add no new
kind of wait, since there are two lock levels.

## Runs

All runs pass but the two of the second table.  Deadlock is checked in the runs of SmfQos,
where `Rest` is the state in which nobody asks for anything.  Elsewhere a behaviour may
really end: requests are bounded, a server may have panicked or stopped, and NEF and UPF can
block, which `OnlyLockOrderBlocks` and `OnlyFullChannelsBlock` are about.  Symmetry is used
only in runs without liveness, over identities no definition treats specially.

| Run | Shows |
|---|---|
| `upf_sessions` | Two SMFs, three slots, takeover: `FreeListExact`, `OwnerAgrees` (the table, the stack and the owners' maps agree) and `LiveSessionKept` |
| `upf_rules` | Every request with up to two IEs, two PDRs, a URR, a rule, and any driver call for one PDR may fail: `KernelMatchesTables` for the others, `RefNeverAbovePdrs`, `FailedRemovalKept` (what could not be removed will be tried again), `SetupClearsNode` (a new association leaves no session of its node ID) |
| `pfcp_trans` | Loss, duplication, delay, timers, the end of the server: `ImplementsService`, and `TransactionsEnd` under fairness |
| `upf_report` | Two URRs of one period, full channels, shutdown: `PerioFollows`, `TickerPerGroup`, `OnlyFullChannelsBlock`, `NoPacketLeftBehind` |
| `smf_qod` | POST, PATCH and DELETE one after the other, two app sessions beside two rules with a shared QoS datum: `UpfMatchesPool`, `RatesInstalled`, `QerRemovalUnshared`, `NoOrphanPath`, `RulesConverge`, and `DeletedRuleGone` under fairness |
| `smf_race` | Requests and notifications in any order: `EventuallyInstalled`, a rule is eventually installed or withdrawn, under fairness |
| `smf_faults` | Lost PFCP requests, QoS data sent alone, a rule without PFD, one QFI in all: `QerMapLive`, `AmbrInstalled` |
| `smf_session` | Two PDU sessions, a fault or a restart of the UPF, a retry of T3592: `UeIpAccounting`, `PolicyEnds`, `SdmReleased`, `NoOrphanSession`, `StraysOnlyStale` |
| `pcf_policy` | Matched components, UE requests, sponsored data, the end of the policy: `NoOverReservation`, `RuleNeverReborn` |
| `nef_af` | All pairs of requests, lost answers: `OnlyLockOrderBlocks`, `SubscriptionsReachable`, `DeletedOnlyWithSession`, `PfdsNotForgotten` |

Runs that show a disagreement between the code and what the repository says of it (the
quotes are in `PROJECT.json`):

| Run | What happens |
|---|---|
| `smf_answer` | A goroutine that removes a context holds SMLock while it waits for the AMF, and the AMF waits for a Create that needs that SMLock: its request is not answered |
| `pcf_gbr` | Components with a downlink flow only, as the repository's evidence shows them, reserve an uplink rate that is never taken from what remains: the guarantees exceed the aggregate |

### Fairness

- SmfQos: `WF(SmfNext)`, because the handler that holds `SMLock` is a goroutine that is
  always ready to go on and the HTTP server starts a handler for each notification
  delivered; `WF` of `SendSMPolicyUpdateNotification`, because a goroutine that was started
  runs.  Nothing is assumed of the requests, and the runs with liveness have a reliable N4.
- PfcpTransaction: a packet arrives or is lost in time (`Due`), time passes, timers fire and
  main serves `trToCh`.  Nothing obliges the peer to send or the network to deliver.
- SmfSession: `WF` of the handler that serves a request and of the goroutine that
  follows the loss of a UPF, `SF` of the goroutines of a context, since Go's mutexes do not
  starve a waiter.  The counterexample of `smf_answer` needs no unfairness: the two wait for
  each other.

## Theorems

Proved with TLAPS, for all values of the constants that satisfy the ASSUMEs of the
modules.  Each module has one inductive invariant, the conjunction of named parts listed
below, and one lemma per action or per function an action is made of.  The parts that no
property states were checked with TLC on the instance of the run before they were proved.
A theorem that needs more of the constants says so in an ASSUME of its own; each of these
is justified here and true in the run that checks the property.

### UpfSessionProofs

- `TypeCorrect`: `Spec => []TypeOK`.
- `FreeStackExact`: `Spec => []FreeListExact`. The free stack holds each nil slot once.
- `OwnersAgree`: `Spec => []OwnerAgrees`.
- `LiveSessionsKept`: `Spec => LiveSessionKept`, the action property.
- `KernelMatches`, `RefsNeverAbovePdrs`: `Spec => []KernelMatchesTables`,
  `Spec => []RefNeverAbovePdrs`.
- `FailedRemovalsKept`: `Spec => FailedRemovalKept`.
- `SetupClears`: `Takeover = FALSE` implies `Spec => SetupClearsNode`.

For the session table the inductive invariant is `TypeOK /\ FreeListExact /\ OwnerAgrees`.
Neither of the last two is inductive alone: that `NewSess` may reuse the top of the stack
needs the slot to be free (FreeListExact), and a reset of a RemoteNode pushes its sessions,
which are live and distinct only because its map agrees with the slots (OwnerAgrees).
`LiveSessionKept` follows from it step by step.

For the rules it is `RulesInv`: each slot's tables and kernel state satisfy `Agree` (the
two name the same rules, `Flaky` ones apart) and `Shares` (a URR counts no more PDRs than
name it).  One lemma for each method of `Sess` says that it `Keeps` the two, and
`NamedBy` (gtp5g holds nothing the tables do not name), whatever driver calls fail; a
modification is their composition, and `CloseEmpties` says that a session that ends, with
no call refused, leaves nothing.  Removal needs the removed PDR to be counted before its
name goes, which is why `Shares` speaks of the PDRs that name the URR and not of a number.

`SetupClears` rests on `NodesCurrent`: the RemoteNode of a live session is the one its
node ID leads to.  A takeover breaks this (see Observations), so the theorem excludes it.

### PfcpTransactionProofs

- `TransactionTypes`: `Spec => []TypeOK`.
- `TransactionsImplementService`: `MaxTx <= SeqMod` implies `Spec => ImplementsService`,
  the refinement.

The invariant `IInv` is `Shape /\ OnTime /\ Numbered`.  The heart of it is `OnTime`, an
argument about time for each request: while its transaction lives, the time its timer still
runs is longer than the SMF can repeat the request plus what a packet takes (`Outlived`);
so a request for which the timer is in `trToCh`, or which is forgotten, has no copy under
way and will have none (`Fired`, `Once`).  A request never served has no transaction and no
answer (`Unserved`), one never sent has no packet (`Unsent`).  `PeerSpan + MaxDelay <
RxTimeout` of `PfcpAssumption` is used exactly where a new transaction starts its timer.
`Numbered` says that packets carry numbers of reports that were made; with `MaxTx <= SeqMod`
the number on the wire is the key in `txTrans`.  Each step of PfcpTransaction then is
Serve, Reply, Ask, Receive, GiveUp or a stutter of PfcpService.

### UpfReportProofs

- `TypeCorrect`: `Spec => []TypeOK`, which includes that the channels and the buffer stay
  within their lengths.
- `TickerPerGroupHolds`, `PerioFollowsHolds`, `NoPacketLeftBehindHolds`:
  `Spec => []TickerPerGroup`, `Spec => []PerioFollows`, `Spec => []NoPacketLeftBehind`.

The invariant `ReportInv` is `Types /\ Closing /\ Tickers /\ Buffer /\ Timers`.  `Types`
lists the jobs main may have left of a handler (`Jobs`), which is what makes the steps of
main few.  `Timers` is the argument about the channel: the orders about one URR in `evtCh`
alternate between addition and deletion, the first addition finds the URR in no group, and
the last order, or the one main is about to send, is what the session's tables say (`known`).
Perio takes the first order and main appends a last one, so the statement must be about
neighbours in the queue (`NextAt`) and not only about its ends.  `PerioFollows`
follows: once the queue is empty the groups are the tables.  `Tickers` strengthens
`TickerPerGroup` by the group perio is about to stop, `Buffer` says that the packets that
stay behind are those counted in `late`, and `Closing` that perio leaves only after the
close event.

### SmfQosProofs

- `SmfTypeCorrect`: `Spec => []TypeOK`, which includes that the offset of the QFI
  generator stays in its range.
- `QerMapAlwaysLive`: `Spec => []QerMapLive`, with every fault allowed.
- `AmbrInstalledHolds`: `DefaultRuleHasNoQos` implies `Spec => []AmbrInstalled`, with every
  fault allowed.
- `NoOrphanPathHolds`: `BadRules = {}` implies `Spec => []NoOrphanPath`, with every other
  fault allowed.
- `RulesConvergeHolds`: `InTurn` implies `Spec => []RulesConverge`.
- `UpfMatchesPoolHolds`, `QerRemovalUnsharedHolds`, `RatesInstalledHolds`: `Reliable`,
  `OwnQos`, `EnoughQFIs` and `DefaultRuleHasNoQos` imply `Spec => []UpfMatchesPool`,
  `Spec => []QerRemovalUnshared` and `Spec => []RatesInstalled`, with requests and
  notifications in any order.

For the first two the invariant is `TypeOK /\ QerMapLive`.  The argument is one lemma for
each function on a context ("a good context stays good"): `AddQoS` enters a QER under its
own QFI and takes an id that no key names, since a key names only pooled QERs;
`PostRemoveDataPath` takes a QER from the pool and its key from the map together.

The next two say more of these functions: what each of them leaves of the paths, their
marks and their QERs (`Created`, `Marked`, `Activated`).  `Owners` says that the paths
named by the two maps of rules, the old one and the one under construction, stay and
belong to their rule.  From it `NoOrphans` (every path that stays is default or named by one
of the two maps) is preserved by each iteration of `ApplyPccRules`, whatever the notification
says.  A rule without PFD is excluded because the loop then returns half way, which does
orphan paths.

For `AmbrInstalled` the invariant (`AmbrInv`) is that some path refers to the AMBR QER and
stays: the default path, or that of the rule of precedence 255, whose successor refers to it
before it goes.  It takes `Deletions` (no notification withdraws a rule of the first
decision), `First` (what holds before the session is established) and `AmbrHeld`
(the QER is pooled, has its rate and is never marked REMOVE).  `DefaultRuleHasNoQos` is true
of the PCF, which makes that rule without a QoS datum (`smpolicy.go:200`, `:215`, `:239`).

`RulesConverge` relates PCF and SMF.  `RulesInv` has one part for each place where a change
can be: a POST whose goroutine has not read the decision (`Posted`), a notification under
way (`Sending`: it `Leads` the SMF from its present rules to the decision), the loops of
`ApplyPccRules` (`Working`: the rules handled, those to be handled and those left alone are
the decision's), nowhere (`Settled`).  `InTurn` says that requests wait for each other, that
every PFD is configured, that influence data have no QoS datum and that a rule of an app
session shares its datum with none; the last holds because one counter of the PCF numbers
rule and datum (`policyauthorization.go:124`, `:129`).  Without turns it is false, see
Observations.  Lost PFCP requests and QoS data sent alone are allowed: they change what the
UPF holds, not what the SMF believes.

The last three say that the UPF does what the SMF believes, the central promise of the
enforcement: no PDR without its QERs, no QER left behind, none removed too early, and the
right rates.  The conditions:

- `Reliable`: no PFCP request is lost, the PCF sends a QoS datum together with its rules, as
  this one always does, and every AppID has its PFD.  Each is needed: without one of them
  (`LossyN4`, `PartialPcf` or a rule in `BadRules`) `UpfMatchesPool` fails in the instance of
  `smf_qod`, in the ways the observations below describe.
- `OwnQos`: a rule of an app session shares its QoS datum with none, since one counter
  numbers both; influence data have none.  Rules of the first decision may share theirs.
- `EnoughQFIs`: the QFI generator does not start over, `|Qos| + |AfRules| + 2 <= MaxQFI`.
  With 63 for `MaxQFI` that is some thirty POSTs and PATCHes in the life of a session.  It is
  needed: with `MaxQFI = 3` each of the three, checked alone, fails in the instance of
  `smf_qod`.
- `DefaultRuleHasNoQos`, as above.

The instance of `smf_qod` satisfies all four.  Nothing is said of the order of requests:
`Sequential` may be FALSE, so POST, PATCH and DELETE may overlap and overtake each other.

The invariant has, beside `Owners` and `AmbrInv`, these parts:

- `Requests`: a notification carries every rule whose QoS datum it carries, so that no rule
  outside the decision changes (`OnlyKept`: `ChangePccRule`, which marks before it creates,
  never runs).
- `Numbers`: the QFIs of QoS data are distinct and below the offset of the generator
  (`Distinct`), and there is one left for every datum without a QFI, every notification
  still to take one away and every rule id still to come (`Spare`).  No step makes the sum of
  these numbers and the offset larger; that is why a bound on the requests suffices.
- `InSync`: two pooled QERs never have one QFI, and those that no staying path holds are the
  ones marked REMOVE (`Tidy`; by it the map over QFIs in `refreshQERRemovalState` and the
  set of the model agree); a QER's QFI belongs to the datum of the rules whose paths hold it
  (`Private`) and none lies ahead of the generator (`Unused`); the states INITIAL, CREATE
  and REMOVE say exactly what the UPF has (`Unsent` before the request, `Served` after it).
  Inductive it becomes only with `Unclaimed`: a rule still to be installed never finds,
  under its QFI, a QER that another iteration of the loop has already marked.
- `OneRate`: there is one rate per QoS datum that the PCF's decision, the notifications under
  way, the SMF's two maps and the QERs all agree on; a datum whose rule id is not yet handed
  out has none.  `AddQoS` never changes a QER's rate, and by this it never has to.
- `Rating`: the path of a rule with a rate has a QER beside the AMBR one, through every
  iteration of the loops.

### SmfSessionProofs

- `TypeCorrect`: `Spec => []TypeOK`.
- `UeIpAccountingHolds`, `PolicyEndsHolds`, `SdmReleasedHolds`, `NoOrphanSessionHolds`:
  `Spec => []UeIpAccounting`, `[]PolicyEnds`, `[]SdmReleased`, `[]NoOrphanSession`.
- `StraysOnlyStaleHolds`: `Spec => StraysOnlyStale`, the action property.

The invariant `SessInv` has a part for each thing a context gives back.  `Addresses`: each
address is once in the queue or held by one context of the pool.  `Sdm`: the count of the SDM
subscription is at most the number of contexts no goroutine is removing; each
`removeSMContextFromAllNF` decrements it once and starts one removal, so contexts being
removed twice are what the count must not include.  `Policies`: while no call failed, a
context the PCF has is in the pool, with its association, and not being removed.
`Seids`: a session of the UPF is at the SEID of its context, unless the answer to its
establishment was lost.  `Clean`: without failures, a context that is ending has no session.
`Serving`, `Holders`, `Fresh`, `Est` say what a request, a goroutine that holds SMLock, a
context not made yet and Create's goroutine may rely on.  The handlers fall into four
shapes (`EndStep`, `Handled`, `EstStep`, `Made`); a lemma for each shape carries the
invariant, and each action is shown to have one.

### PcfPolicyProofs and FiniteSums

- `TypeCorrect`: `Spec => []TypeOK`.
- `NoOverReservationHolds`: `RatesMatchFlows` implies `Spec => []NoOverReservation`.
- `RuleNeverRebornHolds`: `Spec => RuleNeverReborn`, the action property.

The invariant for rates is `Held`: in each direction the guarantees of the rules and what
remains add up to at most the aggregate.  Handlers that interleave and requests refused half
way change the two along different paths; the lemma for each function on a decision shows
that what it takes from one it gives, at most, to the other.  `RatesMatchFlows` (a
component has no guarantee for a direction without flow) is true of the components of
`pcf_policy` and false of those of `pcf_gbr`, where the property fails.  `RuleNeverReborn`
follows from `Grows`: a step of a decision adds at most the rule of the generator's number.

`FiniteSums` has what the proof needs of sums over the rules: adding, removing and
changing a summand.  The sum is a fold; its set induction goes through the
well-foundedness of proper inclusion on finite sets, because the library's induction theorem
takes an operator.

### NefAfProofs

- `TypeCorrect`: `Spec => []TypeOK`, which includes that the counters stay within the
  number of creating requests.
- `DeletedOnlyWithSessionHolds`: `Spec => DeletedOnlyWithSession`, the action property.
- `SubscriptionsReachableHolds`: `KnownAfs = Afs` implies `Spec => []SubscriptionsReachable`.
- `NotifCorreIDsDiffer`: no two subscriptions carry the same NotifCorreID, whether or not
  their AF was registered.
- `KnownAfsReachable`: the subscriptions of a registered AF are reachable, whatever AFs
  register beside it.
- `PfdsNotForgottenHolds`: `(Lossy => KnownAfs = Afs)` implies `Spec => PfdsNotForgotten`,
  the action property.  The property itself excepts several AFs with lost answers, so that
  case of the theorem says nothing; without lost answers it holds of any AFs, known or not.
- `PfdsNamed`: without lost answers, every application the UDR holds PFDs for is named by a
  transaction, or by a PUT that has emptied its transaction and is about to name it again.

The invariant `NefInv` says what a goroutine may rely on where it is (`Handler`): with
`AfData.Mu` it is the one writer of its AfData, so the subscription it read before the call
to the PCF is still there after it.  `Distinct` needs the numbers that POSTs drew and have
not stored.  `Counts` bounds every counter by the requests that may still raise it.
`Settled` adds that a handler works on the registered AfData; it is false of an AF that two
POSTs register at once, which is why reachability is proved for AFs known from the start.

`PfdInv` is about the PFD handlers.  `GivesUp` are the applications a handler is about to
take out of its transaction, those it has deleted at the UDR.  Named by some other
transaction or not, an application the UDR holds PFDs for is named by one whose handler does
not give it up (`Held`); that needs what the handler gathered before it locked the AfData
(`Early`, `Works`), and that the transactions not yet made are empty.  With lost answers and
one AF, no handler gives up an application the UDR holds PFDs for: nobody else works on the
AfData, since `Settled` says there is one.  `PfdTurn` is what every step of a goroutine does
to all of this, and each action is shown to be such a turn.

### What is only model-checked

- Every liveness property (`DeletedRuleGone`, `EventuallyInstalled`, `TransactionsEnd`),
  and the two properties about ENABLED (`OnlyLockOrderBlocks`,
  `OnlyFullChannelsBlock`): out of the prover's reach.
- The properties of the two runs that expect a violation, which are false.

Every other property of a passing run is stated by a theorem.

## Observations

Seen while modelling, and easy to see again with other constants, but without a run of
their own: the repository says nothing definite of them, or they need a peer that this
repository does not contain, or a run of the table above shows something of the kind
already.

UPF

- A takeover onto a node ID that has a RemoteNode orphans that node, and the next set-up
  does not delete its sessions (`pfcp.go:248`): `SetupClearsNode` fails in `upf_rules` with
  `Takeover = TRUE` and two node IDs.
- A report response with SEID 0, after a lower SEID was freed, dereferences nil
  (`node.go:644`).
- A URR that a PDR gains through an update is not counted (`node.go:163`, `node.go:208`), so
  that its final report comes when the first of its PDRs is removed.
- `txSeq` has 32 bits and the header 24 (`pfcp.go:278`): after 2^24 reports no answer finds
  its transaction.  `ImplementsService` fails with `MaxTx > SeqMod`.
- Packets in the buffer of a PDR are written with the parameters of the FAR before its
  update, and those still on their way to main when the FAR stops buffering stay until it
  buffers again (`late` in UpfReport).
- A report queued before the removal of its URR is attributed to whoever holds the SEID when
  it is served.
- Creating a URR that exists, with another period, leaves it in two groups; updating one
  does not change its group; a URR that gtp5g refused to create is reported all the same.
- The channels are bounded and main, perio server and mux write to each other: with both
  full, all three wait.  `OnlyFullChannelsBlock` says that nothing less blocks them.
- At the end main closes `srCh` while the others may still send to it (`app.go:110`).

SMF

- `RemovePccRule` of the PCF (`ue.go:189`) puts the rule but not its QoS datum into the
  notification of a DELETE, and `ApplyPccRules` frees a QFI only for a datum that is nil
  in the decision: each POST and DELETE keeps one of the 62 QFIs.
- A PATCH frees the QFI of the old datum before it assigns one to the new.  Once the
  generator hands the same number out again, `AddQoS` finds the old QER under it and keeps
  its rate: `RatesInstalled`, checked alone, fails in the instance of `smf_qod` with
  `MaxQFI = 3`.
- For a rule that a decision does not name but whose QoS datum it changes, the old path is
  marked before the new one exists, so the QER the new one uses is removed:
  `QerRemovalUnshared`, checked alone, fails in the instance of `smf_qod` with
  `PartialPcf = TRUE`.  The PCF of this repository always sends the two together.
- A decision that names the rule of precedence 255 again creates the new path while the
  old default path is in the pool, so the new one is not marked default
  (`sm_context.go:668`).
- When `applyFlowInfoOrPFD` fails, `ApplyPccRules` returns in the middle of its loop; rules
  handled before are already out of `c.PCCRules`, and deleting them later removes nothing.
- A POST notification overtaken by the DELETE installs the deleted rule again
  (`policyauthorization.go:532`), although the repository's README (1839) says that after a
  DELETE the dedicated QER and PDR must be gone.
- A PFCP modification that fails is ignored (`notifier.go:128`), so the SMF forgets rules the
  UPF has.
- A retry of T3592 whose message the AMF refuses returns without unlocking SMLock; nothing
  ends such a context, and the release after the loss of a UPF waits for it.
- The goroutine that removes a context deletes its name even when a newer context has it,
  and its status notification deletes the AMF's entry of the newer one.
- A context keeps its SEID when its session is gone.  Its deletion may then hit the session
  of another context that was given the SEID (`send.go:314`).  `StraysOnlyStale` says that
  this happens only to a context without a session of its own, or with one whose
  establishment the UPF answered in vain: its SEID was never written down (`used.lost`).
- A Release Complete for a session that is not being released removes it all the same
  (`pdu_session.go:653`), and the UPF keeps the session.
- A local release of a context whose UPF session is gone fails before anything is removed.
- An address is free before the UPF session that uses it is deleted
  (`pdu_session.go:586`).

PCF

- A component with a downlink flow and an uplink maximum reserves an uplink guarantee that is
  never taken (`pcf_gbr`), and the DELETE gives it back; `NoOverReservation` is checked for
  components whose rates match their flows.
- "permit inout" has the prefix "permit in" and counts as uplink.
- A rule shared by two app sessions ends with the first DELETE; a rule without flows matches
  every request; an update of an existing rule does not give its old rate back.
- A PATCH that is refused half way has removed the rule and its key without a notification,
  so the SMF keeps it; a component patched later keeps the old key, and its new rule is
  orphaned.
- A refused request of the UE keeps the downlink rate it took when its uplink is refused
  (`ue.go:343`), and a failed one clears both remaining rates (`smpolicy.go:744`).

NEF

- The two locks are taken in both orders (`nef_context.go:112`), and a scan and a handler can
  wait for each other for ever.  `OnlyLockOrderBlocks` says that nothing else blocks them.
- Two POSTs of an AF without an AfData make one each, and the second to end replaces the
  first with its subscription (`asSessionWithQos.go:28`): `SubscriptionsReachable` fails with
  `KnownAfs = {}`.
- A PUT of a traffic influence subscription posts a new app session and forgets the old.
- A DELETE for AsSessionWithQoS of a group's traffic influence subscription leaves the
  influence data at the UDR.
- Two PFD requests may both find that an application is in no transaction
  (`pfd.go:609`) and both name it.  With a lost answer of the UDR the one that gives it up
  then leaves PFDs that no transaction names; `PfdsNotForgotten` excepts two AFs with lost
  answers.

## Plan

Done: the seven components above with their runs; the theorems of the section above, which
state every safety property of the passing runs but the two about ENABLED.

Modules to come: `QodService`, what the path promises an application (a session is
requested, in effect, or gone), implemented by the composition of NEF, PCF and SMF when
requests wait for each other; the registration of a UE in the AMF.

## Not modelled, and why

- Contents of messages, encodings, logging, HTTP and TLS: no property is about them.  Most
  of the repository's lines are of this kind, or generated (the NGAP handlers and builders
  of AMF, N3IWF and TNGF, the UDR's and NRF's REST layers), so the modules stand for a
  small share of it.
- gtp5g itself and the netlink driver: outside the repository or pure I/O; `kern` is
  modelled from how `node.go` uses the driver.
- Paths over several UPFs, uplink classifiers, traffic control and charging data in
  `ApplyPccRules`; handover, several AMFs, charging, UECM and failures of SDM calls in the
  session life cycle.
- Event subscriptions, background data transfer, provisioned and traffic influence rules in
  the PCF; the validation of data, PFD change notifications and the token check in the NEF.
- The network functions beside the QoD path; see the components in `PROJECT.json`.  They are
  unchanged free5GC.
- `scripts/qod-controller.py`: one HTTP request per invocation to a gateway that is not in
  the repository.
