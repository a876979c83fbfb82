# geektrust: specification and verification

geektrust is a client for an aTrust zero-trust gateway. It logs in at a
controller through a university identity provider, keeps the session, opens
authenticated tunnels to gateways, and offers them to local programs as HTTP
and SOCKS5 proxies or as a Go library. This directory holds TLA+ models of its
core, the TLC configurations that check them on small instances, and proofs
that TLAPS checks.

Contents: [inventory](#inventory) · [modules](#modules-and-how-they-follow-the-code)
· [runs and bounds](#runs-and-bounds) · [fairness](#fairness) ·
[proofs](#proofs) · [findings](#where-documentation-and-code-disagree) ·
[observations](#observations) · [plan](#plan) · [not modelled](#what-is-not-modelled)

To check: `tlc -config <cfg> <MC module>` for a run, `tlapm <module>` for the
proofs. `PROJECT.json` lists components, runs, the source lines of every
definition, hazards and theorems.

## Inventory

| component | state | operations | hard behaviour | correct when |
|---|---|---|---|---|
| Session provider `internal/session/provider.go` | the served credential, the acquisition under way, generation, revision, the force flag | Credential, ForceLogin, TryForceRelogin, CheckLoop, Invalidate(IfCurrent), Close | callers share one acquisition; the leader may be cancelled; invalidation overtakes a login in flight | one acquisition at a time; nothing overtaken or rejected is served; everybody gets an answer of his own |
| Session store `internal/session/store.go`, `runtime/status.go` | the encrypted file, the gate, the "forgotten" mark | Load, Save, Delete | a save that fails after it replaced the file; a deletion racing a save | the file is the served session, a forgotten one is never restored |
| Session events `session/events.go` | bounded queue, drop counter, drainer | emit, drainEvents, CloseObservers | a full queue loses events | observers end up with the truth although events are lost |
| Runtime status `runtime/status.go` | status, revision, subscribers | OnSessionEvent, Connect, Subscribe, Shutdown | the observer and Connect write the same status | ready exactly while a session is served |
| Web hub `webui/hub.go` | reducer state, event ring, streams | OnSessionEvent, SetSMSPending, Subscribe | slow streams | the panel shows the served session |
| SMS broker `webui/broker.go` | the armed prompt, its one-slot channel, its gate | Prompt, ClaimWeb, terminal claim, Resend | code, cancellation, resend and expiry race | an accepted code is used, once, by the prompt it was entered for |
| Tunnel manager `tunnel/reconnect.go`, `line.go` | current tunnel, shared connect, failed lines | Tunnel, SwitchLine, Close, connect | waiters come and go during a connect; the session changes under it | one connect, no lost tunnel, a tunnel of the right session |
| Gateway tunnel `tunnel/tunnel.go` | pending requests, write gate, death, port table | RequestAuth, SendData, ReserveConn, readLoop, keepAlive, markDead | late and duplicate replies, torn writes, silence | each reply to its request; no byte after a torn frame; a dead tunnel lets everybody go |
| L3 flows `l3/dialer.go`, `gvisor.go`, `icmp.go` | routes (port → token), linger timers | authorizeFlow, dialOnce, release, releaseLater, destroy | ports are reused; timers, Close and death race to free them | a port has one owner; packets go under their own token; no port leaks |
| Resolver `resolver/` | health of each DNS server and of its UDP, shared lookups, cache | LookupHost, lookupPool, finishServer | late answers, concurrent failures, waiters who leave | one probe at a time, no server excluded for good, nobody cuts another's lookup |
| Direct TCP `tunnel/tcp.go` | the stream's writer, its half-closed states | DialTCP, Read, Write, CloseWrite, Close | Close against a frame being written; retry against refusal | whole frames, one close frame; a refusal is final |
| Inbound proxies `inbound/` | listeners, tracked connections, UDP flow table, relays | Run, CONNECT, UDP Send/flow, relayPair | table at its limit, half-close, idleness, stop | no flow is lost, all goroutines end |
| Runtime client `runtime/runtime.go` | operations, owned connections, lifetime | Connect, DialContext, OpenTransport, Close | Close while operations run; session replaced while dialling | no connection outlives its session or the runtime |
| Control plane `sdpc/` | cookies of one login; the policy | login, onlineInfo, resources | expiry codes; precedence of rules | a target is authorised by the rule that fits best |
| Identity `idsauth/`, `auth/` | key store with its signature counter | CAS, WebAuthn | crash between use and save of the counter | no counter is used twice |
| Storage `storage/`, `privatefile/` | files, lock files | WriteAtomic, CreateExclusive, Lock | crash in the middle | old or new content, never half of it |
| Frames `frame/` | none | encode, decode, SplitIPPackets | malformed lengths | no packet lost or invented |
| Configuration, command line, front end, packaging | none that lives on | | | |

How they interact:

    inbound / library ──► Runtime ──► Dialer (L3) ──► Tunnel manager ──► Gateway tunnel ──► gateway
                            │             └───────────────┬──────────────────┘
                            └──────────► Session provider ◄┘  Credential, InvalidateIfCurrent
                                             │      │
                            store (gate) ◄───┘      └─► event queue ─► drainer ─► Hub ─► panel streams
                                             │                            └────► Runtime status ─► subscribers
                                   smsFlow ──┴──► SMS broker ◄── web requests, terminal

Everything below the provider asks it for the credential again before use, and
reports a rejected one with `InvalidateIfCurrent`; nothing is pushed downwards
except the end of the credential's lifetime context. Events only flow upwards,
through one bounded queue.

## Modules and how they follow the code

One action is one critical section, one channel operation or one blocking call
of the code; what the code does in one critical section is one step, what it
does after an unlock or a blocking call is another. `PROJECT.json` maps each
definition to its lines. History variables, which the code does not have, are
named as such where they are declared. A definition called *Mutant of X* is a
plausible bug in X: it is used by no specification and shows that a property
can fail.

**SessionContract** states what consumers of the provider may rely on: sessions
are served one at a time with growing generations, a barred session is never
served again, and after the end none is. **SessionProvider** models
`provider.go` and the gated store: a process is a goroutine that runs one call
(`Credential`, `ForceLogin`, a reserved re-login, a tick of `CheckLoop`,
`ForgetSession`). The program is not restarted in the model: the mark of a
forgotten session is in memory only, so that a new start would restore what a
deletion that failed has left. `cur`, `refreshing`, `generation`, `revision`, `closed` and
`forceLogin` are the provider's fields; `disk`, `gate` and `forgotten` the
store's. The exchange of a login with the controller is one step that succeeds
or fails. The credential of the model carries two facts that the code does not
store: the revision of its acquisition, and whether it was restored.
**SessionProviderProofs** holds the proofs, as `<module>Proofs` does for the
others; those about SessionEvents and SmsBroker are both in **WebPanelProofs**.

**TunnelManager** models `reconnect.go` and the use of `line.go` over *any*
provider that keeps SessionContract, which SessionProvider is shown to
implement; so the two are composed by contract, not by product. A `connectCall`,
its goroutine and the tunnel it builds share one name. A tunnel that Close
takes from the manager is dead at once; the code closes it after the unlock. `Seen` is what the rest of
the program sees of it; SeenAsManager says that this is a manager of TunnelGroups.

**SessionEvents** composes the emitter, the queue, the drainer, the Hub and the
Runtime status. `mode` chooses, in the initial state, between the program with
its panel and the library, because only the first has a Hub and only the second
has subscribers and `ForgetSession`. Sequence numbers and the count of dropped
events, which the panel only displays, are left out.

**SmsBroker** models `Prompt`, `claim`, `Resend`, the terminal reader and the
two web handlers around them.

**GatewayTunnel** models one live connection: `RequestAuth`, `SendData` and the
heartbeat as writers behind the gate; `readLoop` with the claim of a pending
request and the send to its channel as two steps; `markDead` in its five steps
under `sync.Once`. A reply carries, as history, the request it was computed for.

**PortRoutes** models the port table of one tunnel and the routes of its IP
stack: reservation, authorisation, dial, `Close`, linger, `destroy`, an ICMP
exchange, and the sender that looks a route up and writes later. A flow's token
is the flow. That the linger outlasts the closed endpoint and its last queued
packet is taken from the comment at `gvisor.go:31-34`.

**RuntimeLifetime** models `runtime.go` over any provider that keeps
SessionContract: operations under `withLifetime`, the dial of `DialContext` in
its steps (resolve, credential, dial, second look at the session, own),
connections with their `AfterFunc` on the session, `Connect` and the check loop,
`ForgetSession` and the logout of this device (`LogoutDevice`, an operation until
its reset is over; `LogoutTrustDevice` called alone leaves the count before it
resets), which cut connections, and `Close`. An operation and the connection it dials share one name. A dial goes
over a direct stream or over a tunnel of **TunnelGroups**, the managers of the
root and of a gateway group: `ForApp` makes the second, `Reset` and `Close` of
the root end it. Each is what TunnelManager is for its users (and is shown to
implement): the session of its tunnel, and a shared connect that reads the
credential itself. Every session served is taken to have a session id of its own;
one restored under the id of an earlier one would keep the tunnel of that id, as
the manager compares ids. TunnelGroups itself does not keep a closed
manager from being asked; the guard of `Shares` in RuntimeLifetime does. That the
Runtime's second look at the session also covers the credentials that the dialer
and the manager read in between is OneSession, a part of ForgetCuts.

**DnsHealth** models `adaptive.go`: `server` and `udp` are the two halves of
`dnsServerHealth`, `flight` the lookups with the goroutines that run
`lookupPool`, `inflight` the map by name. A clock reading is the action
`Expires`. The pool is that of one routing scope.

**InboundServer** composes what happens to one connection of the proxy:

- **TargetPolicy** holds the pure part: the rules `parseResource` builds, the
  matches with their ports and protocols, `isGatewayTarget`, `resolve` and
  `GatewaysForGroup`. A name is its sequence of labels, a block the set of its
  addresses. The host of a request, and of a gateway line, is a name or an address
  as it is spelt: plain, or mapped into IPv6, which makes another host of the same
  address. IPv6 targets, which are refused, are left out.
- **ProxyDial** is the dial of a CONNECT: resolve, the choice of path, one
  attempt per gateway line with any verdict, the fallback to L3 and its
  attempts. Its reference definition `AppOf` says which rule should win, without
  the loops of the code.
- **StreamRelay** is `relayPair` between the client and a `tcpTunnelConn`: the
  two copying goroutines, half-closes, the idle timer, and `Close`, by the relay
  or by the end of the session, with its TryLock. A frame stands on the wire as
  "part" while it is being written.
- **UdpFlows** is the flow table of a SOCKS5 association with the handler that
  sends and a goroutine per flow that reads.
- **InboundServer** itself is `Run`, the accept loop and the handler that goes
  from handshake to dial and relay, or to the association.

## Runs and bounds

| run | instance | shows |
|---|---|---|
| session_safe | 2 goroutines, 3 calls of all kinds | RejectedNotServed, SingleAcquisition, AnswerSinceCall, ForgottenStaysHidden, ServedIsStored, AnsweredForItself, and that the provider implements SessionContract |
| session_live | 2 goroutines, 2 calls | EveryCallReturns: a call whose context ends returns, and every call does if prompts end |
| tunnel_safe | 2 callers, 2 connects, 2 sessions, 1 fault | FlightOwned (one connect at a time, no tunnel lost), TunnelOfSession, SeenAsManager (it is a manager of TunnelGroups) |
| tunnel_live | 1 caller, 2 lines, 2 attempts, 2 sessions, 1 fault | GivenUpOnEvidence, CallReturns |
| events | queue of 2, stream of 1, 3 operations, panel and library | PanelAgrees, StatusAgrees, ReadersCurrent (streams and feeds), ServedIsShown |
| sms | 2 requests, terminal, 3 prompts | AcceptedIsUsed, CheckedCode (the code of its prompt, never while it is replaced), PromptReturns |
| gateway | 1 caller, 2 requests, 1 reply in flight | StreamSound (the reader never blocks, frames are whole), OwnReply, NobodyHangs (death frees all, silence is death) |
| ports | 3 flows, 2 ports | PortsOwned (one owner, who alone frees it), OwnToken, NoLeak |
| runtime | 2 operations of any kind, 2 sessions, the root and one group, Close | ForgetCuts, ShutdownIsFinal, RuntimeEnds |
| dns | 2 callers, 2 names, 1 server and 3 lookups or 2 and 2 | ProbeOwned, NoWaiterCut, CooldownStands |
| inbound | every policy of up to two rules in one application and one in another; 1 connection, 1 chunk a side, 2 targets, 1 flow in the table, 2 dialled | DialAuthorised, WireWellFormed, FlowsOwned, RefusalIsFinal, IdleIsIdle, RelayEnds, HandlersUnwind |
| inbound_stop | the same over one policy and request | a violation, see [findings](#where-documentation-and-code-disagree) |

A property that has several parts carries the type invariant of its module as
its first.

Why the bounds are enough. Two goroutines are a leader and a joiner or an
intruder (ForgetSession, Close, a rejection). Three calls let a session be
acquired, rejected and acquired again; the proofs cover any number of both for
every safety property of this run, as they do for the bounds of the others. In TunnelManager names of connects are used again when
nothing refers to them, so two names give any number of connects in turn, two
at a time; `Impatient` are the callers whose contexts may end and `MaxFaults`
bounds broken tunnels, switches and resets together. With two lines "every line
was tried" differs from "some line". Progress of a joiner beside another caller
is not run separately: both wait for the same `close(call.done)`, and
FlightOwned (its part SingleFlight) says that nobody who leaves takes the connect away. The event
queue of capacity 2 overflows within three operations; with capacity 1 `PanelAgrees` fails
(login_success can be lost and the invalidation that follows is enough to hide
the session, not to end the connecting state), with 2 or more it holds, and the
code has 256. On the gateway tunnel the heartbeat is the second writer beside
the caller, and two requests of one caller make an answer late for the next.
Two ports with three flows make every reservation wrap and reuse.

In RuntimeLifetime the second operation is the one that cuts, overtakes or closes
under the first, or dials over the same manager; two sessions are one and its
successor. No two operations can make more than one group manager. In DnsHealth two
lookups of different names meet at one server and three let a late one find the
cooldown after its own; two servers let a lookup go on to the next; the bound
`servers + lookups <= Size` keeps both from being large at once. `MaxFailures`
stops cooldowns from ending, not failures from being counted. The policies of
the inbound run contain an exact address and blocks of two sizes, a name and a
wildcard for it, narrow and wide ports, and rules for TCP, for UDP and for both,
in either order and application, so every clause of the precedence decides some
of them. The gateways are one listed by address and two by name; the requests ask
for a name, for addresses, for a gateway by the host it is listed by, and for its
address in the other spelling. The policy is forgotten once the target is known, so
that relays are not multiplied by policies. One chunk a side is enough
for a frame to be under way when anything else happens; a table of one flow is
full at the second target, and the second dial replaces the first. One client
connection at a time: handlers share nothing but the tracked set, which is
closed as a whole.

Symmetry is used only in runs without liveness. `CHECK_DEADLOCK
FALSE` is set where everything may come to rest: all calls made and all
deliveries done. Only SessionProvider and GatewayTunnel are checked for
deadlock: the first has an explicit step for its rest, the second never rests.

## Fairness

Each liveness run assumes only that goroutines that can run do run (weak
fairness of their steps), and that the environment answers or times out, which
the code ensures with a deadline on every exchange:

- session: a step of a process that waits for the store or the controller is
  eventually taken (HTTP client timeouts), and the context of a tick of CheckLoop
  ends (30 s and 45 s). A login stands before a prompt for a code whenever one is
  its next step (`Prompting`), and nothing obliges anybody to enter the code:
  `broker.go:84-88` waits for a result or the end of the context, the SMS session
  of the provider restarts only on a submission or a resend
  (`provider.go:592-608`), and a re-login of the panel or a Connect has no
  deadline. So EveryCallReturns says without a condition only that a call whose
  own context ends returns; that every call returns it says of behaviours in
  which prompts end (`PromptsEnd`). Nor is a process obliged to use a credential
  it holds. Callers start and leave as they like.
- tunnel manager: the worker of a connect runs; dials and authentications end
  (`connectTimeout`, `sharedConnectTimeout`).
- events: the drainer runs, and the holder of the status mutex releases it.
- SMS: the login and a resend that is under way go on (30 s of `handleResend`).
- gateway: goroutines run and a write ends (`writeTimeout`). A caller's own
  timer is *not* assumed, so NobodyHangs (its part DeadReturns) says that death itself frees him. Only
  the heartbeat's deadline is. `keepAlive` serves both its tickers again and
  again (strong fairness of Watch: the choice of `select` is random).

- runtime: goroutines that need only the mutex run, and a call returns once its
  context has ended. Nothing obliges a user to close a connection.
- inbound: goroutines run and timers fire. A handshake, a dial and a write on a
  UDP flow have deadlines. A relay has none: nothing obliges a client or a
  gateway to send, to read, or to end, and a write on a stream has no deadline,
  which is why RelayEnds and HandlersUnwind name the exceptions they do.

PortRoutes and DnsHealth state no fairness: that no port leaks is the
invariant NoLeak, about where a flow ends; in the second, that no server stays
excluded is the invariant ProbeOwned, about who will take the mark off.

## Proofs

Every safety property, every action property and both refinements that the
passing runs check are proved for all values of the constants; what is left to
TLC is liveness. Each proof module EXTENDS the modules it is about, states an
inductive invariant, and proves `Init => Inv`, `Inv /\ [Next]_vars => Inv'` with one lemma or step per
action, and `Inv => Property`. The invariants were model-checked on the
instances of the runs before they were proved. The proofs assume the ASSUMEs of
their modules: that the names for "nobody", "no process" and the like name no
process, that bounds are natural numbers, positive where zero would leave
the code without a slot, an attempt or a line, and that the policies are lists of
applications as `parseResource` builds them (PolicyAssumption). One theorem
assumes more: PanelIsTrue needs an event queue of two or more. A theorem about Spec holds of the
fair specifications of the runs too, since they imply it.

| module | theorem | states |
|---|---|---|
| SessionProviderProofs | `TypeCorrect`, `OneAcquisition` | `[]TypeOK`, SingleAcquisition |
| | `NothingOvertakenServed` | `[]ServedSinceInvalidation` |
| | `NoStaleAnswer`, `AnswersAreOwn` | AnswerSinceCall, AnsweredForItself |
| | `StoredWhileServed`, `DeadStaysDead`, `ForgottenIsHidden` | ServedIsStored, RejectedNotServed, ForgottenStaysHidden |
| | `Refinement` | ImplementsContract |
| TunnelManagerProofs | `ManagerInvariant` | the inductive invariant |
| | `ConnectsAreOwned`, `TunnelIsOfSession`, `SessionGivenUpOnEvidence` | FlightOwned, TunnelOfSession, GivenUpOnEvidence |
| | `ManagerSeenAsOne` | SeenAsManager |
| GatewayTunnelProofs | `TunnelInvariant` | the inductive invariant |
| | `StreamStaysSound`, `RepliesAreOwn` | StreamSound, OwnReply |
| PortRoutesProofs | `PortsInvariant` | the inductive invariant |
| | `EveryPortOwned`, `PacketsUnderOwnToken`, `NoPortLeaks` | PortsOwned, OwnToken, NoLeak |
| RuntimeLifetimeProofs | `LifetimeInvariant` | the inductive invariant |
| | `ForgetEndsAll`, `ShutdownLeavesNothing` | ForgetCuts, ShutdownIsFinal |
| DnsHealthProofs | `DnsInvariant` | the inductive invariant |
| | `ProbesAreOwned`, `NoWaiterIsCut`, `CooldownIsKept` | ProbeOwned, NoWaiterCut, CooldownStands |
| WebPanelProofs | `BrokerInvariant`, `EventsInvariant` | the inductive invariants |
| | `AcceptedCodeIsUsed`, `CodeCheckedAlone` | AcceptedIsUsed, CheckedCode |
| | `StatusIsTrue`, `PanelIsTrue`, `ReadersAreCurrent` | StatusAgrees, PanelAgrees, ReadersCurrent |
| InboundServerProofs | `ServerInvariant` | the inductive invariant |
| | `FlowsAreOwned`, `WireIsWellFormed`, `RefusalsAreFinal`, `IdlenessIsIdle` | FlowsOwned, WireWellFormed, RefusalIsFinal, IdleIsIdle |
| | `DialsAreAuthorised` | DialAuthorised |
| | `RunReturnsLast` | when Run has returned no handler runs and none will |

None of the properties is inductive as it stands. What each invariant adds, and
why the property needs it:

**SessionProvider.** Whether a session may be published depends on what its
acquisition noted long before. The invariant is built in layers, each preserved
by every step from a state in which it and the layers before it hold:

1. **SlotInv**: a process is between `refreshing = p` and `finishRefresh` exactly
   if the slot names it; meanwhile nothing is served and its revision is not
   ahead of the provider's. This gives SingleAcquisition and, since `Publish`
   compares revisions, ServedSinceInvalidation.
2. **AnswerInv**: the result a leader is about to release is at least as recent
   as the call of everyone who waits for it. It holds because a call only joins
   an acquisition whose leader has not been overtaken, or gets an error from it.
3. **StoredInv**: the gate names the one writer of the store, and an acquisition
   that has saved and is not overtaken is still what is on disk; ForgetSession
   invalidates before it deletes and holds the gate throughout.
4. **DeadInv**: unless the force flag is set the store holds no dead session, nor
   does an acquisition that may still publish. The force flag is what makes the
   session of a rejected login invisible to `restore` until a full login has
   replaced it.
5. **AnsweredInv**: a forced call never passes through `restore` and shares only
   the answers of forced ones; a cancellation is a result only of the goroutine
   whose context ended. **ForgetInv**: a forgotten session is older than any that
   may still be saved, and the mark is set before the deletion.

Refinement follows from SlotInv and DeadInv: each step is a step of the contract
under `session <- cur.gen`, `barred <- 1..(deadBelow - 1)`, or leaves it alone.

**TunnelManager.** A `connectCall` counts exactly the callers that wait for it
(WaitersCounted), so that the last to leave knows that it is the last; a worker
that was not stopped is the connect of the manager and has waiters (FlightInv);
a generation names one session, so that the tunnel a caller shares is of the
session it asked with (SessionsInv, CallersInv); and the rejections a worker has
gathered are of its own credential (JudgedInv). Refinement rests on the same
invariant: a worker that was given up is neither the connect nor the tunnel that
is seen, and there is no tunnel beside a connect, so that a tunnel handed over when
it is already dead looks like a connect that ended without one. ServedInv says
that a session in use has an id, for 0 stands for no tunnel.

**GatewayTunnel.** A registered channel is in one place at a time (PlaceInv): in
the map, claimed by the reader, taken by `markDead`, or filled. That is why the
send to it never blocks. Identifiers, calls, requests on the wire and results
name one call each (PairsInv, ApartInv). The writer that tore a frame keeps the
gate until the connection is closed (GateInv).

**PortRoutes.** A flow at each of its points has its port and its route, or the
stack that is being destroyed has them on its list (FlowsHold, PortsOfFlows,
RoutesOfFlows, DoomedOfFlows); a tunnel that lives has the route of every flow
with a packet in the queue (QueuedRouted), which is what the linger is for.

**RuntimeLifetime.** Every credential a dial reads, directly or through a shared
connect, is of no earlier session than the one its target was resolved in, and
is of that one after the second look (Sound). From the moment a reset has taken
the table of connections nobody enters one of the session it ended (ResetInv);
no manager keeps or builds a tunnel of it once its turn has come (CutInv), and a
shared connect that is under way belongs to the session it noted. CloseInv says
the same of Close: what is open is on its list or in the hands of a dial that
will find the Runtime closed.

**DnsHealth.** A server that is marked as probed has exactly one lookup whose
judgement will count, by its generation (ServerInv, UDPInv for the UDP half); so
somebody takes the mark off. A lookup's waiters are those who wait, and the table
holds the lookups that run and are not given up (WaitInv).

**SmsBroker.** A resolved prompt has one answer on its way: with a client, in
the channel, or taken by the login (OneAnswer); what the answer is tells whether
a code was accepted (Answers); and the gate of a prompt, once the login has
passed it, belongs to no resend (GatePassed).

**SessionEvents.** What makes the panel and the status true in the end is not any
event but the last: the newest one that is queued or being delivered tells the
truth of the provider, whichever before it were lost (NewestInv), and whoever holds
the status mutex has read the truth or has such an event behind him (HolderInv).
So with nothing on its way the status is the truth (StatusInv), and so is the Hub
(HubTold), for which the queue must have room for two: an invalidation emits
after the success that it takes back. While an acquisition runs nothing is served
(AcquisitionInv). A reader that is not cut off has in its buffer every snapshot
after the one it read, in order (StreamInv).

**InboundServer.** While the sender dials, no flow to its target enters the
table, because it alone enters flows; a flow that is open is in the table, on
the list of Close, or with the goroutine that will close it (FlowsInv). The
writer of a frame has `writeMu`, and Close sends its own frame only from a lock
it found free and a stream that was not closed (LockInv, WireInv), and until the
stream is closed every chunk read is on the wire or being written (CountInv).
The timer of the relay never runs for longer than the silence (TimerInv). A
definitive verdict leaves the dial refused (DialShape). After Run has closed the
connections, the handler that is left has lost its own (StopInv).

That the rule `resolve` ends with is the one `AppOf` names is a statement about
folds over lists of any length. A fold is the value at the end of a function that
records the result after each element; that such a function exists, and that a
property of its values passes from each to the next, follows from the least
number where it fails (AllNumbers), which needs no induction over data. The
passes keep the best rule seen so far, the earlier one among equals (PassKeepsBest),
and since what it compares by is a strict weak order (BeatsIsOrder) that rule is the one the
reference definition picks (ResolvedAsNamed).

Only model-checked, and why: liveness (EveryCallReturns, CallReturns, NobodyHangs,
PromptReturns, ServedIsShown, RuntimeEnds, RelayEnds, HandlersUnwind), because
fairness and ENABLED are outside the prover. PanelAgrees is false for a queue of
one (see [runs](#runs-and-bounds)); the code has 256.

Some definitions have the form they have because the prover can follow it, with
the same meaning: the candidates of a DNS lookup are two sets, those due and those
in good standing, in the order the code asks them (DnsHealth); `With` adds one pair
to a function (PortRoutes); `Cut` changes a manager in one EXCEPT (TunnelGroups);
and the rules of a policy are gathered and chosen by folds (TargetPolicy).

## Where documentation and code disagree

`inbound_stop` / RunReturns: the comments of `Server.Run` say that it stops
acceptors, closes tracked connections and joins handlers
(`inbound/server.go:63`), and that closing them forces active relays to unwind
(`server.go:112`). An upload that waits in `Write` for a gateway that reads
nothing is not forced: only the client's side is closed, the relay waits for its
first direction, and `handlerWG.Wait` never returns. TLC ends the run with that
counterexample. HandlersUnwind, in the passing run, shows that it is the only way
for Run not to return.

## Observations

Met while modelling; no run repeats them.

- A background re-login that fails leaves the global force flag set
  (`provider.go:479`), so that the next ordinary acquisition skips the store;
  the comment at `provider.go:398` and `docs/WEBUI.md:392` want it otherwise.
- An acquisition that ForgetSession overtook fails without an event
  (`provider.go:288`; `docs/WEBUI.md:196`), and a restart inside one acquisition
  emits login_start twice (`provider.go:606`; `docs/WEBUI.md:193`).
- `broker.go:78` says the panel never shows a prompt without a delivery target;
  `Prompt` clears `b.pending` before it withdraws the prompt from the Hub
  (`broker.go:101-118`), so for a moment it does, and claims get 409.
- `tunnel.go:345` says that a request whose slot holds the response consumes it
  when the tunnel dies. RequestAuth selects between the slot and `t.dead` at
  random (`tunnel.go:417-426`). And the branch the comment explains is never
  taken: a claimed request is no longer in the map that markDead takes, which is
  what StreamSound rests on.
- `dialer.go:284` says that a packet queued when the handshake fails must be
  dropped. WritePackets copies the route before it waits for the write gate
  (`gvisor.go:97-104`), so one whose route was read before still goes out.
- `lookupPool` goes on to the next server after a negative answer, so the error
  it returns may be a later server's transport failure (`adaptive.go:238-257`).
- `ErrGatewayLoop` is to break routing cycles by refusing a gateway's connection
  back through the VPN (`resolver.go:29-31`). `isGatewayTarget` compares the host as
  it is spelt, and addresses only of gateways listed by address and only for names
  (`resolver.go:132-145`, `279-295`). A gateway listed by name, as one listed as
  `{{sdpcHost}}` is, and requested by its address is dialled; so is one listed by
  address and requested as `[::ffff:a.b.c.d]`. DialAuthorised says which targets
  are refused, and is not about these two.
- The direct path's decision to fall back looks at the error of its last line
  only (`tcp.go:124-147`).
- An idle cut of a relay ends the upload with a graceful close frame, and so
  does a client that aborts its connection: to the gateway both look complete
  (`server.go:264`, `tcp.go:578`). An end of the TLS connection between two
  frames reads as a clean end of the download.
- A relay whose client reads nothing outlives its session: its download blocks
  in the write to the client, which nothing closes (`RelayEnds` says so).

## Plan

Done, in the order of the first plan: RuntimeLifetime, TunnelGroups, DnsHealth, UdpFlows,
StreamRelay (with the half-close of the direct stream), ProxyDial and
TargetPolicy. Left, the most consequential first:

1. *LinePool*: cooldown and rotation of lines under concurrent direct dials.
2. *Keystore*: signature counter, key creation and WriteAtomic across crashes.
3. The L3 stream as a second kind of stream under the relay, CONNECT-UDP with
   its wait for the upgrade, and the connection limit of the accept loop.
4. SplitIPPackets against a reference definition.

Every module there is now has its proofs; those listed above would come with
theirs. RuntimeLifetime uses SessionContract's own Serve and Withdraw for its
provider, so that nothing is to be shown there.

Hazards that are known and belong to these modules, beside those in
`PROJECT.json`: a crash between the use of a signature counter and its save (`idsauth/keystore.go:194`);
two processes that create the store's key at once (`session/store.go:146`);
malformed packet lengths (`frame/codec.go:377`). Accepted by the code and not
stated as properties: a joiner of an acquisition that ForgetSession overtook gets
ErrSessionReplaced and has to retry; SwitchLine may kill a newer tunnel than the
one whose gateway asked; a closed UDP flow has no linger (`gvisor.go:443`), so
OwnToken is stated for TCP.

## What is not modelled

HTTP and JSON of the controller, CAS and WebAuthn (input and output and
cryptography, seen as steps that succeed or fail); TLS verification and gateway
pins; encryption of the store; configuration parsing; frames and packet layout,
checksums; DNS messages and the answer cache, and the change of routing scope,
which discards the health table; requests of CONNECT-UDP and plain HTTP
forwarding; which UDP flow was used longest ago (any may be evicted); gVisor itself; log and message texts; the front end; packaging. A
stack created for a tunnel that is already dead is not a second stack in
PortRoutes: it is destroyed at once and shares nothing but the dead port table.
