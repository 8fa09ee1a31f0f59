# A TLA+ development for alipan-dms

alipan-dms is a DLNA/UPnP media server that shows the folders of a WebDAV
server (a drive of Alipan) to televisions and control points of the local
network. This directory holds TLA+ modules that model the parts of it that have
state or order, configurations with which TLC checks them on small instances,
and proofs that TLAPS checks for every instance. File names below are relative
to `src/`.

Contents: [the system](#1-the-system), [modules](#2-modules),
[runs](#3-what-the-runs-check), [bounds](#4-bounds),
[fairness](#5-fairness), [proofs](#6-what-is-proved),
[findings](#7-where-the-code-disagrees-with-its-texts),
[what is left out](#8-what-is-not-modelled),
[plan](#9-plan), [how to run](#10-how-to-run).

## 1. The system

```
  main.go ── Init, Run ──> dms.Server (dlna/dms/dms.go)
                             │  serveHTTP: accept loop, a goroutine per request
                             │     └─ serviceControlHandler ─ soapActionResponse
                             │            ├─ ContentDirectory  (cds.go) ─> WebDAV
                             │            ├─ ConnectionManager (cms.go)
                             │            └─ MediaReceiverRegistrar (mrrs.go)
                             └─ doSSDP: a goroutine per network interface
                                    └─ ssdpInterface ─ ssdp.Server (ssdp/ssdp.go)
                                            serve, Serve, handle, delayedSend
```

| component | state it keeps | operations | interacts by |
|---|---|---|---|
| `dms.Server` (dms.go 129-410) | `closed`, `ssdpStopped` (channels), `HTTPConn`, a `WaitGroup` and one goroutine per interface | `Init`, `Run`, `Close` | channels; `ssdpInterface` calls `Close` of the whole server when it returns |
| main program (main.go) | none of its own | builds the server, `Init`, `Run`, `os.Exit` | calls |
| `ssdp.Server` (ssdp.go) | `conn`, `closed`, goroutines of `serve`, `Serve`, `handle`, `delayedSend` | `Init`, `Serve`, `Close` | UDP datagrams; `s.closed` |
| SOAP control (dms.go 412-479, upnp.go, soap.go) | none between requests | `serviceControlHandler` | HTTP, the services' `Handle` |
| ContentDirectory (cds.go) | none; it reads the WebDAV folders | `Browse`, `GetSystemUpdateID`, `GetSortCapabilities` | `ReadDir` of the WebDAV client |
| ConnectionManager, MediaReceiverRegistrar | none | constant answers | - |
| Eventing (upnp/eventing.go) | `subscribers` | `Subscribe`, `Unsubscribe` | not reached by any handler |
| NPT times, content features (dlna.go) | none | parse and format | content features go into `res` elements |
| MIME types (mimetype.go) | none | classify by extension | decides what a folder shows |
| HTTP plumbing (mitmRespWriter, rootDesc.xml, SCPDs) | none | write constant documents | - |

What is hard here:

* **Shutdown.** `Server.Close` is called by the embedding program and, deferred,
  by every `ssdpInterface` goroutine; a second `close(s.closed)` panics; the
  goroutine that closes waits for a channel that may depend on itself; the
  accept loop tells a shutdown from a failure by looking at a channel
  afterwards. Correct means: one caller proceeds, nobody who embeds the server
  hangs, `Run` reports the right thing, and "SSDP has stopped" is true when it
  is said.
* **SSDP goroutines.** A reader blocked in a socket that another goroutine
  closes; dozens of sleeping senders that race with the closing of the channel
  and of the socket; arithmetic on a number that came in a datagram. Correct
  means: the farewells are complete and last, nothing leaves after `Close`,
  an error that `Close` causes is not a failure, a search is answered, and the
  process dies only for the stated causes.
* **Paging.** Every page of `Browse` is cut out of a new listing of a folder
  that others change. Correct means: no legal numbers make the handler panic,
  and pages fit together.
* **Strings typed twice.** The services advertise actions and values in one
  file and match them in another.
* **Ids.** An object id is a path, escaped in one function and unescaped in
  another, with "0" for the root; the server remembers no id. Correct means: an
  id that was handed out leads to its object, its parent id to the folder it was
  listed in, and no id leads out of the tree.
* **Clocks.** The lifetime (max-age) of an announcement against the interval
  between two of them, on a network that loses some and with a process that may
  die without a farewell. Correct means: who runs is not forgotten, who is gone
  is.
* **A map without a lock.** `Subscribe` tests, makes and writes a map that all
  subscribers share. No handler calls it, so the program as it is has no such
  race; the model is of what the type would do behind net/http. Correct means:
  as long as no two goroutines write to one map together, a subscriber that was
  in `Subscribe` with nobody else keeps its place and its id. When two do, any
  entry of that map may be gone, those of bystanders included.
* **Conversions with widths.** Play times are written with padded fields and
  read back with limited ones.

`PROJECT.json` lists every hazard of this kind at its line, with the properties
that would notice, or with the reason that there is none.

## 2. Modules

| module | models | lines of the code |
|---|---|---|
| `DmsServer` | `Init`, `Run`, accept loop, `doSSDP`, `ssdpInterface`, `Close`, with all goroutines | dms.go 129-150, 191-272, 325-410 |
| `ServerPromise` | the abstract specification of `dms.Server` | what `DmsServer` implements |
| `DmsMain` | `DmsServer` in the program of main.go, with its exits | main.go 14-52 |
| `SsdpServer` | one `ssdp.Server` with all its goroutines | ssdp.go 44-333 |
| `SsdpPromise` | the abstract specification of `ssdp.Server`, as `dms.Server` sees it | what `SsdpServer` implements and `DmsServer` uses |
| `SsdpLease` | the announcements on a clock, and a listener that believes in them for max-age | ssdp.go 131-172, 213-241, 325 |
| `ServiceControl` | control requests from the SOAPACTION header to the answer, for the three services, with the folders | dms.go 57-98, 152-189, 412-479; cds.go; cms.go; mrrs.go; mimetype.go 29-50; upnp.go |
| `PagingClient` | a control point that pages through a folder, composed with `ServiceControl` | environment |
| `ObjectIds` | object ids, parent ids and the paths they stand for | cds.go 32-47, 206-240 |
| `FolderBrowser` | a control point that walks up and down by ids | cds.go 121-138 and environment |
| `NptTime` | `FormatNPTTime`, `ParseNPTTime` | dlna.go 48-74 |
| `Eventing` | concurrent `Subscribe` | eventing.go 49-72 |
| `Conversions` | `FolderBrowser` and `NptTime`, which share nothing, side by side in one specification | - |
| `DmsServerProofs`, `SsdpServerProofs`, `SsdpLeaseProofs`, `PagingClientProofs`, `FolderBrowserProofs`, `ConversionsProofs`, `EventingProofs` | theorems and proofs about `DmsServer` with `DmsMain`, about `ServiceControl` with `PagingClient`, about `ObjectIds` with `FolderBrowser`, and about the modules they are named for | - |
| `SequenceLemmas` | what those proofs share: induction, recursive functions, prefixes | - |
| `MC...` | constants for TLC | - |

How they are composed: `DmsMain` extends `DmsServer` by the exits of `main`.
`DmsServer` holds of each `ssdp.Server` only its socket and whether `Serve` has
returned. `SsdpPromise` is the contract between the two: `SsdpServer` implements
it with all its goroutines, and `DmsServer` takes, for each interface, only steps
that it allows. `PagingClient` extends `ServiceControl`, `FolderBrowser` extends
`ObjectIds`: each puts a client in front of an operation of the server.

### How the state and the actions correspond

*DmsServer.* A channel that is only closed is one of "nil", "open", "closed".
`run` is where the goroutine that calls `Init` and `Run` stands, `ssdp` where
the goroutine that `Run` starts stands (in the loop of `doSSDP`, in `wg.Wait`,
before `close(s.ssdpStopped)`), `iface[i]` where the goroutine of an interface
stands, and `close[t]` where a thread is inside `Server.Close`: before
`close(s.closed)`, before `HTTPConn.Close()`, before the receive from
`ssdpStopped`. Since interface goroutines and closers run the same `Close`, both
are elements of `Threads`. Each blocking or shared operation is one action, so
every interleaving of them is explored; what a goroutine does between two such
operations touches nothing shared. A panic that nothing recovers runs the
deferred calls first (`wg.Done`) and ends the process (`Crash`).

`SsdpInit` succeeds or fails on each interface; `ServeFails` is `Serve` of the
interface's `ssdp.Server` returning; `SsdpPanics` is a panic in one of its
goroutines. Under `SsdpPromise` they are `Open`, `GiveUp` and `Die`; `SsdpServer`,
whose `ServeAddrsFails` and `CrashExplained` say when they happen, maps to the
same three. Nothing in `DmsServer` closes an `ssdp.Server` (`Shut`): that is the
code, see section 7.

*DmsMain* adds the exits of `main` and the assumption that no goroutine of the
program calls `Close` (it installs no signal handler).

*SsdpServer.* `reader` is the goroutine of `serve` (in `ReadFromUDP`, or
between its return and the select on `s.closed`), `announcer` that of `Serve`.
A datagram that sleeps in `delayedSend` is in `waiting`; when its timer wins the
select it is in `firing` until `send` runs; a datagram written to an open socket
is on the `wire` for good. A search is a record of what `handle` tells apart:
whether it is an `ssdp:discover` search, its target, whether its `Host` is the
multicast address, its mx, and which of the interface's addresses are in the
sender's network. The product `int64(time.Second) * int64(mx)` is computed
modulo the width of the integers, and a bound that is not positive makes
`rand.Int63n` panic.

*ServiceControl.* A request is a record of what the handlers tell apart. The
state of a request is where its goroutine stands: received, about to call
`ReadDir`, answered. The folders change between any two of these steps.
`Immediate` gives the answers in the order in which the code comes to them; for
`Browse` the object is looked up before the flag is looked at. `Window` is the
double slicing of `objs` in cds.go 178-187. An entry of a folder is what
`os.FileInfo` says of it (a directory, a regular file, a content type), and
`Shown` and `IsMedia` decide whether it becomes an object.

*PagingClient* is not in the repository. It is the protocol that `Browse` is
there for: ask for what follows the objects received, with any page size, until
`TotalMatches` objects are there or a page is empty, and ask again when a reply
is lost or a fault. Before that, or instead, the client sends any other request.

*SsdpLease.* Every timer runs relative to the present: `nap` is how long `Serve`
has slept, `flights` how long each announcement has been under way, `lease` how
long the listener will believe. `Tick` is possible only while nothing is overdue,
with `Slack` for sleepers that wake up late and datagrams that take time.
`Announce` goes on after `Close`, as the loop of `Serve` does, but then nothing
leaves. `Close` lets an announcement that already left overtake the farewell;
`Die` sends no farewell; `Start` restarts the program while the lease of its
predecessor runs.

*ObjectIds, FolderBrowser.* A path is a sequence of characters, of which the model
has those that `url.QueryEscape`, `path.Clean` or `objectFromID` treat specially
and one that none does. An id is a sequence of tokens, a character or a character
written `%xx`: that is all `QueryUnescape` can tell apart, given that a plain "%"
is one which no two digits follow. `FolderBrowser` starts at the root or at any id of up to
four tokens, enters any object of the page, and goes up by the parent id it was
given. What `path.Clean` does is written as three functions over a path:
`Elements` cuts it at its slashes, `Followed` follows "." and "..", and `Joined`
puts the names that are left together again.

*NptTime.* A text is a sequence of digits and signs; `Scan` is what `Sscanf` does
with the four verbs, the open width of the hours and the limits of the others.
`Conversions` gives each walk of `FolderBrowser` a time.

*Eventing.* Each read and write of `e.subscribers` is a step. `maps[t]` is the map
that goroutine `t` made, `subscribers` says which is current, so that the second
of two makers takes the subscribers of the first away. Two writers of one map
leave any part of what they wrote, or the runtime notices them and ends the
process. No handler of the program calls `Subscribe` yet: the model is of the
type `upnp.Eventing` under the concurrency that net/http would give it.

### Slips

A definition whose name ends in `Slip` is not the code. It is a plausible
mistake in the definition that follows it (a dropped guard, a missing reset, a
swapped order); putting it in the place of that definition makes the property
named in `PROJECT.json` fail. Each property of each passing run has one.

## 3. What the runs check

| run | question | states | properties |
|---|---|---|---|
| `dms` | every order of Init, Run, Close by four threads, every failure; does a Close hang, does Run end | 43 571 | `TypeOK`, `OneCloserProceeds`, `NoSpuriousRunError`, `StoppedMeansQuiet`, `InterfaceCloseNeverReturns`, `NoStandstill`, `KeepsPromise`, `UsesSsdpServersRightly`, `ClosersResolve`, `CloseEndsRun` |
| `dms_comment` | does returning close the ssdp.Server | violated | `ReturningClosesServer` |
| `dms_main` | how does the process end | 23 528 | `ExitStatusExplained`, `IdleMeansHealthy`, `AnyFailureEndsProcess` |
| `ssdp_safety` | announcements, answers, farewells and Close in every order | 2 169 531 | `TypeOK`, `EveryTypeSaysGoodbye`, `ReaderStopsCleanly`, `AnswersMatchSearches`, `CloseIsQuiet`, `KeepsPromise` |
| `ssdp_live` | are searches answered, does the reader end, what kills the process | 50 042 | `CrashExplained`, `SearchAnswered`, `ReaderEnds` |
| `ssdp_lease` | who is believed in, and for how long | 255 858 | `TypeOK`, `NeverForgotten`, `BeliefFades`, `GoneIsForgotten` |
| `control_pages` | a client that sends every kind of request, then pages through a folder that changes | 32 192 | `TypeOK`, `LegalRequestsDoNotPanic`, `PagesFitTogether`, `WholeFolder` |
| `control_connections` | is GetCurrentConnectionInfo served | violated | `CurrentConnectionInfoServed` |
| `control_advertised` | are advertised actions and flags served | violated | `AdvertisedActionsServed` |
| `conversions` | do ids and times survive being written and read | 5 725 | `PathIsClean`, `IdsLeadBack`, `ParentsLeadBack`, `TimesSurvive`, `TimesAreMeant` |
| `eventing` | what may a race in Subscribe take away | 100 808 | `TypeOK`, `LostOnlyInARace`, `LaterIsRefused`, `GrantIsHonoured` |

What they show, beyond that the properties hold:

* `InterfaceCloseNeverReturns` is a property of a flaw's shape: the deferred
  `s.Close()` of an interface goroutine waits for a channel that is closed only
  after the goroutine itself is done. It therefore panics (when it is not the
  first to close) or blocks for ever (when it is). The shutdown still works, as
  `ClosersResolve` and `CloseEndsRun` say, since the accept loop is stopped
  before the wait: either `Run` returns and `main` exits, or the panic ends the
  process. Both properties are stated with "or the process has crashed", and
  the crash is not a corner case: with an embedding program that calls `Close`
  while interfaces are up, it is what ends the wait.
* `NoStandstill` says the same of a moment: when no goroutine can move, the one
  that hangs is an interface, and no caller of `Close` outside is left in it. It
  is `ClosersResolve` and `CloseEndsRun` without the fairness, in a form that can
  be proved. `Ready` collects the guards of the steps that `Fairness` names.
  `IdleMeansHealthy` is its like for the program of main.go and
  `AnyFailureEndsProcess`.
* `ExitStatusExplained`: nothing in the program closes the server on purpose, so
  an exit status of 0 always means that the announcer of some interface gave up
  and its deferred `Close` took the server down.
* `CloseIsQuiet` holds although `Serve` never looks at `s.closed` and goes on
  announcing, and although a `delayedSend` whose timer and channel are both
  ready may choose to send: the socket is closed, and the write fails.
* `AnswersMatchSearches` counts the answers from the reader to the wire: while the
  server is open none is missing and none is there that nobody asked for. What
  `SearchAnswered` adds is that the delayed ones do leave.
* `CrashExplained` lists the ways in which a search ends the process: an
  unreadable mx never does, one that makes the product zero or negative does,
  but only when there is something to answer. Addresses that cannot be listed end
  it when `handle` asks for them and not when `Serve` does; `addrsFailed` tells
  the two apart.
* `PagesFitTogether` and `WholeFolder` hold for folders that only grow at their
  end while they are read. For a folder that shrinks or is reordered they do not
  hold, and the code gives a client no way to notice (`UpdateID` is the process
  id); `calm` names that assumption.
* `NeverForgotten` holds although every second announcement is lost: max-age is
  two and a half intervals, and half an interval covers the second that the
  division cuts off, the jitter and the delays, as long as the interval is at
  least twice their sum (`LongEnough` in `SsdpLeaseProofs`). With the five seconds
  of main.go there is room for delays of 0.4 seconds each.
* `GoneIsForgotten` holds although an announcement may arrive after the farewell
  and revive the device: its lease runs out, and `Serve`, which announces on
  after `Close`, sends nothing that could renew it. `BeliefFades` gives the
  measure: what is left of the belief never grows while the server is not up, and
  shrinks with every tick, so that a max-age and the journey of one datagram are
  enough.
* `ParentsLeadBack` says more than that an id can be decoded: the parent id that
  a page shows is, letter for letter, the id by which a client that came from the root
  asked for the folder, so that clients that key a tree by id see one folder and
  not two. A client that spells a path in its own way (`%2F.%2Fx`) is told the
  proper id.
* `LostOnlyInARace` and `LaterIsRefused` bound the damage of the missing lock.
  Two goroutines in `Subscribe` may each make a map and lose one subscription with
  it, or take the same id; a subscriber that met nobody keeps its place, and whoever
  comes later with its id is refused. Both hold only until two goroutines write to
  one map together (`raced`): that is a data race, which may drop any entry of the
  map or end the process, and after it nothing is claimed of anybody.

## 4. Bounds

* `dms` has two interfaces and two closers: every pair of callers of `Close` is
  there, and so are a panic of one interface while the other has not been spawned, failed
  its `Init` or still serves, and a `Close` of the embedding program before and after
  that of an interface. There is no symmetry, since the run checks liveness.
  `dms_main` has three interfaces and no closer, which is the program.
* `SsdpServer` has two types and two addresses, one of them link-local. One
  search comes from the link of the interface and is answered there. `Second`
  is 3 and `Half` 8: an mx of 1 gives 3, an mx of 0 gives 0, an mx of 3 wraps to
  -7, so that each outcome of the multiplication is there. `MaxRounds` bounds
  the announcements: with one round its datagrams race with everything else, and
  a second round adds only copies of them with another key. A request arrives at
  most once; a search that is sent again is another request with another id.
  `ssdp_live` has no announcements, since its properties are about searches.
* `ServiceControl`: starts of -1 to 4 and counts of -1 to 3 lie before, inside, at
  and beyond the ends of listings that show 0 to 3 objects. One client is enough:
  the requests of two share nothing but the folders, which change on their own
  (`MaxChanges`: a folder grows twice and is then emptied or reordered).
  `MaxRetries` is 2, page sizes are 0 (everything), 1 and 2, chosen anew for each
  page.
* `SsdpLease`: ticks of 50 ms, the interval of five seconds of main.go, one type
  on one address. Two things are assumed of the environment: no two announcements
  in a row are lost, and a restart takes longer than a farewell of the
  predecessor needs to arrive.
* `Conversions`: ids of up to four tokens, among them "%", "%2F", "+" and "/./";
  names with each character that is escaped, and a file called `0`; folders
  nested two deep. Times about the ends of every field, and of two digits of
  hours.
* `Eventing`: three goroutines, so that a third may come between or after two that race;
  two ids; a timeout that fits in a Duration of four bits, one that does not, and
  a negative one. `MaxDelay` bounds what passes between the two calls of
  `time.Now`. The goroutines are interchangeable, so the run uses symmetry.

## 5. Fairness

In `DmsServer` weak fairness is asked of each goroutine: Go's scheduler runs
every goroutine that is ready. Nothing is asked of the environment: an accept
error, a failing interface, a panic or a call of `Close` may never come. A
goroutine that waits (on `ssdpStopped`, on the `WaitGroup`, on the select) is
not enabled, so fairness does not free it.

In `SsdpServer` the same holds for the reader after a read, the handlers, the
announcer, each delayed datagram (a timer runs out) and the closer; a read of a
closed socket returns (`conn = "closed" /\ ReadError`), but datagrams and other
errors need not come. Weak fairness is enough: none of the steps competes for a
resource that another can take away again and again.

In `SsdpLease` time passes, sleepers wake up and datagrams under way arrive; the
program need not start, close or end. The runs of `ServiceControl`,
`Conversions` and `Eventing` check no liveness and assume no fairness.

## 6. What is proved

`DmsServerProofs`, from the assumption that `Interfaces` is finite and disjoint
from `Closers`:

* `InductiveInvariant`: `Spec => []IInv`. `IInv` adds to the properties what
  makes them inductive: `StartOrder` (who can have started, so that an interface
  goroutine is in `Close` only at its end), `SignalInv` (the channel `s.closed`
  is closed exactly when one thread got past the signal), `ListenerInv` (a
  closed listener has a cause), `WaitInv` (the counter of the `WaitGroup` is the
  number of outstanding goroutines, and `doSSDP` is past `Wait` only when all are
  done) and `SocketInv` (a socket is opened once). `WaitInv` is the heart: it makes `StoppedMeansQuiet` and
  `InterfaceCloseNeverReturns` true, and it makes `TypeOK` true, which claims that the
  counter never becomes negative.
* `TypeCorrect`, `CloseIsExclusive`, `RunErrorIsGenuine`, `SsdpStoppedIsTrue`,
  `InterfaceCloseBlocks` follow from it.
* `NobodyElseHangs`: `Spec => []NoStandstill`. `WaitOrder` says what each goroutine
  did before it came to wait. A closer outside waits for `doSSDP`, that for the
  interfaces; an interface that waits for itself would be a second one past the
  signal (`SignalInv`), so each of them can move or is done, the counter is zero
  (`WaitInv`), and `doSSDP` can move or has ended.
* `ServerKeepsPromise`: `Spec => KeepsPromise`. Every step of the server is a
  step of `ServerPromise` or leaves its variables alone; the invariant is needed
  for the step that returns from `Run` and for the step that says SSDP is quiet.
* `SsdpServersUsedRightly`: `Spec => UsesSsdpServersRightly`, for each interface by
  the same argument; `SocketInv` is needed for `SsdpInit`.

At its end, for `DmsMain`, with no closers: `ExitStatusIsExplained`. The
invariant is that of
`DmsServer` until `main` exits, with `CloseHasCause`: whoever is on the way to a
`Close` goes back to an announcer that gave up, since no one else begins one.
`NoFailureIsForgotten` is `MainSpec => []IdleMeansHealthy`, with `FailureOrder`: an
accept loop that failed has ended, and an interface with a socket is in its select
or in its deferred `Close`.

`SsdpServerProofs`, from `SsdpServerAssumption` (finitely many types, none of them
"ssdp:all", link-local addresses among the addresses, `0 < Second < Half`,
well-formed requests):

* `InductiveInvariant`, with `CloseOrder` (what is closed in which order, and that
  a closed socket means farewells said), `ReaderInv` (a read error in the
  reader's hands is a failure or the work of `Close`) and `CrashExplained`.
* `TypeCorrect`, `GoodbyeIsComplete`, `ReaderIsClean`, `CrashHasCause` and
  `ClosedIsQuiet`, the last an action property.
* `NoAnswerIsLost`: `Spec => []AnswersMatchSearches`, by `AnswersInv`: a request that
  was read is in the hands of the reader or of its handler until all its answers
  are on their way or written. A write to a closed socket is no exception: while
  `s.closed` is open the socket is (`CloseOrder`). A write to an open socket that
  fails is one: the model has none (section 8).
* `SsdpServerKeepsPromise`: `Spec => KeepsPromise`. With `SsdpServersUsedRightly`
  it joins the two models: what `DmsServer` supposes of each `ssdp.Server` is what
  `SsdpServer` does, for all constants of either.

`SsdpLeaseProofs`, from `SsdpLeaseAssumption` and, for the second theorem,
`LongEnough`: `TypeCorrect` and `NeverForgottenHolds`. The invariant `LeaseInv`
compares the lease with the longest `Wait` for an announcement that arrives, or
with the rest of the journey of one that is under way. `GoneServersFade` is
`Spec => BeliefFades`, for intervals of any length.

`FolderBrowserProofs`, from `ObjectIdsAssumption` and `FolderBrowserAssumption`, for
every alphabet, every set of names and any depth:

* `QueryRoundTrip` (unescaping undoes escaping), `IdRoundTrip` (`ObjectFromID` undoes
  `ID` on clean paths), `CleanIsIdempotent`, `IdsAreUnique` (two objects never have
  the same id).
* `BrowserInvariant`: what the server has answered follows from what it was asked,
  and a client that came from the root asks, on its way down and up, only for ids
  that the server has written (`IsWritten`). Without the second part
  `ParentsLeadBack` is not inductive: nothing would say that the ids on the `trail`
  are spelled as the server spells them.
* `PathsAreCleaned`, `ShownIdsLeadBack`, `ShownParentsLeadBack` follow from it.

The lemmas show that a clean path is the image of a sequence of proper names under
`PathOf`: `Elements`, `Followed` and `Joined` exist and unfold one step at a time
(`RunExists` and `RunsAgree` of `SequenceLemmas`), `Names` undoes `PathOf`
(`NamesOfPath`, by induction over the names), and going to a child or to the
directory of a child adds a name or takes it away (`ChildOfPath`, `DirOfChild`).

`ConversionsProofs`: `EveryTimeSurvives` and `EveryTimeIsMeant`, for every time in
`Nat`. A decimal says its number (`DecimalSays`, by induction over the number),
padding does not change it, and in the text of a time the four fields stand between
":" and "." where `Scan` looks for them (`TextOfTime`, `FieldsAreFound`); the hours
may have any number of digits. `AllTimesSurvive`, `AllTimesAreMeant` and
`AllIdsLeadBack` carry this and the theorems of `FolderBrowserProofs` over to
`ConversionsSpec`, which the run checks.

`SequenceLemmas` has the induction. The library states it with an operator as its
parameter; here it is a statement about sets: a set that holds 0 and the successor
of each of its members holds every number, since the numbers outside of it would
have a least one (`NatSetInduction`, and `SeqSetInduction` for sequences).

`EventingProofs`, from `EventingAssumption`, for any number of goroutines:
`TypeCorrect` (no write to a nil map), `LostByARace`, `LaterOneIsRefused`,
`GrantsHonoured`. The invariant says that a goroutine which met nobody is alone
while it is in `Subscribe` (`MeetInv`), writes to the map that stays and, unless
two have written to one map together, is found there (`AloneInv`); hence a later
one finds it, too, and is refused.

`PagingClientProofs` begins with `ServiceControl`, from `ServiceControlAssumption`:
`LegalRequestsNeverPanic`,
with `ListingInv` (what is being listed names a folder). It also has the lemmas
about what a folder shows: `Collected`, the loop of `readContainer`, is a recursive
function, and what it does for every listing is proved by induction over its
turns. `ObjectsPrefix` says that a folder that grows at its end shows more at its
end, `WindowPage` that the two cuts of `Browse` are within bounds and give what
stands in the folder from `StartingIndex` on.

Its second part, from that and `PagingClientAssumption`, holds for any number of
clients, folders, changes and retries and all page sizes: `ControlTypes`,
`PagingNeverPanics`, `PagesDoFitTogether`, `TheWholeFolderIsRead`. `PagingInv` adds
that a request starts where the client's objects end (`AsksForTheRest`), that the folder
still begins with what it held at the opening (`OnlyGrew`), and that a page on its way
already fits (`PageFits`): what it says of the end was true of a listing that is older
than the folder, and stays true since it is compared with the opening.

Only model-checked are the liveness properties (`ClosersResolve`, `CloseEndsRun`,
`AnyFailureEndsProcess`, `SearchAnswered`, `ReaderEnds`, `GoneIsForgotten`), which
need fairness and are out of the prover's reach. Of the first three, of
`SearchAnswered` and of `GoneIsForgotten` the part that needs none is proved, as
`NoStandstill`, `IdleMeansHealthy`, `AnswersMatchSearches` and `BeliefFades`. Every
other property of a passing run is stated by a theorem.

## 7. Where the code disagrees with its texts

1. `dlna/dms/dms.go:395` defers `s.Close()`, where `s` is the `dms.Server`. The
   comment at line 407, "Returning will close the server.", is not what
   happens: no one closes the `ssdp.Server`, its socket stays open and its
   types are not said goodbye. Run `dms_comment`. `EveryTypeSaysGoodbye` thus
   holds of `ssdp.Server`, whose `Close` the program never calls.
2. `dlna/dms/cms.go:19` matches ".GetCurrentConnectionInfo", with a dot, where
   the description says `GetCurrentConnectionInfo`. Run `control_connections`.
3. `dlna/dms/cds.go:199` refuses the flag `BrowseMetadata` that the description
   allows, and line 202 sixteen of the nineteen actions that it lists. Run
   `control_advertised`.

## 8. What is not modelled

* What the network does to datagrams, and the wording of messages.
* Writes to an open socket that fail or are short. `send` (ssdp.go 205-211) logs
  them and goes on, so the code loses that datagram and nothing else; in the model
  every write to an open socket succeeds, be it of an announcement, an answer or a
  farewell. What `EveryTypeSaysGoodbye`, `SearchAnswered` and
  `AnswersMatchSearches` say of written datagrams is said under that assumption.
* Logging. The `ssdp.Server` of an interface is made without a `Logger`; what the
  zero value of the library's logger does is not in the repository.
* `Close` of a server that was never initialised (a nil channel) or whose `Init`
  failed; `CallClose` assumes that the embedding program does not.
* The command line and environment of main.go, the choice of interfaces.
* HTTP plumbing: `mitmRespWriter`, rootDesc.xml, the handlers of the service
  descriptions (their action lists are in `ServiceControl`).
* Titles, dates, sizes and URLs of objects: copied from the folder. The URL of an
  item leaves out the path of `WebdavURI` (cds.go 105); nothing in the repository
  says whether that path may be anything but empty.
* `ContentFeatures.String` writes constants. `ParseNPTRange` and `NPTRange` are
  called by nothing. Neither are `FormatNPTTime` and `ParseNPTTime`, tests included,
  which are modelled all the same. Negative times are not; a text without the
  milliseconds is an error of `Sscanf`, so that the branch for fewer than three
  numbers in `ParseNPTTime` is never taken.
* Guessing a MIME type from the name or the content of a file: called by nothing.
* `Unsubscribe` changes nothing; `ParseCallbackURLs` and the property sets of
  eventing.go have no state, and no handler uses them.

## 9. Plan

Done: the life cycle of the server and its program, the SSDP server with its clock
and its contract, control requests and paging, ids, play times, eventing; the
theorems of section 6.

Left to prove: that each step of the server's own goroutines brings it closer to
its end (a measure for `DmsServer`, next to `NoStandstill`), and that the model of
`SsdpLease` allows of an announcer what `SsdpServer` does.

## 10. How to run

```
tlc -workers 2 -config DmsServer.cfg MCDmsServer
tlapm DmsServerProofs.tla
```

`PROJECT.json` names the module and the configuration of each run. All of them
finish within a minute; the proofs take a few minutes.
