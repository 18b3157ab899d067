# A TLA+ model of the Proxmox cloud provider and its load-balancer manager

The repository has two programs. The **cloud provider** (`main.go`,
`internal/proxmox`) runs inside a Kubernetes cluster whose nodes are Proxmox
virtual machines. The **load-balancer manager**, `lbmanager`
(`cmd/lbmanager`, `internal/loadbalancer`, `internal/ipam`, `internal/ipvs`),
runs in an LXC container, has a gRPC interface, and turns the provider's
requests into address aliases on the container's external link and into IPVS
services and destinations in its kernel. These modules model the logic of both,
check it with TLC and prove the central part with TLAPS.

## 1. Inventory

| Component | State | Operations | Modules |
|---|---|---|---|
| RPC handlers of lbmanager (`impl.go`) | rosedb: name → address and targets; addresses of the external link; IPVS services and destinations | Create, Delete, AddTarget, DelTarget (GetLoadBalancer(s) only read) | `LBDefs`, `LBServer`, `LBServerSteps` |
| Start and Restore (`impl.go`, `cmd/lbmanager/main.go`, `scripts/installLB.sh`) | serving or not | stop, crash, reboot of the container, Restore | `LBServer`, `LBServerSteps` |
| Address allocation (`internal/ipam`) | none: the used addresses are read from the link at every call | New, Allocate | `IpamDefs`, `Ipam`, `IpamBytes` |
| IPVS netlink conversation (`internal/ipvs`) | one socket, one sequence number | doCmdwithResponse, execute | `IpvsSocket` |
| IPVS attributes (`internal/ipvs`) | none of its own: the kernel's services, destinations and timeouts | New/Update/DelService, New/Update/DelDestination, Flush, SetConfig, IsServicePresent, GetService(s), GetDestinations, GetConfig | `IpvsTable`, `IpvsAttributes` |
| Load balancers of the provider (`internal/proxmox/loadbalancer.go`) | none: mappings are read from lbmanager at every call | EnsureLoadBalancer, UpdateLoadBalancer, EnsureLoadBalancerDeleted, handleMappings | `CloudProvider` |
| `lbctl` (`cmd/lbctl`) | none | addSrv, delSrv, addTgt, delTgt: one RPC each (list only reports) | `CloudProvider` (`Lbctl`) |
| Instances of the provider (`internal/proxmox/instance.go`) | none but the API client | InstanceExists, InstanceShutdown, InstanceMetadata | `Instances` |
| Configuration and TLS, provider wiring, generated gRPC code, namespaces and kernel modules, chart and install script | – | – | not modelled, see section 8 |

**How they interact.** Kubernetes' service controller calls the provider, from a
worker for services and from a worker for nodes, which may be in the provider at
the same time; the provider makes one RPC to lbmanager after the other; gRPC runs every RPC of
lbmanager in a goroutine of its own; every handler makes netlink, IPVS and
database calls, with no lock around them; all IPVS calls go through one netlink
socket. lbmanager holds its truth three times: in the database, on the link and
in the IPVS table. Restore, at start, adds to the kernel what the database has
and removes nothing. The IPAM keeps no state and takes the link for its list
of used addresses.

**What is hard here.** Three copies of one truth that are changed call by call;
RPCs that overlap; a process that may die between any two calls; handlers that
go on after an error (Delete, Restore's destinations); load balancers that
share an address; a socket from which several goroutines receive, and a command
that fails after the kernel has executed it; addresses
that are cut to the length of another family and put together again; a provider
that compares with a list it read once, does not report failed RPCs, and is in
two calls for one service at once, whose handlers overwrite each other's record
in lbmanager; an operator with `lbctl`; machines that move while they are looked
up. `PROJECT.json` lists each of these
at its line, with the properties that are about it.

**What makes each part correct.** *lbmanager:* what a record says is served, and
nothing else; no load balancer disturbs another; the address the IPAM gives out
is nobody else's; a restart brings everything back. *IPAM:* the least free
address of the dynamic range, inside the CIDR, and an end of the search.
*Socket:* a command returns the answer to itself or an error of the socket, and
returns. *Attributes:*
what is written to the kernel and listed again is what callers meant. *Load balancers
of the provider:* in the end the mappings are exactly the wanted ones, and a call
that is alone loses no wanted one on the way. *Instances:* an answer was true at some moment of
the call.

## 2. Modules and the code

### LBDefs, LBServer: lbmanager, one RPC at a time

`LBServer` has one action per handler: `Create` (with an address), `CreateAuto`
(without), `Delete`, `AddTarget`, `DelTarget`, and `Stop`, `Reboot`, `Restore`.
Each action has the early returns of its handler as disjuncts and makes all its
changes at once. `db` is rosedb; `addrs`, `svcs` and `dests` are the kernel;
`up` says that lbmanager serves; `reply` is the last answer with its error
flags (an `*Error` in the answer, or a gRPC error).

Addresses are natural numbers (section "IPAM" shows that bytes and numbers
agree). A record is an address and a *set* of mappings: the code's map of lists
without duplicates carries the same information, and no list order is ever used.
Ports keep their truncation to 16 bits, with `PortSpace` for 2^16. The scheduler,
the weights and the forwarding flags of a service or destination are always the
same and are left out. rosedb's Put and Delete are atomic and durable.

`Reboot` is the container's network namespace built again by `installLB.sh`:
only the link's own addresses are left. `Stop` leaves the kernel as it is.

Two conditions on how lbmanager is used are named in `LBDefs`:
`ExclusiveRequests` (requested addresses are outside the dynamic range, are not
the link's own, and no two names ask for one) and `PortsFit` (ports are below
2^16). The code enforces neither; the properties that need them say so.

### LBServerSteps: lbmanager, one call to the outside at a time

The same handlers, cut at every netlink, IPVS and database call; what a handler
computes between two calls goes with the call before it. `call[w]` holds a
goroutine's place and the local variables of its handler. Switches:

- `OneCallPerName`: clients never have two RPCs on one name under way. lbmanager
  does not enforce it.
- `CrashAnywhere`: the process dies between any two calls (`Crash`), Restore is
  cut short (`RestoreCut`). Without it, it halts between RPCs only.
- `CallsFail`: any netlink, IPVS or database call may fail (`CallFails`, which
  takes the error path of that call), and a destination may be missing after
  Restore because the `*Error` of mapTarget is dropped (`RestoreMisses`).

History variables: `flaws` holds `"leak"` since the last reboot in which a
handler was cut short, `"miss"` since the last start in which a call failed, and
`"kept"` since a Delete whose db.Delete failed, until a start at which no two
records have one address; `before` holds the kernel objects on a handler's
address when it began (used by the refinement mapping); `apart` says that since
no RPC was under way, no two were on one name.

`RefinesSerial` maps this module to `LBServer`: a handler takes effect when it
answers, and until then the kernel objects on its address count as they were at
its start. The refinement is claimed step by step while `apart` holds. Two
handlers on one name may lose each other's updates, and then the state they
leave is one `LBServer` need not reach; but whatever they leave, the next
handlers behave like `LBServer` from there. So the disturbance ends with the
RPCs that caused it, which is more than a refinement under the clients'
discipline would say.

### IpamDefs, Ipam, IpamBytes: address allocation

`Ipam` is the loop of `Allocate` on numbers, `IpamBytes` on byte sequences as in
the code: `getNextIP` with its carry and its wrap-around, `bytesCompare`, the
checks of `New`, and the trie. `Start` is AddrList, `InsertAddr` one round of the
loop that fills the trie, `InsertedAll` its end, `Loop` one round of the search;
`Contains` walks the nodes and looks at the last one. A CIDR is a set of
addresses that has every address between two of its own. `Numeric` is the
refinement mapping: an address stands for the number of its digits (`Digits`),
and the addresses in use are what AddrList returned, not what is in the trie.
`IpamDefs.LeastFree` is what the loop computes; `LBDefs.Allocate` is that
operator, so the server's models use exactly what `Ipam` establishes.

### IpvsSocket: the netlink conversation

`NumberRequest` is `atomic.AddUint32` (with the width: modulo `SeqSpace`);
`Send` is Send and GetPid of execute, `Receive` takes one datagram and drops,
collects or ends as execute does, `ReceiveTimesOut` is EAGAIN. The kernel is
external: it executes a request while it is sent and puts the answer into the one
receive queue (`Executed`). A change is answered by one acknowledgement or
error, a GetService by data and then an acknowledgement, a dump by parts and a
DONE. `FirstSeq` lets the behaviour begin just before the wrap-around.

All error returns of execute are there, with the result `"error"`: Send fails and
the kernel has seen nothing; GetPid fails and the kernel has executed the
request; Receive fails for another reason than EAGAIN, or the socket is closed
(`ReceiveFails`; when the receive buffer was full, the last datagrams are lost);
a datagram with the caller's number has another process number (`Receive`). `Stray`
is where such a datagram comes from; it is external, and so is when the calls
fail. A command that ends in one of these ways leaves its answer in the queue.
`MaxFaults` bounds all of them together. `truth` is history: what the kernel did
with a caller's request.

### IpvsTable, IpvsAttributes: what the commands say

`IpvsTable` is what lbmanager's models take the kernel for: a table of services
by key and of real servers by endpoint, in which callers find what they put
there. `IpvsAttributes` has the same calls as `internal/ipvs` makes them:
`fillService` and `fillDestination` turn addresses into 4 or 16 bytes
(`rawIPData`) and ports into two bytes in network order (`BigEndian`);
`assembleService` and `assembleDestination` read them back with `parseIP`, and
with `getIPFamily` when the kernel is too old to tell a destination's family
(`old`). What the kernel does with the attributes is external: the union of 16
bytes that a short address fills up to zeros (`KernelAddr`), a firewall mark in
place of address and port, the refusal of destinations that are no host, and a
timeout of 0 that changes nothing. Weights go in as 32 bits and come out as 16
(`WeightRead`), timeouts are cut to whole seconds (`Seconds`).

`ImplementsTable` is the refinement, with the kernel's bytes read for what they
mean. Its one exception, `Misread`, is an IPv6 destination that ends in
zeros on a kernel before 3.18: `getIPFamily` takes it for IPv4. It needs
`FamiliesAgree`, which the run's services satisfy: a destination has the family of
its service (`fillDestination` does not write the family, and lbmanager does not
compare the two), and a firewall mark stands alone, without the protocol,
address and port that it replaces. Scheduler and
weight stand for all the options of a service and a destination that are copied
unchanged (flags, thresholds, netmask, PE name); statistics are left out.

### CloudProvider: load balancers of the provider

One service, and lbmanager as `LBServerSteps` has it: the module extends that one
and its state is the provider's next to `db`, `addrs`, `svcs`, `dests` and
`call`. An RPC of the provider starts a handler in a goroutine of its own
(`FreeWorker`), which goes on call by call, may have a call fail
(`ServerCallFails`), and answers with its last one. So two handlers on the record
of one service overlap as they do in the program, and lose each other's updates.

`cp[w]` is the call of worker `w` of the controller, with the service, nodes,
addresses and current mappings it was given or has read; `rpc` is the goroutine
of lbmanager it waits for. `NextPort` begins a round of handleMappings' loop over
the ports, `MapNode` is one AddTarget of it and `Remove` one DelTarget; `Answer`
is what each call makes of an answer. An RPC may not arrive (`Lost`), or its answer
may not, while the handler is still at work (`GiveUp`).

The controller is external: its service worker calls Ensure and
Delete, its node worker calls Update, each one call at a time, and nothing keeps
a call of the one and a call of the other apart. `SetService`, `DropService`
and `SetNodes` change the cluster; `owed` is the controller's queue.
`Readdress` gives a node another first address: getAddresses returns them in
Go's map order, and the controller makes no call for it. `Lbctl` is an operator
who creates or deletes the load balancer or one of its mappings.
UpdateLoadBalancer's nil pointer ends the process with both workers; the
restarted controller owes the service an Ensure. It meets the nil pointer when
GetLoadBalancer fails, and also when there is no such load balancer:
lbmanager's answer is then a nil pointer without an error (`impl.go:197`), which the
codec of the gRPC in `go.mod` (1.51, on golang/protobuf) refuses to encode.

History: a call is `failed` when an AddTarget or DelTarget of it failed, and
`disturbed` when another call, lbctl, or a handler that an earlier call gave up
was under way during it. `stale` says that the record may be wrong
and nobody is told: the last call that ended was one of these, an address
changed, or lbctl was used. Calls that overlap disturb each other also when they
have the same aim: AddTarget reads the record at `impl.go:318` and writes it back
at 355, DelTarget at 393 and 466, so that of two mappings added at the same time
one may be lost from the record, and a DelTarget may drop the service of a
mapping that is being added. These losses are behaviours of the model; the
properties do not promise against them, but say that the next call that is alone
repairs what they left.

### Instances: instances of the provider

One node, and the machines of the Proxmox cluster, which are made, destroyed,
migrated and switched on and off (external). A call is one step per API request:
getVMRef (no request when the provider ID can be parsed), getVMInfo,
GetVmConfig. A provider ID is the pair (host, VM ID) that getProviderID
formats; getVMRef takes the VM ID out of it and ignores the host. `seen` is
history: the states of the node's machine during the call.

## 3. Runs

| Run | Result | What it shows |
|---|---|---|
| `server_exclusive` | pass | Under ExclusiveRequests and PortsFit: records, link and IPVS table agree (`AddrsAccounted`, `TargetsServed`, `DestsRecorded`), addresses are not shared (`OwnAddress`), the kernel refuses no call (`KernelNeverRefuses`), RPCs leave other load balancers alone (`OthersUntouched`). `Consistent` is the inductive invariant of the proofs. |
| `server_shared_alias` | violation of `AliasPresent` | Two load balancers with one address, which Create's comment (`impl.go:223`) allows: Delete of one removes the alias of the other. |
| `steps_overlap` | pass | RPCs overlap without discipline. A load balancer nobody is working on keeps everything (`BystandersUntouched`); as long as those under way are on different names they implement `LBServer`, from whatever earlier ones left (`RefinesSerial`). |
| `steps_failures` | pass | Crashes and failing calls, two load balancers, one free address: `ServedWhenQuiet`, `ExactAfterReboot`, `SuccessMeansDone`, and an address is given out twice for one reason only, a failed db.Delete (`SharedAfterFailedDelete`). |
| `steps_alloc_race` | violation of `OwnAddress` | Two overlapping Create calls without an address get the same one. |
| `ipam` | pass | Bytes implement numbers (`ImplementsNumeric`); `Scanned`, `ReturnsLeastFree`, `StaysInCidr`, `Terminates`. |
| `socket_shared` | pass | `ResultIsTrue` with two goroutines, failing calls on the socket, stray datagrams and across the wrap-around: no result but an error of the socket is wrong about the kernel. `TakingTurnsWorks`: commands that take turns end, and drain what failed ones left. |
| `socket_hang` | violation of `CommandsEnd` | Two commands at once: one drops the other's answer, which then waits for ever. |
| `ipvs_attributes` | pass | Every call of a Handle on IPv4, IPv6 and firewall-mark services, with and without the family in a listing, implements the table (`ImplementsTable`). |
| `cloud_sync` | pass | The provider with lbmanager's handlers call by call; services with one supported port, two workers, lbctl, addresses that change, lost RPCs and answers, failing calls of handlers: a call that is alone and meets no failure ends exact (`SyncedIsExact`) and loses nothing it wants (`KeepsWanted`), and the end is as wanted unless nobody is told (`Converges`). |
| `cloud_two_ports` | violation of `SyncedIsExact` | The removal loop inside the loop over the ports unmaps later ports. |
| `instances` | pass | `AnswerWasTrue` while the machines change between requests. |

Every property of a passing run has a mutant in `PROJECT.json`: a plausible bug
in a definition, under which TLC finds that property violated. The mutated forms
are kept beside the definitions.

### Bounds

- *server runs:* two names, since every property relates at most two load
  balancers; a CIDR of five addresses with a dynamic range of two, of which the
  lower is the link's own, so that allocation skips one and runs out; one
  requested address per name and one outside the CIDR; both protocols on one
  port, two targets, so that a port has up to four mappings. The target port is
  truncated in no run under PortsFit. Nothing counts up: the state space is finite
  without bounds on behaviours.
- *steps runs:* two goroutines in `steps_overlap` and `steps_alloc_race`. In
  `steps_overlap` a name has one possible mapping, on which two handlers meet as
  add/add, add/delete, delete/delete, and with Create and Delete; one of the names gets
  its address from the IPAM. A DelTarget that drops the service of another mapping
  on the port needs two mappings on it, which this run does not have; `cloud_sync`
  has them, and the theorems of `LBServerStepsProofs` hold for any.
  `steps_failures` has one goroutine, because crashes and failures multiply the
  states, but two names that compete for one free address and two ports, so that
  a Delete loses one of several services.
- *ipam:* three "bytes" of two values, which has carries through one and through
  two bytes and a wrap-around; every pair of range ends, the CIDR of all addresses
  (prefix of no byte) and the two with a prefix of one byte, every
  set of used addresses and every order of inserting them.
- *socket:* `socket_shared` has numbers modulo 4, beginning at 2, `LastSeq` 1: three
  commands across zero, with at most two faults, so that a command fails, another
  one meets what it left, and a third follows; `socket_hang` has numbers modulo 8,
  beginning at 5, and no faults: it hangs without them. A number is
  not met again while an answer with it is in the queue. In the code the same
  needs 2^32 commands.
- *ipvs_attributes:* addresses of 2 and 4 bytes of three values for 4 and 16
  bytes; two IPv4 and two IPv6 targets that differ in the last byte only, of which
  one of each ends in zeros, a target that is no host and one that is no
  address; a port that needs both bytes; a weight beyond the width it is read with; durations of zero
  and of less than a second. `VIEW KernelView` leaves out `last`, the record of
  the last call: no action reads it, and TLC checks step properties on every
  step it makes, so none is lost.
- *cloud:* two nodes, each with an address or none. The behaviour begins when
  the controller starts, with or without the service and no load balancer yet.
  At most `MaxEvents` = 2 things happen from outside, each at any moment: changes of
  service, nodes and addresses, uses of lbctl (one mapping), lost RPCs, lost
  answers, failing calls of handlers. Two put calls of both workers on the way, or
  fail one call and change its aim. lbmanager has two goroutines: as many as the
  two workers need; a third handler, of lbctl or given up, takes the place of
  one of theirs, whose RPC then waits. The port lists are
  one port, and another node port behind an unsupported one. `VIEW MCView`
  leaves out `up`, which stays TRUE, the last answer and the history variables of
  `LBServerSteps`: no guard and no other variable's new value depends on the old
  values of these, and no property but `ProviderTypeOK`, as to their types, reads them
  (that is proved). So two states that differ in them only have the same steps on
  the rest.
- *instances:* two machines, two hosts, two VM IDs for the node's machine, five
  changes: enough to be registered, destroyed, made anew and moved in one call.

### Deadlock

Checked in all runs but `ipam` (the search ends), `socket_*` (`LastSeq` bounds
the commands) and `cloud_*` (everything may be in sync with no change left).

### Fairness

- `IpamBytes`: the two loops go on (`WF_vars(Step)`).
- `IpvsSocket`: a goroutine that has begun a command goes on (Send, Receive when
  there is a datagram). Nobody has to begin one.
- `CloudProvider`: `WF_allVars(Provider(w))` for each worker: it serves its queue
  and the provider goes on with its call. lbmanager goes on with a handler that is
  the only one under way; with two of them nothing is promised, because they may
  wait for each other's answers on the socket for ever (finding 3), and `Converges`
  excepts a call that then never ends (`Stuck`). Changes and failures are not fair; they are
  bounded, which is what "when the cluster and the network stop changing" means.

## 4. Findings

Four runs show a disagreement between the code and its own comments; they are
quoted in `PROJECT.json`:

1. Delete removes an alias another load balancer still uses (`impl.go:299`).
2. Allocate and the alias it leads to are not one step: two Create calls may get
   one address (`impl.go:209`).
3. Concurrent IPVS commands may take each other's answers and one then waits for
   ever, although the socket has a timeout "to avoid deadlocks"
   (`netlink_linux.go:223`).
4. The removal loop of handleMappings is inside the loop over the ports
   (`internal/proxmox/loadbalancer.go:188`).

Met while modelling, and left as hazards:
a service of one protocol may outlive its targets when the port has targets of
both (`impl.go:448`); a destination whose AddTarget was cut short is served and
not recorded, and a later Delete does not remove it; Restore drops the errors of
mapTarget (`impl.go:159`); a database whose Delete fails after the alias is gone
leaves an address that is recorded and free at once, and the next Create may get
it (`impl.go:310`); two AddTarget or DelTarget calls for one load balancer may lose each
other's update (`impl.go:355`, `impl.go:466`), so an UpdateLoadBalancer that overlaps an
EnsureLoadBalancer may leave a mapping missing although both want it and report no
error, and neither is
called again (`loadbalancer.go:116`); a failed AddTarget or DelTarget is never tried again
(`loadbalancer.go:171`); GetLoadBalancer of a load balancer that is not there
answers with a nil pointer (`impl.go:197`), on which an UpdateLoadBalancer dies
(`loadbalancer.go:111`); an IPVS command may report an error although
the kernel executed it (`netlink_linux.go:209`); an address of a node that changes leaves
its mappings behind until the next call (`instance.go:153`); a target of the
other family than its service is cut or filled up to another address
(`netlink_linux.go:103`). No document promises otherwise of these. InstanceExists
answers "no" when the Proxmox API fails (`instance.go:82`), while its comment
(`instance.go:76`) says that it is true if the instance exists; `AnswerWasTrue`
excepts that answer by name (`failed`).

## 5. What is proved

Every theorem holds for any sets the CONSTANTS may be, from the named
assumptions of the modules only. A condition that a property needs and the code
does not enforce is a hypothesis of its theorem.

### The serial server: LBServerProofs

From `ConfigAssumption`, which says what NewServer and ipam.New accept:

- `TypeCorrect` and `NothingUnrecordedServed` (`[]DestsRecorded`): with no
  condition on requests or ports.
- `Agreement`: `Spec => []Consistent` under ExclusiveRequests and PortsFit. From
  it `NoSharedAddress`, `AliasesMatchRecords`, `TrafficMatchesRecords`,
  `KernelAccepts` and the action property `Isolation`.

`Consistent` is needed because no part is inductive alone. That aliases match
records after Delete needs that no two records share an address; that needs that
the IPAM's addresses are free on the link, which needs that every recorded
address *is* on the link while lbmanager serves (`AddrsAccounted`), and that
requested addresses come from elsewhere (`AddressOrigin`). While lbmanager is
down the link holds *at most* that (`AddrsBounded`), so that Restore ends at
exactly that. That mappings are served after DelTarget needs that the removed
entry belongs to no other mapping, which is `PortsFit` (two ports are not
truncated to one) and `OwnAddress`. `EntriesHaveService` is why a service that
goes takes only its own destinations with it. The proof has one lemma per
action and in it one step per conjunct the action can disturb. What it needs to
know of truncated ports and of entries is in `LBDefsProofs`, which the next
module uses too.

### The handlers call by call: LBServerStepsProofs

| Theorem | Property | Hypotheses |
|---|---|---|
| `TypeCorrect` | `[]TypeOK` | none |
| `OthersUntouched` | `BystandersUntouched` | ExclusiveRequests, OneAutoName |
| `SuccessIsDone` | `SuccessMeansDone` | OneWorker |
| `SharedOnlyThen` | `[]SharedAfterFailedDelete` | ExclusiveRequests, OneWorker |
| `ServedWhenDone` | `[]ServedWhenQuiet` | ExclusiveRequests, PortsFit, OneWorker |
| `ExactWhenDone` | `[]ExactAfterReboot` | ExclusiveRequests, PortsFit, OneWorker |
| `SerialToClients` | `RefinesSerial` | ExclusiveRequests, OneAutoName, not CrashAnywhere, not CallsFail |

All but the last allow any `CrashAnywhere`, `CallsFail` and `OneCallPerName`: the
process may die between any two calls and any call may fail. `OneWorker` (RPCs
are served one at a time) is what finding 2 and the lost updates of section 2
make necessary: with overlap the four theorems that assume it do not hold.
`OthersUntouched` and `SerialToClients` are about overlap. They need that load
balancers have addresses of their own, and `OneAutoName` (one name at most has its
address from the IPAM) is what excludes finding 2, which `steps_alloc_race` shows.

`SerialToClients` is the refinement of `LBServer`, step by step: a handler's last
call is the serial action, what it did before is not seen yet, and stop, reboot
and Restore are those of `LBServer`. A handler that is cut short, or gives up
after a call that fails for no reason `LBServer` knows, leaves half of its work
to be seen, which no serial action does; so the theorem is about a server that
stops between RPCs and whose calls fail for the kernel's reasons only, while RPCs
on one load balancer may still overlap (`OneCallPerName` is not assumed).

The invariants:

- `TypeInv` adds to `TypeOK` what a handler keeps in its local variables, phase
  by phase (`CallOK`): without it a handler could write anything to the database.
- `Origin` is about addresses: a record's, and one a handler is about to store, is
  the one requested for that name or one of the dynamic range. With it, a
  handler on another name has another address, and the kernel calls it makes do
  not reach past its address (`KeepsTo`); that is `OthersUntouched`.
- `LocalsTrue` is about one handler at a time: the record it read is the one in
  the database (`RecordKnown`), and the kernel is as far as the handler has come
  (`KernelKnown`), unless an earlier one was cut short or had a call fail, which
  `flaws` remembers. `SuccessIsDone` follows from its last phase.
- `Alone` joins these with `BaseKept` (the link's own addresses are never
  removed) and `Aliases` (recorded addresses are on the link and differ, until a
  db.Delete fails). `SharedOnlyThen` follows: what is on the link the IPAM does not
  give out.
- `Serving` and `Bounded` are the two halves of "the kernel is what the database
  says", from below and from above, with the handler under way accounted for.
  They give `ServedWhenDone` and `ExactWhenDone`.
- `Slices` says that what a handler remembers of the kernel (`before`) is on its own
  address; `Apart` says that as long as handlers are apart each knows its record,
  has an address the IPAM would still give out, and is as far as `Progress` says:
  the kernel objects on its address now, against those it began with. `GoesOn`
  (a call in the middle is a stutter), `Ends` (the last one makes all of it seen)
  and one lemma per handler make up `StepSimulates`. That no two handlers on
  different names meet on an address is `OthersOff`, from `Origin`.

### Address allocation: IpamProofs

For addresses of any number of bytes and bytes of any size (`BytesAssumption`),
and CIDRs that have every address between two of their own (`BlocksAssumption`,
in the order of `bytesCompare`; a common prefix of bits is such a block):

- `AddressesAreNumbers`: what `Ipam` assumes of numbers holds of the values of
  byte strings.
- `BytesImplementNumbers` (`Spec => ImplementsNumeric`): every step of the code is a
  step of `Ipam` or changes nothing `Ipam` sees.
- `ScanCorrect` (`[]Scanned`, the loop invariant: everything below the candidate is
  on the link), `AllocateCorrect` (`[]ReturnsLeastFree`) and `AllocateInCidr`
  (`[]StaysInCidr`), of the specification on bytes. `Scanned` as to the candidate, and the
  other two, leave out the one range that ends in the last address
  there is, where the code's comparison cannot end the loop.

The values of byte strings are a recursive function of their length, so these
proofs need induction. The provers cannot instantiate the library's induction
theorems, but they can cite that the natural numbers are well founded;
`LeastNumber`, `Induction` and `Upwards` are induction for a set of numbers from
there. By it `DigitsExist` and `DigitsAre` give the equations of `Digits`,
`DigitsLess` says that the first different byte decides (hence `CompareIs`: comparing
bytes is comparing numbers, and different addresses have different numbers), `NextIs`
that after the first i bytes the increment has added one, gone from the last
number of i bytes to zero, or not come so far, and `ValueOnto` that every number
is the value of an address. `BytesOK` is the invariant the refinement needs: every
node on the way to an inserted address is in the trie (`Walkable`), so `Contains`
finds just these, and from the end of the first loop on they are what AddrList
returned.

### The netlink conversation: IpvsSocketProofs

`TypeCorrect` and `ResultsTrue` (`[]ResultIsTrue`), for any number of goroutines,
commands, faults and stray datagrams, any width of the sequence number, any first
number and dumps of any length, as long as no number comes round again
(`LastSeq`). The result of a command that ended in an error of the socket is
excepted, and no other: `ResultsTrue` is about the commands that follow it as
well, which find its answer in the queue. The invariant
says, next to types and the property, that the numbers under way are distinct
and were given out (`NumbersDistinct`; `Place` counts from `FirstSeq`, across
the wrap-around); that a command which receives was sent (`Sent`); and that the
queue holds, beside stray datagrams, answers to numbers given out only, of
which the one that ends a command tells what the kernel did with it
(`QueueTrue`, about datagrams with the handle's own process number: execute
returns an error at the others). A number not yet sent is not in the queue, so
nobody can take an older answer for his own, however many failed commands have
left theirs.

### IPVS attributes: IpvsAttributesProofs

From the types of the callers' values only (`CallersAssumption`: a `net.IP` is of
4 or 16 bytes or none, a port has 16 bits), for any sizes of a byte, of
addresses and of weights, and both ages of the kernel:

- `TypeCorrect` (`[]TypeOK`): no further condition.
- `KeepsTheTable` (`ImplementsTable`), the refinement of `IpvsTable`, under
  `FamiliesAgree`. lbmanager does not enforce it for targets (section 2).

The invariant is `Known`: the kernel holds only what some service or destination
of a caller was turned into, every server has its service, and its address is a
host. The weight of the proof is in what a key means. `HostForm`,
`KernelAddrFour`, `KernelAddrSix` and `PortBytes` follow an address and a port to
the kernel's bytes and back; hence the bytes of a key mean the caller's own name
(`MeantName`, `MeantEndpoint`), and two values have the same key exactly when they
have the same name (`NamedInjective`, `EndpointInjective`). So putting in and taking
out under a key is putting in and taking out under its name (`WithService`,
`WithoutServersMeant` and the like), and every call is one of the table's.
`DestinationRead` says when the guess of `getIPFamily` is right: an IPv4 address
that is a host never has four zero bytes, and an IPv6 address is mistaken
only if it ends in zeros, which is `Misread`.

### Load balancers of the provider: CloudProviderProofs

The specification is the composition, so these theorems rest on the type
invariant of `LBServerStepsProofs` and on what its handlers do at each call, with
any number of goroutines in lbmanager:

- `ProviderTypeCorrect` (`[]ProviderTypeOK`): no condition.
- `WantedIsKept` (`KeepsWanted`) when no service has more than one supported
  port (`AtMostOnePort`) and ports fit 16 bits (`PortsFit`, without which two
  mappings are one entry of the kernel).
- `FinishedIsExact` (`[]SyncedIsExact`) when every service has exactly one
  supported port (`ExactlyOnePort`).

With two ports the last two are false (finding 4, run `cloud_two_ports`); a service
without a supported one is not synced at all. Both are about a call that is not
disturbed, which is what the lost updates of overlapping handlers make necessary.

The invariant is `ProviderInv`. `OnItsOwn` says why "undisturbed" is enough: an
undisturbed call is the only one, and the only handler under way in lbmanager is
the one it waits for (`Serves`), which is at a place of the right operation, with the
record it read still in the database. So each step of the handler changes the
record by just that one mapping (`AddingStep`, `RemovingStep`, `CreatingStep`).
`KeepSafe` says that what the call is about to remove, or has a handler remove, is
nothing it wants. `ExactSafe` is about the record while the call maps and unmaps: what the
loops have passed is as the call wants it, and what is left to do is in its
lists or with its handler, unless an RPC failed. `HasSpec` and `OwedFits` tie the
calls and the controller's queue to the service there is: nothing but the
deletion is owed to, or under way for, a service that is gone.

### Instances: InstancesProofs

`TypeCorrect` and `AnswersTrue` (`[]AnswerWasTrue`), for any machines, hosts, VM
IDs and number of changes. `Looked` says what a call has remembered from its
requests; `OwnIDs` and `Watched` that a VM ID belongs to the node's machine or to
no one else's, and that `seen` holds the machine's present state while a call is
under way, also a moment without a machine when the one found by name is gone.
The last two need that VM IDs are not used again (`IDsNotReused`), and so
does the property: the provider knows a machine by nothing but its number.

## 6. What is only model-checked

- *Liveness* (`Terminates`, `TakingTurnsWorks`, `Converges`): out of the prover's
  reach, like ENABLED.

## 7. Plan

Done, in this order: the serial server and its proofs; the handlers call by
call, with overlap, crashes and failures; the IPAM; the socket; the provider's
load balancers and the instances; then the two workers of the controller, lbctl
and changing addresses, overlap without discipline, failures with two load
balancers, and the IPVS attributes with the table they implement; then the proofs
of the instances, the socket, the provider's load balancers, the handlers up to
the refinement of the serial server, and the IPVS attributes up to that of the
table; the addresses' bytes and trie up to the refinement of the loop on
numbers; the errors of the netlink socket; and the provider composed with
lbmanager's handlers call by call, with its proofs. Nothing of this plan is left to prove but what section 6 names.

Left out of the model:

- two services in `CloudProvider`: a service's calls touch the record of its own
  name only, and `OthersUntouched` says of the handlers that they leave other
  names alone;
- a crash, a reboot and Restore of lbmanager inside `CloudProvider`:
  `LBServerSteps` has them for handlers whoever their client is, and a client sees a
  lost answer, which `CloudProvider` has;
- a composition of `LBServerSteps` with `IpvsSocket`. A handler that never
  returns is a handler that takes no further step, which the safety properties of
  `LBServerSteps` include. A command that reports an error of the socket although
  the kernel executed it is not: `CallFails` of `LBServerSteps` is a call that
  did nothing. What it leaves is a kernel ahead of the record, as after a
  crash between that call and the next, and the history of flaws excepts
  what a handler that gave up left behind in the same way.

## 8. What is not modelled, and why

- *Configuration, TLS, wiring, command lines*: read once at start. The watch of
  lbmanager's configuration merges values nobody reads again.
- *lbctl list*, and the flags and certificates of lbctl: they change nothing.
- *Generated code, chart, install script*: what they give the system (a link
  with its own addresses, a restart on failure) is in `Init`, `Reboot`
  and `Restore`.
- *GetLoadBalancer(s)* of lbmanager and of the provider: they change nothing.
- *Opening the handle* (namespaces, `modprobe`, the family number of IPVS): once
  at start; without it no call is ever made.
- *SimpleIpam.Release, IsUsed, Range.Contains*: empty or without callers.
