# TLA+ models of the Ludus range-management helpers

This directory holds TLA+ models of the two Python programs under
`src/ludus-server/ansible/range-management/`, with TLC configurations that
check them.

## 1. Inventory of the system

### 1.1 Role dependency resolver (`library/ludus_role_dependency_resolver.py`)

This is an Ansible module. It reads the `ludus` range configuration, a list of VM
records, each with `roles`. It returns an order of `(vm_name, role_name)` pairs
in which every role comes after the roles it `depends_on`. It fails with a
single message when it cannot return one.

| component | state | operations |
|---|---|---|
| Graph Builder `parse_ludus_config` (l. 47-69) | `graph`: an OrderedDict from node to its dependency list; `nodes`: an OrderedDict of nodes in first-insertion order | one loop iteration per role entry. A string entry registers a node with no dependencies. A mapping registers a node and appends its `depends_on`. Any other type is skipped. A missing key raises `KeyError`. |
| Topological Sorter `topological_sort` / `visit` (l. 71-99) | `result` list; sets `temporary` and `permanent`; the Python call stack of `visit` frames | the root loop over `nodes`. `visit(n)` returns if `n` is permanent and raises a cycle error if it is temporary. Otherwise it marks `n` temporary and iterates over `sorted(graph[n])`. A missing key raises "Dependency not found". It then marks `n` permanent and appends it. |
| entry point `main` (l. 101-117) | none | calls the two functions above. `ValueError` becomes its message. Any other exception (`KeyError`, `RecursionError`) becomes "An error occurred: ...". |

How they interact: `main` calls the builder, then passes both OrderedDicts to
the sorter. The only state they share is those two structures. There is no
concurrency and no I/O. The behaviours that are hard to get right:
- last-write-wins re-declaration of a node;
- the three-colour DFS with early returns;
- sorted neighbour order;
- the recursion limit on long chains;
- which node an error message names.

What makes the resolver correct:
- an order it returns is a permutation of the registered nodes and respects every edge;
- it returns an order whenever one exists;
- a cycle diagnosis names a node on a cycle;
- a missing-node diagnosis names an undeclared dependency;
- it terminates.

### 1.2 Proxmox dynamic inventory (`proxmox.py`)

This is an Ansible dynamic-inventory script. It lists the VMs of a Proxmox
cluster over the REST API and prints inventory JSON.

| component | state | operations |
|---|---|---|
| `ProxmoxAPI` (l. 118-236) | options, auth ticket | `__init__` picks credentials from the options, then from the JSON config file. It also has `auth` and `get`, and one wrapper per endpoint. `qemu_agent` maps HTTPError to False. `openvz_ip_address` extracts the address with a regex. |
| list wrappers (l. 61-115) | none | `ProxmoxVMList.get_names` filters templates when the version is at least 4.0. There are also `get_variables` (`proxmox_` prefix), `get_by_name`, `ProxmoxPool.get_members_name` and `ProxmoxVersion.get_version` (parses the version string). |
| `qemu_agent_info` (l. 238-292) | the SystemInfo record | reads the OS info, then the network interfaces with one retry after 0.5 s. Collects IPv4 addresses, then calls `check_ip_addresses`. |
| `check_ip_addresses` (l. 294-345) | none (reads env and the range YAML) | picks one address: the configured one if seen, else a 192.0.2.0/24 one, else the first valid one, else the forced config IP, else None |
| `get_os_info_from_config` (l. 348-372) | none | windows/linux/macos from the range YAML |
| `main_list` (l. 383-573) | `results` (groups and `_meta.hostvars`), `valid_vmids`, `all_groups` | looks up the pool of the range, then loops over the nodes. It skips a node that answers 595/596. For each VM it merges hostvars and reads notes metadata. For qemu VMs it asks the agent, with one retry. It then fills the notes groups, `running`, the OS-id groups and the pool groups, and finally filters to the range's VMIDs. |
| `main_host`, `main` (l. 576-628) | options | option parsing, and printing of the JSON |

How they interact: `main_list` calls the API wrappers in sequence. The result
of each call feeds the `results` dictionary, which later steps read back by VM
name. The hard behaviours are partial failures and one-shot retries:
- a pool lookup fails;
- a node is unreachable;
- the agent times out.

Name collisions are also hard:
- two VMs with the same name;
- a group named like a pool.

So is the interplay of the range filter with everything built before it. What makes it correct:
- with a range id set and not all ranges requested, no host of another range appears;
- every host in a group has hostvars;
- every reachable VM is listed;
- the chosen IP follows the documented preference.

## 2. Plan

Modules, in order of importance (done items are marked):

1. **DepResolver** (done): the resolver, step by step. The builder is one step
   per role entry and the sorter an explicit `visit` frame stack.
   **ResolverContract** (done) is the abstract specification. It contains:
   - the last-write-wins graph of a configuration, as a pure definition;
   - the set of answers allowed for it.

   DepResolver is shown to implement ResolverContract through `INSTANCE ... WITH`.
2. **Inventory** (done): `main_list` as a state machine. It covers:
   - nodes that may answer 595/596 or another error;
   - VMs with names, VMIDs, range pools, templates, notes groups and status;
   - the pool lookup that may fail;
   - the range filter.

   The inventory run keeps VM names distinct and pool names apart from
   notes-group names. Section 4 says what the code does otherwise (hazards
   l. 444 and l. 539).
3. **HostFacts** (done): the facts `main_list` records for one VM. It
   covers `qemu_agent`, `openvz_ip_address` for containers, and
   `qemu_agent_info` step by step, with its network retry and
   `main_list`'s retry of the whole call, and the no-agent branch.
   `check_ip_addresses` and `get_os_info_from_config` are operators of this
   module, checked against a declarative statement of the documented
   preference. Inventory abstracts the outcome of one HostFacts run to an
   agent mode:
   - `none`: no agent;
   - `ok`: get-osinfo answers the first time;
   - `flaky`: the first call raises and the retry answers;
   - `down`: both calls raise, which is HostFacts' `failed`.
4. **ProxmoxVersion** (done): `get_version` over tokenised version strings.
5. **ResolverDeterminism** (done): two DepResolver runs composed with
   `INSTANCE ... WITH`, on configurations that are equivalent by
   reordering. This checks the determinism the module's documentation and
   spec section 8 promise.
6. **ProxmoxOptions** (done): `main`'s certificate and option handling and
   `ProxmoxAPI.__init__`.
7. **MainHost** (done): `main_host` with `auth`, `node_qemu` and
   `get_by_name`. It uses ProxmoxVersion's `GetVersion` through an instance.

## 3. What is modelled now

### DepResolver.tla / ResolverContract.tla

- Node names: `VMs` and `Roles` are sets of naturals ranked as the strings
  they stand for sort. `sorted()` on `(vm_name, role_name)` tuples is
  `SortSeq(_, LexLt)`.
- A configuration is the flat sequence of `(vm, role entry)` pairs that the two
  nested loops of `parse_ludus_config` visit. VM names may repeat across
  records, so every flat sequence is a possible configuration.
- Role entry shapes:
  - `str`;
  - `dict` with a `depends_on` of up to `MaxDeps` references;
  - `other`, any type matched by neither `isinstance`;
  - `malformed`, a mapping missing `name` / `vm_name` / `role`, which raises `KeyError`.
- `ParseRole` is one loop iteration, and `Register` is the two OrderedDict
  assignments: an existing key keeps its position and its list is replaced.
- `visit` is the operator `Visit(n, st)`. Its disjuncts, in code order:
  1. the interpreter's recursion limit (`RecLimit` frames);
  2. permanent, so return;
  3. temporary, so a cycle error;
  4. `graph[n]` raises KeyError, so a missing error naming `n`;
  5. push a frame with the sorted neighbours.
- `VisitRoot`, `VisitNeighbor` and `FinishVisit` are the root loop, the
  neighbour loop and the code after it. An exception is `Abort`: the run ends
  with that outcome and no order.
- ResolverContract holds:
  - the graph a configuration declares, defined directly: a node is
    registered by any `str`/`dict` entry and depends on what its last entry
    lists;
  - `Allowed`: an order that respects that graph, a node on a cycle, an
    undeclared referenced node, or a chain longer than the recursion limit.

### Inventory.tla

- The cluster is chosen in `Init` and is fixed for one listing. It holds:
  - `cluster`: each vmid's node, type, template flag, status, pool, notes
    groups, agent behaviour and OS id;
  - `nodeState`: whether each node's qemu listing answers, answers 595/596,
    or fails otherwise;
  - `rangeSet` and `returnAll`: `LUDUS_RANGE_ID` and `LUDUS_RETURN_ALL_RANGES`.
- VM names are the constant `VMName` (vmid -> name). `hostvars` is keyed by
  name, as in the code, and records the vmid, type and status it came from.
- One action per loop iteration of `main_list`, in code order:
  - `LookupPool` (l. 401-410): the pool is found, or `pool()` raises
    HTTPError and is swallowed;
  - `ListNode` (l. 415-440): skip on 595/596, raise on another error, or
    merge the node's qemu then lxc lists;
  - `ProcessVM` (l. 443-534): one VM of `node_hostvars`;
  - `EndNode`, `EndNodes`: the end of the VM loop and of the node loop;
  - `AddPoolGroup` (l. 536-541): one pool;
  - `FilterRange` (l. 543-573): the range filter and the return.

  A raise ends the listing in phase `failed`.
- Guest agent behaviours:
  - `none`: `qemu_agent` is False;
  - `ok`;
  - `flaky`: the first `qemu_agent_info` raises and the retry at l. 480
    succeeds;
  - `down`: both raise, so the listing fails.

  Only a running qemu VM can have an agent (`Possible`).
- The description parse (l. 446-470) is abstracted to `Metadata`. It is
  either a mapping with the set of groups it lists, or `other`: a value
  that is not a mapping, such as `42`, `true`, `null` or a non-empty list.
  - A mapping covers a JSON object, a Python dict literal, no description,
    and text that neither parses (`{'notes': text}`).
  - An `other` value makes `'groups' in metadata` (l. 504) or the final
    hostvars update (l. 534) raise, and nothing catches that.

  `ansible_host` and the OS name fields are left out here; HostFacts models
  them.
  Proxmox is taken to be >= 4.0, so the openvz branch is not modelled.

### HostFacts.tla

- Addresses are model values, each with a class:
  - plain;
  - 192.0.2.0/24 (`testnet`);
  - loopback, link-local, or 172.16.0.0/12 (`docker`);
  - `short`, accepted by `inet_aton` but rejected by `ipaddress`;
  - IPv6.

  `CfgAddr` is the config's address `10.<range>.<vlan>.<octet>`.
- The range config is a sequence of entries. Each entry records:
  - whether it has `vm_name`;
  - whether that name resolves to this VM;
  - whether it has `vlan`/`ip_last_octet`;
  - its `force_ip`;
  - its OS key.
- `IpSearch` and `OsSearch` are the two config loops. Their exits are:
  - `IpSearch`: a KeyError, or a break on the matching entry;
  - `OsSearch`: a KeyError, or a return on the first matching entry with an
    OS key.
- `ScanIps` is the first loop of `check_ip_addresses`, with its early return.
  `CheckIpAddresses` adds the three fallbacks.
- One action per call:
  - `OsInfo`: get-osinfo answers, or raises into `main_list`'s retry;
  - `NetFirst` and `NetRetry`: the two network-get-interfaces calls;
  - `Select`: the end of `qemu_agent_info` and l. 481-487;
  - `NoAgent`: l. 488-500;
  - `Container`: l. 502-503. A container stores `openvz_ip_address`, which is
    the static IPv4 address of its `net0`, or `False`. It gives `False` on an
    HTTPError, when there is no `net0`, and when there is no `ip=` match.
- `qemu_agent` is the agent choice of `Init`. Its three answers are `info`
  (True), `null` (None) and HTTPError (False).

### ProxmoxVersion.tla

A version string is a sequence of tokens: a natural number is a run of
digits, `Dot` is `.` and `Dash` is `-`. `SplitOn` is `str.split`. `Float` is
`float()` on the strings the tokens can spell: `I`, `I.`, `.F` and `I.F`.
Anything else raises. A float is the pair (integer run, fraction run).

### ResolverDeterminism.tla

- Two instances of DepResolver, `A` and `B`, each with its own copy of the
  ten variables.
- Run A reads any configuration and answers. Then `ChooseEquivalent` picks
  a configuration equivalent to A's, which run B reads entry by entry
  (`ReadTarget`) before it sorts.
- There are two equivalences:
  - `deps`: every `depends_on` list is replaced by a reordering of itself;
  - `entries`: the entries of a dependency-free configuration are
    reordered, which is what listing the VMs or their roles in another
    order does.
- B starts only after A is done. The runs share nothing, so this order
  loses no behaviour.

### ProxmoxOptions.tla

- The inputs are chosen in `Init`:
  - per credential: the command-line value (absent, empty or set), the
    environment variable, and the config file's key;
  - the config file (absent, or present with its keys and `validateCert`);
  - `PROXMOX_INVALID_CERT`, `--trust-invalid-certs`, and whether the url
    ends with '/';
  - `--list`, `--host`, or neither.
- A value is abstracted to its source: `None`, `""`, `cli`, `env` or `cfg`.
  Empty and unset environment variables behave alike (both falsy), so they
  are one case.
- The actions, in code order:
  - `ReadCertSetting` (l. 595-604);
  - `ParseArgs` (l. 606-614);
  - `Dispatch` (l. 616-622);
  - `ApiInit`, all of `__init__` (l. 119-154). It uses `FillFromConfig`
    for the config-file block and `FirstMissing` for the `if/elif` raises,
    then appends '/'.

### MainHost.tla

- The cluster is chosen in `Init`. It holds:
  - each VM's node, type and template flag;
  - each node's qemu listing: answers, 595/596, or another error;
  - whether the ticket is accepted;
  - the version string `/version` returns.
- `Auth` is `ProxmoxAPI(...)` plus `auth()`. `VisitNode` is one iteration of
  the node loop:
  - `node_qemu` raises for a node that does not answer;
  - `GetVersion` of the version string may raise ValueError;
  - `get_by_name` may find the VM, which returns.

  `NotFound` is the final `return {}`.

### Runs

| run | cfg | checks | shows |
|---|---|---|---|
| resolver | MCDepResolver.cfg | TypeOK, OrderRespectsDeps, ImplementsContract, Terminates | every configuration of up to 3 entries over 4 nodes is resolved as the contract says |
| missing_dependency_name | MCDepResolver_MissingNamesDeclarer.cfg | MissingNamesDeclarer | violated: the message names the undeclared node, not its declarer (spec 4.2/8) |
| resolver_determinism | MCResolverDeterminism.cfg | DepOrderIrrelevant | two runs whose configurations differ only in the order of `depends_on` lists give the same answer |
| dependency_free_reorder | MCResolverDeterminism_DependencyFreeOrderIndependent.cfg | DependencyFreeOrderIndependent | violated: `[vm1:r1, vm2:r1]` and its reverse give opposite orders, against spec section 8 |
| host_facts | MCHostFacts.cfg | TypeOK, ExpectedHost, Terminates | every agent behaviour, address list, range config and container net0 gives the documented ansible_host; the lookup ends |
| force_ip | MCHostFacts_ForceIpHonoured.cfg | ForceIpHonoured | violated: an agent that reports no interfaces leaves ansible_host '' although force_ip is set (l. 289; comment at l. 339) |
| version_with_dash | MCProxmoxVersion_GetVersionTotal.cfg | GetVersionTotal | violated: "4.4-4" raises ValueError, though the comment at l. 105 says versions with '-' are handled |
| inventory | MCInventory.cfg | TypeOK, RangeCompleteness, IsolatedWhenPoolFound, NoDuplicateGroupHosts, NotesGroupsHonoured, Terminates | every listing over two VMs on two nodes behaves as below |
| range_isolation | MCInventory_RangeIsolation.cfg | RangeIsolation | violated: a missing or empty range pool turns the filter off, and other ranges' VMs and pool groups are listed (the comment at l. 409 says the results are empty) |
| template_listing | MCInventory_TemplatesNeverListed.cfg | TemplatesNeverListed | violated: with filtering on, the filter rebuilds all.hosts from hostvars and lists the range's templates, which get_names leaves out |
| client_options | MCProxmoxOptions.cfg | TypeOK, CredentialPrecedence, RaisesOnlyWhenMissing, CertCheckOffOnlyWhenAsked | every combination of credential and certificate sources is settled as described below |
| main_host | MCMainHost.cfg | TypeOK, HostLookupSound, LookupFailsOnlyBeforeHost, Terminates | `--host` returns the first qemu VM of that name in node order, or {} when there is none; it fails exactly when a node before the VM's node does not answer; it always ends |

Properties of the resolver run:
- **OrderRespectsDeps** (invariant of every state): `result` never holds a node
  twice, and holds every node after all its dependencies.
- **ImplementsContract**: the refinement. The answer is always one the
  contract allows for the configuration read. So:
  - the parser really is last-write-wins;
  - every order respects the dependencies of the last declaration;
  - every cycle diagnosis names a node on a cycle;
  - every missing diagnosis names a really undeclared dependency.
- **Terminates**: `<>(phase = "done")` under weak fairness of `Next`. The
  module is one synchronous call with no waits, so weak fairness only excludes
  the interpreter stopping for no reason.

Bounds: 2 VM names × 2 role names (4 nodes), at most 3 entries, at most 1
dependency each, and a recursion limit of 2 frames. Three entries are enough
for:
- a self-dependency and a two-node cycle;
- a node reached twice (a root that is already permanent, a neighbour that is
  already permanent);
- a redeclared node, and an undeclared dependency;
- a chain of three nodes that exceeds the recursion limit.

The run explores 99,891 states. Every disjunct of `Visit` and `ParseRole` fires.

Deadlock checking is off because the resolver stops once it has answered.

Properties of the inventory run:
- **RangeCompleteness**: when the range pool is found, every VM of it that is
  not a template and sits on a node that answered ends up in hostvars under
  its own vmid, and in all.hosts. Templates are left out, because `get_names`
  (l. 82) and `get_members_name` (l. 115) leave them out; template_listing
  shows that the filter lists them anyway.
- **IsolatedWhenPoolFound**: when the pool is found, no host of all.hosts,
  hostvars or any group belongs to another range. The pool groups added after
  the VM loop are included.
- **NoDuplicateGroupHosts**: no group lists a host twice. It would fail if a
  node's VM loop also went over earlier nodes' VMs.
- **NotesGroupsHonoured**: every listed VM is in each group its notes name.
  It holds only while no pool is named like a notes group; section 4 says
  what happens otherwise. Its mutant indents the notes block under
  `if type == 'qemu'`.

A listed VM whose description is valid JSON or a Python literal, but not a
mapping, makes the whole listing fail (hazard l. 504). The model has this
step, but no run checks it as a requirement.
- **Terminates**: the listing ends, done or failed, under weak fairness of
  `Next`. `main_list` is a sequential loop over finite lists.

Bounds of the inventory runs:
- 2 vmids on 2 nodes;
- the range pool `r1`, one other pool `r2`, and no pool;
- one notes group and one OS id;
- besides the VMs whose notes name `web`, range containers whose
  description is not a mapping, running or not, on either node;
- every agent behaviour, for running qemu VMs;
- all 9 node-answer combinations;
- all 4 environment settings.

Two VMs are enough for:
- a range VM beside a VM of another range, on the same node or on another;
- a skipped node;
- a template;
- a failing agent after a successful one.

The run explores 1.89M states in about 2.5 minutes. The violation runs give
every VM a steady agent, to keep their state space small. Deadlock checking is
off for the same reason as for the resolver.

Properties of the host_facts run:
- **ExpectedHost**: `ansible_host` is `PreferredIp` of the collected
  addresses. `PreferredIp` states the documented order with `SelectInSeq`
  instead of loops:
  1. the config's address if it is reported;
  2. the first 192.0.2.0/24 address;
  3. the first usable address;
  4. the forced config address;
  5. None.

  Without an agent, a None result means the key is deleted. A container's
  `ansible_host` is its `net0` address, or `False`.

`check_ip_addresses` catches the KeyError of an entry without `vm_name`
(l. 309), but the catch ends the search. A malformed entry of another VM
therefore hides this VM's forced address (hazard l. 309). `IpSearch` models
that exit, and `ExpectedHost` is checked over such configs. No property asks
for the entry to be skipped.
- **Terminates**: both retries are bounded, so the lookup ends.

Bounds of the host_facts run:
- six addresses, one of each class, with two of class plain: the config's
  own address and another;
- answers of up to two addresses;
- configs of up to two entries, built from:
  - an entry without `vm_name`;
  - another VM's entry;
  - this VM's entry in 8 shapes;
- a container whose `net0` raises, is missing, uses dhcp, or has each IPv4
  address.

Two addresses are enough for a filtered address before a usable one, and for
a test-net address after a plain one. Two entries are enough for a KeyError
before the match, and a match after another VM's entry. The run explores
255,300 states.

The version_with_dash run takes every token string of up to 5 tokens over
two digit runs (601 strings). This covers all three Proxmox forms and every
malformed string that short.

Properties of the resolver_determinism run:
- **DepOrderIrrelevant**: when B read A's configuration with its
  `depends_on` lists reordered, both runs give the same answer. The answer
  can be an order, a cycle naming one node, a missing node or a recursion
  error. Its mutant drops the `sorted()` of l. 85.
- **DependencyFreeOrderIndependent** (violation run): the same claim for
  reordered entries of a dependency-free configuration, which spec section 8
  makes. The roots are visited in insertion order (l. 95), so it fails with
  two entries. Spec section 3 itself calls insertion order the top-level
  tie-break, so the spec contradicts itself here.

Bounds: at most 2 entries with at most 2 dependencies each, over the same 4
nodes and recursion limit 2. Two dependencies are the least that can be
reordered. The run explores 158,709 states.

Properties of the client_options run:
- **CredentialPrecedence**: once `__init__` returns, each credential comes
  from, in order of preference:
  1. a non-empty command-line value;
  2. when the option was not given at all, the environment variable;
  3. the config file.

  The config file never overrides a value given earlier. An option given
  empty hides its environment variable, because optparse's default is not
  used.
- **RaisesOnlyWhenMissing**: `__init__` raises for the first unsupplied
  credential in check order, and never when all are supplied.
- **CertCheckOffOnlyWhenAsked**: certificate validation is off exactly when
  any of these holds:
  - `--trust-invalid-certs`;
  - `PROXMOX_INVALID_CERT`;
  - `validateCert: false` in the config file.

Bounds: all 129,600 input combinations, which explore 604,800 states.

Properties of the main_host run:
- **HostLookupSound**: a returned VM is a qemu VM of that name. No earlier
  node has one, and it has the lowest vmid on its node. `{}` is returned only
  when no node has one.
- **LookupFailsOnlyBeforeHost**: after a successful authentication and
  version parse, the lookup raises exactly when a node up to the host's
  first node does not answer.
  - `main_host` has no 595/596 case (l. 581), so such a node aborts
    `--host`.
  - A node after the host's node never matters, because the loop returns
    at once.

  Its mutant goes on looping after a match.
- **Terminates**: under weak fairness, as for `main_list`.

Bounds: three VMs on two nodes, two of them named like the host asked for.
Every placement, type and template flag, every node answer, the ticket
accepted or refused, and the versions "7.4" and "7.4-4". The run explores
47,072 states.

## 4. Not modelled, and known limits

- The inventory run keeps VM names distinct and pool ids apart from
  notes-group names. In the code:
  - when two VMs share a name on two nodes, the second node's hostvars
    update replaces the first VM's after it joined `running`. Group
    `running` can then list a host whose hostvars say it is stopped
    (hazard l. 444);
  - when a pool has the name of a notes group, the pool loop resets the
    group, so `NotesGroupsHonoured` fails (hazard l. 539).

  Ludus prefixes VM names with the range id, which keeps these cases rare.
- `main_host` calls `node_qemu` with no 595/596 handling, while
  `main_list` skips such a node (comment at l. 419). `LookupFailsOnlyBeforeHost`
  states exactly when this aborts `--host`. No run treats the skipping as a
  requirement, because nothing in the repository asks for it.
- A role entry that is neither a string nor a mapping is dropped by
  `parse_ludus_config`. Spec section 7 asks for a validation error.
  `ResolverContract` allows the drop, so no run insists on a rejection.
- Containers get `False` as `ansible_host` when they have no static
  address (hazard l. 503), while the qemu path deletes the key.
  `ExpectedHost` states the behaviour, but no run asks for a deletion: no
  documentation in the repository says which is meant.
- A notes `"groups"` value that is a string is iterated character by
  character (hazard l. 505). Group names are model values here, so this is
  not modelled.
- YAML errors in the range config are not modelled. Only `FileNotFoundError`,
  `JSONDecodeError` and `KeyError` are caught; a YAML error would propagate.
  The config is written by the Ludus server, which is outside `src/`.
- The Proxmox < 4.0 (openvz) branch of `main_list` is not modelled.
- These are I/O with no control to check, and are left out:
  - the HTTP transport and the JSON body of `get`;
  - JSON and YAML decoding;
  - the printing of the output.
- The type errors `sorted()` raises on mixed name types are not modelled, since
  names are abstracted to ranks.
- A non-boolean `validateCert` value (for example the string "false") is
  passed to `open_url` as is. It is truthy, so validation stays on. The
  model keeps `validateCert` to true, false or absent.
