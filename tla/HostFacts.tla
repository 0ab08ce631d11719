------------------------------ MODULE HostFacts ------------------------------
(***************************************************************************)
(* The facts main_list records for one VM (proxmox.py l. 473-503):        *)
(* ansible_host and proxmox_os_id.  A container (type lxc) only gets the  *)
(* ansible_host openvz_ip_address reads from its net0 (l. 502-503).       *)
(*                                                                         *)
(* With a guest agent, main_list calls qemu_agent_info, and calls it once  *)
(* more if it raises.  qemu_agent_info reads get-osinfo (an HTTPError      *)
(* propagates), then network-get-interfaces, retried once, a second       *)
(* HTTPError giving no networks; it keeps the addresses inet_aton accepts *)
(* and, when there are any, picks one with check_ip_addresses.  Without  *)
(* an agent a running VM gets check_ip_addresses(name, []) and its OS id *)
(* from the range config (get_os_info_from_config).                       *)
(*                                                                         *)
(* Addresses are model values of a few classes; the range config is a    *)
(* sequence of VM entries that do or do not name this VM.                 *)
(***************************************************************************)
EXTENDS Integers, Sequences, SequencesExt

CONSTANTS
  Addrs,     \* the addresses an agent may report
  Class,     \* address -> "plain" | "testnet" (192.0.2.0/24) | "loopback"
             \*   | "linklocal" | "docker" (172.16.0.0/12) | "short" (accepted
             \*   by inet_aton, rejected by ipaddress) | "v6"
  CfgAddr,   \* the address 10.<range_number>.<vlan>.<ip_last_octet>
  MaxAddrs,  \* bound on the addresses of one network-get-interfaces answer
  Entries,   \* the entry shapes a run's range configs are built from (Entry)
  MaxCfg     \* bound on the VM entries of the range config

ASSUME CfgAddr \in Addrs /\ Class[CfgAddr] = "plain"

None   == "None"     \* Python's None
False  == "False"    \* Python's False, which openvz_ip_address returns
Absent == "absent"   \* the hostvars key is not set

(* A `ludus` entry of the range config, as the two searches read it:      *)
(* whether it has vm_name, whether that resolves to this VM, whether it   *)
(* has vlan and ip_last_octet, its force_ip, and its OS key.              *)
Entry == [named : BOOLEAN, match : BOOLEAN, hasNet : BOOLEAN,
          force : BOOLEAN, os : {"windows", "linux", "macOS", "none"}]
ASSUME Entries \subseteq Entry
(* The answers of get-osinfo ('' when it has no id) and of               *)
(* network-get-interfaces.                                                 *)
OsAnswers  == {"mswindows", "linux", ""}
NetAnswers == [shape : {"none", "dict"}, ips : {<<>>}]
                \cup [shape : {"list"}, ips : BoundedSeq(Addrs, MaxAddrs) \ {<<>>}]

(* Addresses the regex of l. 230 (ip= and four dot-separated digit runs) *)
(* can capture: the four-part IPv4 ones; and what GET .../lxc/<vmid>/config may give for net0:  *)
(* an HTTPError, no net0 key, a net0 without a static ip= (dhcp), or a    *)
(* static address.                                                         *)
V4Addrs     == {a \in Addrs : Class[a] \notin {"short", "v6"}}
Net0Answers == {"error", "missing", "dhcp"} \cup V4Addrs

VARIABLES
  vmType,      \* proxmox_type: "qemu" or "lxc"
  net0,        \* the container config's answer for net0 (Net0Answers)
  config,      \* the VM entries of the range config
  readable,    \* LUDUS_RANGE_CONFIG/NUMBER/ID set and the file opens
  agent,       \* proxmox_api.qemu_agent(node, vmid)
  running,     \* proxmox_status == 'running'
  macName,     \* 'macos' in proxmox_name.lower()
  pc,          \* "agent" | "net" | "netretry" | "select" | "done" | "failed"
  attempt,     \* the qemu_agent_info call main_list is in (1 or 2)
  sysId,       \* system_info.id
  networks,    \* the network-get-interfaces answer kept
  ansibleHost, \* hostvars[vm]['ansible_host']
  osId         \* hostvars[vm]['proxmox_os_id']

vars == <<vmType, net0, config, readable, agent, running, macName, pc, attempt, sysId,
          networks, ansibleHost, osId>>

-----------------------------------------------------------------------------
(* The search loop of check_ip_addresses: a KeyError (an entry without     *)
(* vm_name, or the matching entry without vlan) ends it with nothing.     *)
NoCfg == [ip |-> None, force |-> FALSE]
RECURSIVE IpSearch(_)
IpSearch(c) ==
  IF c = <<>> \/ ~Head(c).named THEN NoCfg
  ELSE IF ~Head(c).match THEN IpSearch(Tail(c))
  ELSE IF Head(c).hasNet THEN [ip |-> CfgAddr, force |-> Head(c).force]
  ELSE NoCfg
ConfigIp == IF readable THEN IpSearch(config) ELSE NoCfg

(* get_os_info_from_config: the first matching entry with an OS key; a     *)
(* matching entry without one does not stop the loop.                      *)
RECURSIVE OsSearch(_)
OsSearch(c) ==
  IF c = <<>> \/ ~Head(c).named THEN None
  ELSE IF Head(c).match /\ Head(c).os # "none"
       THEN IF Head(c).os = "macOS" THEN "macos" ELSE Head(c).os
  ELSE OsSearch(Tail(c))
ConfigOs == IF readable THEN OsSearch(config) ELSE None

(* The first loop of check_ip_addresses: the config IP returns at once;   *)
(* an address ipaddress rejects is skipped; the others that are not      *)
(* loopback, link-local or in 172.16.0.0/12 join valid_ips.               *)
Filtered == {"loopback", "linklocal", "docker"}
RECURSIVE ScanIpsKeepDocker(_, _, _)
ScanIpsKeepDocker(ips, cfgIp, valid) ==
  IF ips = <<>> THEN [found |-> FALSE, valid |-> valid]
  ELSE IF Class[Head(ips)] = "short" THEN ScanIpsKeepDocker(Tail(ips), cfgIp, valid)
  ELSE IF Head(ips) = cfgIp THEN [found |-> TRUE, valid |-> valid]
  ELSE ScanIpsKeepDocker(Tail(ips), cfgIp,
         IF Class[Head(ips)] \in {"loopback", "linklocal"} THEN valid
         ELSE Append(valid, Head(ips)))
RECURSIVE ScanIps(_, _, _)
ScanIps(ips, cfgIp, valid) ==
  IF ips = <<>> THEN [found |-> FALSE, valid |-> valid]
  ELSE IF Class[Head(ips)] = "short" THEN ScanIps(Tail(ips), cfgIp, valid)
  ELSE IF Head(ips) = cfgIp THEN [found |-> TRUE, valid |-> valid]
  ELSE ScanIps(Tail(ips), cfgIp,
         IF Class[Head(ips)] \in Filtered THEN valid ELSE Append(valid, Head(ips)))

(* check_ip_addresses(vm_name, ip_addresses).                             *)
CheckIpAddresses(ips) ==
  LET s == ScanIps(ips, ConfigIp.ip, <<>>)
      test == SelectSeq(s.valid, LAMBDA a : Class[a] = "testnet")
  IN  IF s.found THEN ConfigIp.ip
      ELSE IF test # <<>> THEN Head(test)
      ELSE IF s.valid # <<>> THEN Head(s.valid)
      ELSE IF ConfigIp.force /\ ConfigIp.ip # None THEN ConfigIp.ip
      ELSE None

(* The addresses qemu_agent_info collects: a dict answer yields none (its *)
(* loop tests the literal 'ip-address'), a list every address inet_aton  *)
(* accepts, which leaves out IPv6.                                        *)
Collected(n) == IF n.shape = "list" THEN SelectSeq(n.ips, LAMBDA a : Class[a] # "v6")
                ELSE <<>>

(* openvz_ip_address: the captured address, or False when the GET raises *)
(* HTTPError or the search fails (the bare except).                       *)
OpenvzIpAddress(n) == IF n \in V4Addrs THEN n ELSE False

(* qemu_agent: True when agent/info answers, False on HTTPError, None    *)
(* (falsy) when it answers null.                                           *)
QemuAgent(ans) == ans = "info"

(* get-osinfo's id as qemu_agent_info stores it.                          *)
OsIdOfNoMap(ans) == ans
OsIdOf(ans) == IF ans = "mswindows" THEN "windows" ELSE ans

-----------------------------------------------------------------------------
Init ==
  /\ vmType \in {"qemu", "lxc"}
  /\ net0 \in IF vmType = "lxc" THEN Net0Answers ELSE {"missing"}
  /\ config \in BoundedSeq(Entries, MaxCfg)
  /\ readable \in BOOLEAN
  /\ running \in BOOLEAN
  /\ \E ans \in {"info", "null", "HTTPError"} : agent = QemuAgent(ans)
  /\ agent => running        \* the agent endpoint of a stopped VM errors
  /\ agent => vmType = "qemu"  \* qemu_agent is only asked for qemu VMs
  /\ macName \in BOOLEAN
  /\ pc = "agent"
  /\ attempt = 1
  /\ sysId = ""
  /\ networks = [shape |-> "none", ips |-> <<>>]
  /\ ansibleHost = Absent
  /\ osId = Absent

(* No functional agent (l. 489-500): a running VM takes the config's     *)
(* forced IP and OS id; a None result deletes the key again.              *)
NoAgent ==
  /\ pc = "agent" /\ ~agent /\ vmType = "qemu"
  /\ pc' = "done"
  /\ IF running
       THEN /\ ansibleHost' = IF CheckIpAddresses(<<>>) = None THEN Absent
                              ELSE CheckIpAddresses(<<>>)
            /\ osId' = IF ConfigOs = None THEN Absent ELSE ConfigOs
       ELSE UNCHANGED <<ansibleHost, osId>>
  /\ UNCHANGED <<vmType, net0, config, readable, agent, running, macName, attempt, sysId, networks>>

(* qemu_agent_info starts with get-osinfo.  An HTTPError leaves the call; *)
(* main_list sleeps and calls it again, and a second raise escapes.       *)
OsInfo ==
  /\ pc = "agent" /\ agent
  /\ \/ \E ans \in OsAnswers :
          /\ sysId' = OsIdOf(ans)
          /\ pc' = "net"
          /\ UNCHANGED attempt
     \/ /\ attempt = 1 /\ attempt' = 2 /\ sysId' = "" /\ UNCHANGED pc
     \/ /\ attempt = 2 /\ pc' = "failed" /\ UNCHANGED <<attempt, sysId>>
  /\ UNCHANGED <<vmType, net0, config, readable, agent, running, macName, networks, ansibleHost, osId>>

(* network-get-interfaces, first call: an HTTPError leads to the retry.   *)
NetFirst ==
  /\ pc = "net"
  /\ \/ \E n \in NetAnswers : networks' = n /\ pc' = "select"
     \/ pc' = "netretry" /\ UNCHANGED networks
  /\ UNCHANGED <<vmType, net0, config, readable, agent, running, macName, attempt, sysId, ansibleHost, osId>>

(* After 0.5 s, the second call; a second HTTPError means no networks.    *)
NetRetryLoop ==
  /\ pc = "netretry"
  /\ \/ \E n \in NetAnswers : networks' = n /\ pc' = "select"
     \/ pc' = "net" /\ UNCHANGED networks
  /\ UNCHANGED <<vmType, net0, config, readable, agent, running, macName, attempt, sysId, ansibleHost, osId>>
NetRetry ==
  /\ pc = "netretry"
  /\ pc' = "select"
  /\ \/ \E n \in NetAnswers : networks' = n
     \/ networks' = [shape |-> "none", ips |-> <<>>]
  /\ UNCHANGED <<vmType, net0, config, readable, agent, running, macName, attempt, sysId, ansibleHost, osId>>

(* The end of qemu_agent_info and l. 481-487 of main_list: ip_address is *)
(* '' unless addresses were collected; the OS id is 'macos' when the     *)
(* agent gave none and the name says macos.                                *)
Select ==
  /\ pc = "select"
  /\ pc' = "done"
  /\ ansibleHost' = IF Collected(networks) # <<>>
                    THEN CheckIpAddresses(Collected(networks)) ELSE ""
  /\ osId' = IF sysId = "" /\ macName THEN "macos" ELSE sysId
  /\ UNCHANGED <<vmType, net0, config, readable, agent, running, macName, attempt, sysId, networks>>

(* l. 502-503: any other type stores openvz_ip_address(node, vmid), False *)
(* included.                                                               *)
Container ==
  /\ pc = "agent" /\ vmType = "lxc"
  /\ pc' = "done"
  /\ ansibleHost' = OpenvzIpAddress(net0)
  /\ UNCHANGED <<vmType, net0, config, readable, agent, running, macName, attempt,
                 sysId, networks, osId>>

Next == Container \/ NoAgent \/ OsInfo \/ NetFirst \/ NetRetry \/ Select

(* Every call returns or raises, and main_list's loop goes on: weak       *)
(* fairness only excludes the interpreter stopping.                       *)
Spec == Init /\ [][Next]_vars /\ WF_vars(Next)

-----------------------------------------------------------------------------
(* Properties.                                                             *)

TypeOK ==
  /\ pc \in {"agent", "net", "netretry", "select", "done", "failed"}
  /\ attempt \in {1, 2}
  /\ sysId \in {"windows", "linux", ""}
  /\ networks \in NetAnswers
  /\ ansibleHost \in Addrs \cup {None, Absent, "", False}
  /\ osId \in {"windows", "linux", "macos", "", Absent}

(* The preference the inventory documents for the address it picks, said *)
(* without the loops: the config's address if the agent reports it, else *)
(* the first 192.0.2.0/24 address, else the first usable one, else the   *)
(* config's address if force_ip is set, else None.                        *)
PreferredIp(ips) ==
  LET usable(a) == Class[a] \in {"plain", "testnet"}
      t == SelectInSeq(ips, LAMBDA a : usable(a) /\ Class[a] = "testnet")
      u == SelectInSeq(ips, usable)
  IN  IF ConfigIp.ip \in ToSet(ips) THEN ConfigIp.ip
      ELSE IF t > 0 THEN ips[t]
      ELSE IF u > 0 THEN ips[u]
      ELSE IF ConfigIp.force THEN ConfigIp.ip
      ELSE None

(* Once the agent has reported addresses, or the VM runs without an      *)
(* agent, ansible_host is the preferred address: check_ip_addresses's    *)
(* two loops and early returns implement the documented order.  A        *)
(* container's is the static IPv4 address of its net0, else False.       *)
ExpectedHost ==
  pc = "done" =>
    /\ agent /\ Collected(networks) # <<>> =>
         ansibleHost = PreferredIp(Collected(networks))
    /\ vmType = "qemu" /\ ~agent /\ running =>
         ansibleHost = IF PreferredIp(<<>>) = None THEN Absent ELSE PreferredIp(<<>>)
    /\ vmType = "lxc" =>
         ansibleHost = IF net0 \in V4Addrs THEN net0 ELSE False

(* With force_ip set for this VM, a running qemu VM whose agent reports no *)
(* usable address gets the config's address as ansible_host (the comment *)
(* at l. 338 of check_ip_addresses).                                       *)
ForceIpHonoured ==
  LET noUsable == \A i \in 1..Len(Collected(networks)) :
                    Class[Collected(networks)[i]] \notin {"plain", "testnet"}
  IN  (pc = "done" /\ vmType = "qemu" /\ running /\ ConfigIp.force /\ ConfigIp.ip # None /\ noUsable)
        => ansibleHost = ConfigIp.ip

(* Looking up one VM's facts always ends, with the facts or an exception. *)
Terminates == <>(pc \in {"done", "failed"})
=============================================================================
