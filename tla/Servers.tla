------------------------------ MODULE Servers -------------------------------
(***************************************************************************)
(* The UDP and the TCP server while they set up their sockets.  Each has a *)
(* thread of its own, the threads have the same priority and are time      *)
(* sliced, and both build the address to bind to in the same two static    *)
(* structs of zperf_common.c, in4_addr_my and in6_addr_my.  The UDP server *)
(* binds from the struct itself, the TCP server from a copy of it.         *)
(*                                                                         *)
(* A server takes a request only while it is idle (Download).  The shell   *)
(* of the program runs one command; an application of zperf.h may start    *)
(* both servers, any number of times, with parameters like the shell's.    *)
(***************************************************************************)
EXTENDS NetIp, FiniteSets

CONSTANTS
  Argvs,        \* the arguments a download command may be given
  IP6_ADDRS     \* IPv6 addresses the interface has room for (lwIP)

ASSUME ServersAssumption ==
  /\ IP6_ADDRS \in Nat \ {0}
  /\ \A a \in Argvs : a = <<>> \/ Len(a) \in {1, 2}

Server == {"udp", "tcp"}
Family == {"v4", "v6"}
MY_SRC_PORT == 50000

VARIABLES
  at,      \* per server: <<statement, family>>
  argv,    \* per server: the arguments of the command that started it,
           \* forgotten when it ends
  my,      \* per family: in4_addr_my and in6_addr_my
  copy,    \* per family: sock_addr[] of the TCP server's listeners,
           \* until it is bound
  bound,   \* per server and family: what its socket is bound to
  if6,     \* the IPv6 addresses of the interface
  alone    \* history: per server, nobody else has written to the struct
           \* since the server began to, in this family

serversVars == <<at, argv, my, copy, bound, if6, alone>>

Idle == <<"idle", "v4">>
Other(s) == CHOOSE o \in Server : o # s
MyIp(f) == IF f = "v4" THEN MyIp4 ELSE MyIp6   \* MY_IP4ADDR, MY_IP6ADDR
Any(f) == IF f = "v4" THEN Any4 ELSE Any6
NoBinding(f) == [addr |-> Any(f), port |-> 0, own |-> TRUE]
Unbound == [f \in Family |-> NoBinding(f)]

\* The address in the server's parameters, as the block for f reads it.
Given(s, f) ==
  LET sa == zperf_bind_host(argv[s]).addr
  IN  IF f = "v4" THEN sin_addr(sa) ELSE sin6_addr(sa)

Port(s) == zperf_bind_host(argv[s]).port

Goto(s, statement, f) == at' = [at EXCEPT ![s] = <<statement, f>>]

\* s has written to the struct of f and will read it again.
Building(s, f) ==
  at[s] \in {"iface", "port", "copy", "bind"} \X {f} /\ ~(s = "tcp" /\ at[s][1] = "bind")

\* One field of the shared struct is assigned by s.
Writes(s, f, value) ==
  /\ my' = [my EXCEPT ![f] = value]
  /\ alone' = [alone EXCEPT ![Other(s)] = @ /\ ~Building(Other(s), f)]
-----------------------------------------------------------------------------
\* A download is accepted, and the semaphore given.
Accepted(s) ==
  /\ at[s] = Idle
  /\ \E a \in Argvs : argv' = [argv EXCEPT ![s] = a]
  /\ Goto(s, "socket", "v4")
  /\ UNCHANGED <<my, copy, bound, if6, alone>>

cmd_udp_download == Accepted("udp")
cmd_tcp_download == Accepted("tcp")

\* zsock_socket.
Socket(s, f) ==
  /\ at[s] = <<"socket", f>>
  /\ Goto(s, "addr", f)
  /\ UNCHANGED <<argv, my, copy, bound, if6, alone>>

\* The host of the request is copied to the struct, ...
CopyHost(s, f) ==
  /\ at[s] = <<"addr", f>>
  /\ Given(s, f) # Any(f)
  /\ Writes(s, f, [my[f] EXCEPT !.addr = Given(s, f)])
  /\ Goto(s, "port", f)
  /\ UNCHANGED <<argv, copy, bound, if6>>

\* ... or the configured address is parsed into it, and the interface set to
\* it, which cannot fail for IPv4 and is not kept here, ...
zperf_get_ipv4_addr(s) ==
  /\ at[s] = <<"addr", "v4">>
  /\ Given(s, "v4") = Any4
  /\ Writes(s, "v4", [my["v4"] EXCEPT !.addr = MyIp4])
  /\ Goto(s, "port", "v4")
  /\ UNCHANGED <<argv, copy, bound, if6>>

\* ... while for IPv6 it is then added to the interface's.
zperf_get_ipv6_addr(s) ==
  /\ at[s] = <<"addr", "v6">>
  /\ Given(s, "v6") = Any6
  /\ Writes(s, "v6", [my["v6"] EXCEPT !.addr = MyIp6])
  /\ Goto(s, "iface", "v6")
  /\ UNCHANGED <<argv, copy, bound, if6>>

\* Mutant of IfAdded: an address the interface has is added again.
IfAddedAgain(addr) == Append(if6, addr)

\* The interface's addresses after one has been added.
IfAdded(addr) ==
  IF \E i \in DOMAIN if6 : if6[i] = addr THEN if6 ELSE Append(if6, addr)

\* The rest of zperf_get_ipv6_addr: the interface is given the address that is
\* read from the struct again, and when it is full any address is used.
net_if_ipv6_addr_add(s) ==
  /\ at[s] = <<"iface", "v6">>
  /\ LET added == IfAdded(my["v6"].addr)
     IN  IF Len(added) <= IP6_ADDRS
           THEN if6' = added /\ UNCHANGED <<my, alone>>
           ELSE Writes(s, "v6", [my["v6"] EXCEPT !.addr = Any6]) /\ UNCHANGED if6
  /\ Goto(s, "port", "v6")
  /\ UNCHANGED <<argv, copy, bound>>

WritePort(s, f) ==
  /\ at[s] = <<"port", f>>
  /\ Writes(s, f, [my[f] EXCEPT !.port = Port(s)])
  /\ Goto(s, IF s = "udp" THEN "bind" ELSE "copy", f)
  /\ UNCHANGED <<argv, copy, bound, if6>>

\* copy_sockaddr_in_to_sockaddr_storage and its IPv6 twin.
CopyAddr(f) ==
  /\ at["tcp"] = <<"copy", f>>
  /\ copy' = [copy EXCEPT ![f] = [addr |-> my[f].addr, port |-> my[f].port, own |-> alone["tcp"]]]
  /\ alone' = [alone EXCEPT !["tcp"] = TRUE]
  /\ Goto("tcp", "bind", f)
  /\ UNCHANGED <<argv, my, bound, if6>>

\* Mutant of BindAddr: the TCP server binds from the struct as well.
BindShared(s, f) == [addr |-> my[f].addr, port |-> my[f].port, own |-> copy[f].own]

\* The address zsock_bind is given.
BindAddr(s, f) ==
  IF s = "udp" THEN [addr |-> my[f].addr, port |-> my[f].port, own |-> alone[s]]
  ELSE copy[f]

\* zsock_bind, and zsock_listen of the TCP server.
Bind(s, f) ==
  /\ at[s] = <<"bind", f>>
  /\ bound' = [bound EXCEPT ![s][f] = BindAddr(s, f)]
  /\ IF f = "v4" THEN Goto(s, "socket", "v6") ELSE Goto(s, "serve", "v6")
  /\ copy' = [copy EXCEPT ![f] = IF s = "tcp" THEN NoBinding(f) ELSE @]
  /\ alone' = [alone EXCEPT ![s] = TRUE]
  /\ UNCHANGED <<argv, my, if6>>

\* A socket call fails, or the session ends: every socket is closed.
End(s) ==
  /\ at[s][1] \in {"socket", "bind", "serve"}
  /\ at' = [at EXCEPT ![s] = Idle]
  /\ bound' = [bound EXCEPT ![s] = Unbound]
  /\ argv' = [argv EXCEPT ![s] = <<>>]
  /\ copy' = IF s = "tcp" THEN Unbound ELSE copy
  /\ alone' = [alone EXCEPT ![s] = TRUE]
  /\ UNCHANGED <<my, if6>>

InitServers ==
  /\ at = [s \in Server |-> Idle]
  /\ argv = [s \in Server |-> <<>>]
  /\ my = [f \in Family |-> [addr |-> Any(f), port |-> MY_SRC_PORT]]
  /\ copy = Unbound
  /\ bound = [s \in Server |-> Unbound]
  /\ if6 = <<>>
  /\ alone = [s \in Server |-> TRUE]

NextServers ==
  \/ cmd_udp_download \/ cmd_tcp_download
  \/ \E f \in Family : CopyAddr(f)
  \/ \E s \in Server :
       \/ zperf_get_ipv4_addr(s) \/ zperf_get_ipv6_addr(s) \/ net_if_ipv6_addr_add(s)
       \/ \E f \in Family : Socket(s, f) \/ CopyHost(s, f) \/ WritePort(s, f) \/ Bind(s, f)
       \/ End(s)

ServersSpec == InitServers /\ [][NextServers]_serversVars
-----------------------------------------------------------------------------
\* The host that s was told to bind to.
Host(s) == IF Len(argv[s]) = 2 THEN argv[s][2].addr ELSE Bad
Bracketed(s) == Len(argv[s]) = 2 /\ argv[s][2].open
Closed(s) == Len(argv[s]) = 2 /\ argv[s][2].close
IsBound(s, f) == bound[s][f] # NoBinding(f)

\* The socket of s for f has the port and the address of the command of s.
AskedFor(s, f) ==
  LET addr == bound[s][f].addr
  IN  /\ bound[s][f].port = IF argv[s] = <<>> THEN 5001 ELSE argv[s][1] % 65536
      /\ CASE f = "v4" /\ Host(s) \in V4 /\ ~Bracketed(s) /\ Host(s) # Any4 -> addr = Host(s)
           [] f = "v6" /\ Host(s) \in V6 /\ (Bracketed(s) => Closed(s)) /\ Host(s)[1] # 0 ->
                addr[1] = Host(s)[1] /\ (Host(s)[2] = 0 => addr = Host(s))
           [] OTHER -> addr \in {MyIp(f), Any(f)}

(***************************************************************************)
(* The help text, "Server port to listen on/connect to" and "Bind to       *)
(* <host>, an interface address": a server listens on the port of its own  *)
(* command and on its host, in the host's family, and on the configured    *)
(* addresses otherwise.  The exceptions are exactly these: the other       *)
(* server has written to the shared struct between this one's first write  *)
(* and its bind (UDP) or its copy (TCP), and the second half of an IPv6    *)
(* host is ignored, as is the host if its first half, or an IPv4 host, is  *)
(* zero.  A host that cannot be parsed is accepted and means the           *)
(* configured addresses; one with a port that cannot be parsed is used     *)
(* without it.                                                             *)
(***************************************************************************)
BindsWhatWasAsked ==
  \A s \in Server, f \in Family : IsBound(s, f) /\ bound[s][f].own => AskedFor(s, f)

(***************************************************************************)
(* A server whose struct nobody else writes to falls back to any address   *)
(* only when the interface cannot take the configured one.  It is the same *)
(* address each time, however often the servers are started, so this needs *)
(* an interface that is full of others: those of hosts that one server     *)
(* wrote to the struct before zperf_get_ipv6_addr of the other read it.    *)
(***************************************************************************)
AnyOnlyWhenFull ==
  \A s \in Server, f \in Family :
    IsBound(s, f) /\ bound[s][f].own /\ bound[s][f].addr = Any(f) =>
      f = "v6" /\ Len(if6) = IP6_ADDRS /\ \A i \in DOMAIN if6 : if6[i] # MyIp6
=============================================================================
