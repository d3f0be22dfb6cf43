------------------------------- MODULE TcpUnit -------------------------------
(* How two instances find each other over TCP (ir_transport_tcp.c): the       *)
(* address that a user types, the addresses that the resolver gives for it,   *)
(* the socket of the host that serves one or both families, and the attempts  *)
(* of a client, one address after the other, while the system completes or    *)
(* refuses them.  More than one client can try.  IrLink and PipeLink have     *)
(* what happens after the connection.                                         *)
EXTENDS Integers, Sequences

CONSTANTS
    Client,        \* instances that connect
    HostNames,     \* what a client can type for the host, a part with colons is IPv6
    Ports,         \* port numbers, a part made of digits
    DefaultPort,   \* IR_TRANSPORT_DEFAULT_TCP_PORT
    Resolved,      \* lists of addresses that the resolver can give for the host
    MaxAddresses   \* IR_TRANSPORT_MAX_PEER_ADDRESSES

ASSUME TcpAssumption ==
    /\ DefaultPort \in Ports /\ MaxAddresses \in Nat \ {0}
    /\ \A list \in Resolved : Len(list) > 0

VARIABLES
    listener,  \* the transport of the host: state, families that its socket serves, port, peer
    dialer,    \* the transport of each client
    backlog    \* connections that the system made for the listening socket

tcpVars == <<listener, dialer, backlog>>

Family  == {"IPv4", "IPv6"}
NoPeer  == "none"
IdleListener == [state |-> "idle", serves |-> {}, port |-> DefaultPort, peer |-> NoPeer]
IdleDialer ==
    [state |-> "idle", list |-> <<>>, index |-> 1, attempt |-> 0, result |-> "none",
     port |-> DefaultPort, meant |-> DefaultPort]

TcpInit ==
    /\ listener = IdleListener
    /\ dialer = [c \in Client |-> IdleDialer]
    /\ backlog = <<>>

-----------------------------------------------------------------------------
(* Addresses as a user types them, as a sequence of parts                     *)

Colons(text) == {i \in DOMAIN text : text[i] = ":"}

\* split_address: the name and the port.
SplitAddress(text) ==
    CASE text = <<>> -> [name |-> "", port |-> DefaultPort]
      [] text # <<>> /\ text[1] = "[" ->
             [name |-> text[2], port |-> IF Len(text) = 5 THEN text[5] ELSE DefaultPort]
      [] text # <<>> /\ text[1] # "[" /\ Colons(text) = {} ->
             IF text[1] \in Ports THEN [name |-> "", port |-> text[1]]
                                  ELSE [name |-> text[1], port |-> DefaultPort]
      [] text # <<>> /\ text[1] # "[" /\ Colons(text) = {Len(text) - 1} ->
             [name |-> IF Len(text) = 3 THEN text[1] ELSE "", port |-> text[Len(text)]]
      [] OTHER -> [name |-> "an IPv6 address", port |-> DefaultPort]

\* The ways to say a port, or none, for a name, for an IPv6 address and for no name.
Typed(port) ==
    {<<port>>, <<":", port>>} \cup {<<name, ":", port>> : name \in HostNames}
    \cup {<<"[", "::1", "]", ":", port>>}
TypedDefault ==
    {<<>>, <<"[", "::1", "]">>, <<"a", ":", "b", ":", "c">>} \cup {<<name>> : name \in HostNames}

\* What the user means and what the user types.
Typing == {<<p, t>> \in Ports \X UNION ({Typed(q) : q \in Ports} \cup {TypedDefault}) :
              t \in Typed(p) \/ (p = DefaultPort /\ t \in TypedDefault)}

-----------------------------------------------------------------------------
(* The host                                                                   *)

\* The families that peers can use with a socket of this family: IPV6_V6ONLY is off.
ServedBy(family) == IF family = "IPv6" THEN Family ELSE {"IPv4"}

\* tcp_host: the first address, IPv6 first, on which socket, bind and listen work.
TcpHost(port, usable) ==
    /\ listener.state # "listening"
    /\ backlog' = <<>>
    /\ listener' =
           CASE "IPv6" \in usable -> [IdleListener EXCEPT !.state = "listening", !.port = port,
                                                          !.serves = ServedBy("IPv6")]
             [] usable = {"IPv4"} -> [IdleListener EXCEPT !.state = "listening", !.port = port,
                                                          !.serves = ServedBy("IPv4")]
             [] OTHER -> [IdleListener EXCEPT !.state = "error"]
    /\ UNCHANGED dialer

\* tcp_close: the system resets what it accepted and this instance did not take.
HostCloses ==
    /\ listener.state # "idle"
    /\ listener' = IdleListener /\ backlog' = <<>>
    /\ UNCHANGED dialer

\* tcp_poll of the host, and on_connected: nobody else can join.
HostPolls ==
    /\ listener.state = "listening" /\ backlog # <<>>
    /\ listener' = [listener EXCEPT !.state = "connected", !.serves = {}, !.peer = backlog[1]]
    /\ backlog' = <<>>
    /\ UNCHANGED dialer

\* tcp_recv finds that the peer is gone.
HostLosesPeer ==
    /\ listener.state = "connected"
    /\ \A c \in Client : listener.peer = c => dialer[c].state \notin {"connecting", "connected"}
    /\ listener' = [listener EXCEPT !.state = "error"]
    /\ UNCHANGED <<dialer, backlog>>

-----------------------------------------------------------------------------
(* The clients                                                                *)

Serves(address, port) ==
    /\ listener.state = "listening" /\ listener.port = port
    /\ address.right /\ address.family \in listener.serves

\* Mutant: each attempt uses the address of the first one.
NextIndexStays(d) == d.index

\* The next candidate address.
NextIndex(d) == (d.index % Len(d.list)) + 1

\* try_client_connect: a family that this machine lacks gives no attempt.
TryClientConnect(d) ==
    [d EXCEPT !.index = NextIndex(d),
              !.attempt = IF d.list[d.index].usable THEN d.index ELSE 0,
              !.result = IF d.list[d.index].usable THEN "pending" ELSE "none"]

\* tcp_connect: the list of addresses ends at its limit, and the first attempt starts.
TcpConnect(c, typing, addresses) ==
    /\ dialer[c].state = "idle"
    /\ LET limit == IF Len(addresses) < MaxAddresses THEN Len(addresses) ELSE MaxAddresses
           d == [IdleDialer EXCEPT !.state = "connecting", !.list = SubSeq(addresses, 1, limit),
                                   !.port = SplitAddress(typing[2]).port, !.meant = typing[1]]
       IN dialer' = [dialer EXCEPT ![c] = TryClientConnect(d)]
    /\ UNCHANGED <<listener, backlog>>

\* tcp_close.  A connection that the host did not take yet stays in its queue.
ClientCloses(c) ==
    /\ dialer[c].state # "idle"
    /\ dialer' = [dialer EXCEPT ![c] = IdleDialer]
    /\ backlog' = [i \in DOMAIN backlog |-> IF backlog[i] = c THEN NoPeer ELSE backlog[i]]
    /\ listener' = IF listener.peer = c THEN [listener EXCEPT !.peer = NoPeer] ELSE listener

\* The system makes the connection, or it does not: nobody listens, the address is
\* the wrong one, the queue of the host is full.
OsConnects(c) ==
    LET d == dialer[c] IN
    /\ d.result = "pending"
    /\ IF Serves(d.list[d.attempt], d.port) /\ backlog = <<>>
       THEN /\ dialer' = [dialer EXCEPT ![c].result = "made"]
            /\ backlog' = <<c>>
       ELSE /\ dialer' = [dialer EXCEPT ![c].result = "refused"]
            /\ UNCHANGED backlog
    /\ UNCHANGED listener

\* The host has this connection, or the system holds it for the host.
Alive(c) == listener.peer = c \/ \E i \in DOMAIN backlog : backlog[i] = c

\* tcp_poll of a client: poll_client_connect or a new attempt.
ClientPolls(c) ==
    LET d == dialer[c] IN
    /\ d.state = "connecting" /\ d.result # "pending"
    /\ dialer' = [dialer EXCEPT ![c] =
           CASE d.result = "made" /\ Alive(c) ->
                    [d EXCEPT !.state = "connected", !.result = "none", !.attempt = 0]
             [] d.result = "refused" \/ (d.result = "made" /\ ~Alive(c)) ->
                    [d EXCEPT !.result = "none", !.attempt = 0]
             [] d.result = "none" -> TryClientConnect(d)]
    /\ UNCHANGED <<listener, backlog>>

\* tcp_recv finds that the host is gone, or that it took another client.
ClientLosesPeer(c) ==
    /\ dialer[c].state = "connected" /\ ~Alive(c)
    /\ dialer' = [dialer EXCEPT ![c].state = "error"]
    /\ UNCHANGED <<listener, backlog>>

-----------------------------------------------------------------------------
TcpNext ==
    \/ \E port \in Ports, usable \in SUBSET Family : TcpHost(port, usable)
    \/ HostCloses \/ HostPolls \/ HostLosesPeer
    \/ \E c \in Client :
          \/ \E typing \in Typing, addresses \in Resolved : TcpConnect(c, typing, addresses)
          \/ ClientCloses(c) \/ OsConnects(c) \/ ClientPolls(c) \/ ClientLosesPeer(c)

\* Each main loop polls at each frame, and the system answers each attempt.
TcpFairness ==
    /\ WF_tcpVars(HostPolls)
    /\ \A c \in Client : WF_tcpVars(OsConnects(c)) /\ WF_tcpVars(ClientPolls(c))

TcpSpec == TcpInit /\ [][TcpNext]_tcpVars /\ TcpFairness

-----------------------------------------------------------------------------
\* A host that waits at the port that the user of the client means, and one of the
\* addresses of the client leads there.
CanMeet(c) ==
    /\ listener.state = "listening" /\ dialer[c].state = "connecting"
    /\ dialer[c].meant = listener.port
    /\ \E i \in DOMAIN dialer[c].list :
          LET a == dialer[c].list[i] IN a.right /\ a.usable /\ a.family \in listener.serves

\* Who starts first, which address the resolver gives first and which family is
\* missing on either side does not matter: a client that tries and a host that
\* waits do not stay so, unless a user ends it (the comments at
\* ir_transport_tcp.c:184, 221 and 231).
ClientConnects == \A c \in Client : CanMeet(c) ~> ~CanMeet(c)
=============================================================================
