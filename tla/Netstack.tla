------------------------------ MODULE Netstack ------------------------------
(***************************************************************************)
(* netstack.c without its waiting loops: what sending does, and what each   *)
(* frame that is polled does to the statics of the stack, a record n.        *)
(*                                                                         *)
(* n.wire holds every frame another station has sent and that may reach us,  *)
(* once, repeatedly, in any order, late or never: frames are never removed    *)
(* from it.  Other stations answer truthfully (external).  A connection        *)
(* carries Len units after the SYN; a unit is <<host, position, connection>>, *)
(* and a segment carries one of them.                                         *)
(***************************************************************************)
EXTENDS Integers, Sequences, FiniteSets

CONSTANTS
    Hosts,      \* names that can be asked for
    Addr,       \* their addresses
    Local,      \* addresses of our subnet
    Gw,         \* NET_GW_HOST
    Servers,    \* udp_dns: the name servers that are asked in turn
    Doh,        \* DOH_IP
    Fake,       \* an address of the range proxies use instead of the real one
    Owner,      \* the name served at an address
    Units,      \* units of an answer
    RX_SIZE     \* TCP_RX_SIZE, in units

ASSUME NetstackSizes == Units \in Nat \ {0} /\ RX_SIZE \in Nat \ {0} /\ Gw \in Local

None == "none"
Bcast == "bcast"
NetIp == "static"   \* NET_IP_HOST
Lease == "lease"    \* what a DHCP server offers
SlirpMac == "slirp" \* slirp_mac: the gateway's station if QEMU's user network is below

NoTcp == [active |-> FALSE, ip |-> None, port |-> 0, state |-> 0, snd |-> 0, rcv |-> 0]
NoDns == [ok |-> FALSE, ip |-> None, bogus |-> FALSE]

\* site: whether there is a network device and whether it always sends in time,
\* whether the build is for x86 and has an API key, and how the DHCP servers of
\* the subnet lay out their answers.
Statics(site) ==
    [our_ip |-> None, gw_mac |-> None, peer_mac |-> None, peer_mac_ip |-> None,
     tcp |-> NoTcp, rx |-> <<>>, dns |-> NoDns, dns_accept_bogus |-> FALSE,
     dhcp_done |-> FALSE, dhcp_offered_ip |-> None,
     wire |-> {}, sent |-> TRUE,                      \* the frames of others; whether the last send succeeded
     up |-> TRUE,                                    \* whether the device sends in time
     conn |-> 0, asked |-> None,                     \* the connection and the name in question
     site |-> site,
     late |-> FALSE, disorder |-> FALSE]

virtio_net_ready(n) == n.site.present

-----------------------------------------------------------------------------
(* Sending                                                                 *)

\* The station a frame goes to, None if it is not known.
Route(n, dst) ==
    IF dst = Bcast THEN Bcast
    ELSE IF dst \in Local THEN (IF n.peer_mac_ip = dst THEN n.peer_mac ELSE None)
    ELSE n.gw_mac

\* A frame that is sent brings its answers.  A device that takes too long is
\* given up, with the frame in its queue.
eth_send(n, answers) ==
    IF ~virtio_net_ready(n) THEN [n EXCEPT !.sent = FALSE]
    ELSE [n EXCEPT !.sent = n.up, !.wire = @ \cup answers]

ip_send(n, dst, answers) ==
    IF Route(n, dst) = None THEN [n EXCEPT !.sent = FALSE] ELSE eth_send(n, answers)

udp_send(n, dst, answers) == ip_send(n, dst, answers)

arp_send(n, ip) == eth_send(n, {[t |-> "arp", spa |-> ip, sha |-> ip]})

\* A server answers with the message type near the start of the options, as
\* is usual, or far from it.
DhcpAnswers(n, type) == [t : {"dhcp"}, type : {type}, yiaddr : {Lease}, far : {l = "far" : l \in n.site.dhcp}]

dhcp_send_discover(n) == udp_send(n, Bcast, DhcpAnswers(n, "offer"))
dhcp_send_request(n) == udp_send(n, Bcast, DhcpAnswers(n, "ack"))

\* The query carries the same identifier whatever is asked.  A proxy on the
\* way may answer with an address of its own range.
dns_send_query(n, host, server) ==
    udp_send([n EXCEPT !.asked = host], server, [t : {"dns"}, host : {host}, ip : {Addr[host], Fake}])

Segment(n, kind, seq, data, fin) ==
    [t |-> "tcp", ip |-> n.tcp.ip, port |-> n.tcp.port, conn |-> n.conn, kind |-> kind, seq |-> seq,
     data |-> data, fin |-> fin]

Unit(n, i) == <<Owner[n.tcp.ip], i, n.conn>>

\* What the peer sends once it has our data: a plain service answers what
\* comes first, a TLS service answers that with unit 1 and the request with
\* the others.  The last unit comes with a FIN or before it.
Answers(n) ==
    LET sends == IF n.tcp.port # 443 THEN (IF n.tcp.snd = 1 THEN 1 .. Units ELSE {})
                 ELSE IF n.tcp.snd = 1 THEN {1} ELSE IF n.tcp.snd = 2 THEN 2 .. Units ELSE {}
    IN  {Segment(n, "ACK", i, <<Unit(n, i)>>, FALSE) : i \in sends}
        \cup {Segment(n, "ACK", i, <<Unit(n, i)>>, TRUE) : i \in sends \cap {Units}}
        \cup {Segment(n, "ACK", Units + 1, <<>>, TRUE) : i \in sends \cap {Units}}

tcp_send_raw(n, answers) == ip_send(n, n.tcp.ip, answers)

\* A peer that is told of a connection accepts or refuses it.
SendSyn(n) == tcp_send_raw(n, {Segment(n, "SYN", 0, <<>>, FALSE), Segment(n, "RST", 0, <<>>, FALSE)})
SendAck(n) == tcp_send_raw(n, {})
SendFin(n) == tcp_send_raw(n, {Segment(n, "ACK", 1, <<>>, FALSE)})

-----------------------------------------------------------------------------
(* Receiving                                                               *)

arp_handle(n, f) ==
    [n EXCEPT !.peer_mac = f.sha, !.peer_mac_ip = f.spa, !.gw_mac = IF f.spa = Gw THEN f.sha ELSE @]

\* The scan of the options starts at the magic number, takes its first byte
\* for an option and its second for that option's length, and so misses a type
\* that is not more than 130 bytes further on.
dhcp_handle(n, f) ==
    IF ~f.far THEN n
    ELSE IF f.type = "offer" THEN dhcp_send_request([n EXCEPT !.dhcp_offered_ip = f.yiaddr])
    ELSE [n EXCEPT !.our_ip = IF n.dhcp_offered_ip # None THEN n.dhcp_offered_ip ELSE f.yiaddr, !.dhcp_done = TRUE]

dns_ip_bogus(ip) == ip = Fake

dns_handle(n, f) ==
    LET m == [n EXCEPT !.dns.ip = f.ip]
    IN  IF dns_ip_bogus(f.ip) /\ ~n.dns_accept_bogus THEN [m EXCEPT !.dns.bogus = TRUE]
        ELSE [m EXCEPT !.dns.ok = TRUE]

udp_handle(n, f) == IF f.t = "dhcp" THEN dhcp_handle(n, f) ELSE dns_handle(n, f)

tcp_reset(n) == [n EXCEPT !.tcp.active = FALSE, !.tcp.state = 0, !.rx = <<>>]

\* What does not fit is dropped.
tcp_rx_append(n, data) ==
    LET all == n.rx \o data
    IN  IF Len(all) > RX_SIZE THEN [n EXCEPT !.rx = SubSeq(all, 1, RX_SIZE)]
        ELSE [n EXCEPT !.rx = all]

Accepted(n, f) == n.tcp.active /\ f.ip = n.tcp.ip /\ f.port = n.tcp.port

\* A SYN opens a connection that was asked for; so does any acknowledgement.
\* Data is appended and acknowledged whatever its sequence number, and a FIN
\* resets the connection, with what was received and not taken yet.
tcp_handle(n, f) ==
    LET opened == [n EXCEPT !.tcp.state = IF @ = 1 THEN 2 ELSE @]
        stored == IF f.data = <<>> THEN opened
                  ELSE SendAck([tcp_rx_append(opened, f.data) EXCEPT !.tcp.rcv = f.seq + 1])
    IN  IF ~Accepted(n, f) THEN n
        ELSE IF f.kind = "RST" THEN tcp_reset(n)
        ELSE IF f.kind = "SYN"
             THEN IF n.tcp.state = 1 THEN SendAck([n EXCEPT !.tcp.rcv = f.seq + 1, !.tcp.snd = 1, !.tcp.state = 2])
                  ELSE n
        ELSE IF f.fin THEN tcp_reset(SendFin([stored EXCEPT !.tcp.rcv = @ + 1]))
        ELSE stored

\* Whether a frame answers something that is over, or is not the one that
\* comes next.  The stack knows neither.
Late(n, f) ==
    \/ f.t = "dns" /\ f.host # n.asked
    \/ f.t = "tcp" /\ Accepted(n, f) /\ f.conn # n.conn

OutOfOrder(n, f) == f.t = "tcp" /\ Accepted(n, f) /\ (f.data # <<>> \/ f.fin) /\ f.seq # n.tcp.rcv

netstack_poll(n, f) ==
    LET m == [n EXCEPT !.late = @ \/ Late(n, f), !.disorder = @ \/ OutOfOrder(n, f)]
    IN  CASE f.t = "arp" -> arp_handle(m, f)
          [] f.t \in {"dhcp", "dns"} -> udp_handle(m, f)
          [] f.t = "tcp" -> tcp_handle(m, f)

-----------------------------------------------------------------------------
(* The connection as its users see it                                      *)

tcp_open(n, ip, port) ==
    [tcp_reset(n) EXCEPT !.tcp = [active |-> TRUE, ip |-> ip, port |-> port, state |-> 1, snd |-> 0, rcv |-> 0],
                         !.conn = @ + 1]

tcp_send_data(n) ==
    IF ~n.tcp.active \/ n.tcp.state # 2 THEN [n EXCEPT !.sent = FALSE]
    ELSE LET m == tcp_send_raw(n, Answers(n)) IN IF m.sent THEN [m EXCEPT !.tcp.snd = @ + 1] ELSE m

tcp_close_conn(n) == tcp_reset(IF n.tcp.active /\ n.tcp.state = 2 THEN SendFin(n) ELSE n)

\* The first unit of the buffer, for a reader that has room for it.
tcp_rx_take(n) == [n EXCEPT !.rx = Tail(@)]

net_slirp_fallback_mac(n) == [n EXCEPT !.gw_mac = SlirpMac, !.peer_mac = SlirpMac, !.peer_mac_ip = Gw]

\* arp_resolve asks for the gateway if the address is not of our subnet.
Via(ip) == IF ip \in Local THEN ip ELSE Gw

Resolved(n, ip) == (ip = Gw /\ n.gw_mac # None) \/ n.peer_mac_ip = ip
=============================================================================
