-------------------------------- MODULE Net --------------------------------
(***************************************************************************)
(* The network calls of the kernel, from a tool or a system call down to     *)
(* netstack_poll: address resolution, name resolution over UDP and HTTPS,     *)
(* connections, TLS, HTTP, the model service, the fleet's ingest and the       *)
(* remote console.  One call runs at a time; it waits by polling.              *)
(*                                                                         *)
(* stack holds the calls in progress, the innermost first, each with the      *)
(* place it has got to; ret is what the call that ended last returned.  A      *)
(* step runs from one wait, call or return to the next.                        *)
(***************************************************************************)
EXTENDS Netstack

CONSTANTS
    Literals,    \* hosts that are given by their address
    LlmHost,     \* DEEPSEEK_HOST
    Plans,       \* bound of the exploration: sequences of calls, a function, a name and a port each
    BUF          \* units a caller's buffer holds

VARIABLES
    net,         \* the statics of netstack.c
    stack, ret,
    addr,        \* what *out_ip holds
    buf,         \* what was read from the connection
    cache,       \* dns_cache_host and dns_cache_ip
    tls_active,
    session,     \* what llm_session_finish appended
    result,      \* what the last call gave
    todo         \* calls still to be made

vars == <<net, stack, ret, addr, buf, cache, tls_active, session, result, todo>>

Frame(op, host, ip, s) == [op |-> op, pc |-> "start", host |-> host, ip |-> ip, s |-> s]
Top == stack[1]
At(op, pc) == stack # <<>> /\ Top.op = op /\ Top.pc = pc

\* Control: on within a function, into another one, back to the caller, and the
\* end of a call that was made from outside.
Goto(pc) == stack' = [stack EXCEPT ![1].pc = pc] /\ ret' = None /\ result' = result
Push(pc, f) == stack' = <<f>> \o [stack EXCEPT ![1].pc = pc] /\ ret' = None /\ result' = result
Return(r) == stack' = Tail(stack) /\ ret' = r /\ result' = result
Done(rc, answer) ==
    /\ stack' = Tail(stack) /\ ret' = rc
    /\ result' = [host |-> Top.host, rc |-> rc, answer |-> answer]

SameNet == net' = net

-----------------------------------------------------------------------------
(* netstack.c                                                              *)

\* netstack_init: an address from DHCP or the usual one, then the gateway.  A
\* gateway that does not answer has a fixed station on x86 and none elsewhere.
netstack_init ==
    \/ At("netstack_init", "start") /\ ~virtio_net_ready(net) /\ SameNet /\ Return("OK")
    \/ /\ At("netstack_init", "start") /\ virtio_net_ready(net)
       /\ net' = [dhcp_send_discover(net) EXCEPT !.our_ip = None]
       /\ Goto("dhcp")
    \/ At("netstack_init", "arp") /\ SameNet /\ Push("gw", Frame("arp_resolve", None, Gw, 0))
    \/ /\ At("netstack_init", "gw")
       /\ net' = IF ret # "OK" /\ net.site.x86 THEN net_slirp_fallback_mac(net) ELSE net
       /\ Return("OK")

arp_resolve ==
    /\ At("arp_resolve", "start")
    /\ LET ip == Via(Top.ip)
       IN  IF Resolved(net, ip) THEN SameNet /\ Return("OK")
           ELSE /\ net' = arp_send(net, ip)
                /\ stack' = [stack EXCEPT ![1].pc = "wait", ![1].ip = ip] /\ ret' = None /\ result' = result

\* The address may fail to resolve with the connection marked active.
tcp_connect ==
    \/ /\ At("tcp_connect", "start")
       /\ net' = tcp_open(net, Top.ip, Top.s)
       /\ Push("arp", Frame("arp_resolve", None, Top.ip, 0))
    \/ /\ At("tcp_connect", "arp")
       /\ LET m == SendSyn(net)
          IN  IF ret # "OK" THEN SameNet /\ Return("ETIMEDOUT")
              ELSE net' = m /\ IF m.sent THEN Goto("syn") ELSE Return("EIO")

\* tcp_recv_accumulate: what has come is taken before anything else is polled.
tcp_recv_start == At("tcp_recv", "start") /\ buf' = <<>> /\ SameNet /\ Goto("wait")

Took ==
    /\ net' = tcp_rx_take(net)
    /\ buf' = Append(buf, net.rx[1])

tcp_recv_take ==
    /\ At("tcp_recv", "wait") /\ net.rx # <<>>
    /\ Took
    /\ IF Len(buf') = BUF THEN Return("OK") ELSE Goto("wait")

\* Slip: the name is stored once.
dns_cache_store_once(host, ip) == cache' = [host |-> IF cache.host = None THEN host ELSE cache.host, ip |-> ip]

dns_cache_store(host, ip) == cache' = [host |-> host, ip |-> ip]

\* A name no server gave an address for is looked up over HTTPS.
TryDoh == Push("doh", Frame("dns_doh_resolve_a", Top.host, None, 0))

AskServer(s) ==
    /\ stack' = <<Frame("arp_resolve", None, Servers[s], 0)>> \o [stack EXCEPT ![1].pc = "query", ![1].s = s]
    /\ ret' = None /\ result' = result

\* The servers are asked in turn.
NextServer(n, s) ==
    IF s > Len(Servers) THEN net' = n /\ TryDoh
    ELSE net' = [n EXCEPT !.dns = NoDns] /\ AskServer(s)

\* The query goes out if the way to the server is known.
Query(server) ==
    IF ret = "OK" THEN dns_send_query(net, Top.host, server) ELSE [net EXCEPT !.sent = FALSE]

net_dns_resolve ==
    \/ /\ At("net_dns_resolve", "start")
       /\ UNCHANGED cache
       /\ IF Top.host \in Literals THEN addr' = Addr[Top.host] /\ SameNet /\ Return("OK")
          ELSE IF cache.host = Top.host THEN addr' = cache.ip /\ SameNet /\ Return("OK")
          ELSE IF ~virtio_net_ready(net) THEN addr' = addr /\ SameNet /\ Return("ENODEV")
          ELSE addr' = addr /\ NextServer(net, 1)
    \/ /\ At("net_dns_resolve", "query")
       /\ UNCHANGED <<addr, cache>>
       /\ LET m == Query(Servers[Top.s])
          IN  IF m.sent THEN net' = m /\ Goto("wait") ELSE NextServer(m, Top.s + 1)
    \/ /\ At("net_dns_resolve", "answered")
       /\ IF net.dns.ok THEN addr' = net.dns.ip /\ dns_cache_store(Top.host, net.dns.ip) /\ SameNet /\ Return("OK")
          ELSE UNCHANGED <<addr, cache>> /\ SameNet /\ TryDoh
    \/ /\ At("net_dns_resolve", "doh")
       /\ addr' = addr /\ SameNet
       /\ IF ret = "OK" THEN dns_cache_store(Top.host, addr) /\ Return("OK")
          ELSE UNCHANGED cache /\ Return("ETIMEDOUT")

SlirpGivesUp(n) == [n EXCEPT !.dns_accept_bogus = FALSE]

\* The resolver for the model service, which takes bogus addresses.
net_dns_resolve_slirp ==
    \/ /\ At("net_dns_resolve_slirp", "start") /\ addr' = addr
       /\ net' = [net EXCEPT !.dns = NoDns, !.dns_accept_bogus = TRUE]
       /\ Push("query", Frame("arp_resolve", None, Servers[1], 0))
    \/ /\ At("net_dns_resolve_slirp", "query") /\ addr' = addr
       /\ LET m == Query(Servers[1])
          IN  IF m.sent THEN net' = m /\ Goto("wait") ELSE net' = SlirpGivesUp(m) /\ Return("ETIMEDOUT")
    \/ /\ At("net_dns_resolve_slirp", "answered")
       /\ addr' = net.dns.ip
       /\ net' = [net EXCEPT !.dns_accept_bogus = FALSE]
       /\ Return("OK")

-----------------------------------------------------------------------------
(* tls_client.c over mbedtls (external), which reads a connection's units     *)
(* in their order and fails on any other.                                     *)

Expected(i) == <<Owner[net.tcp.ip], i, net.conn>>

\* The closing alert is sent before the connection is closed.
tls_client_close ==
    /\ net' = tcp_close_conn(IF tls_active THEN tcp_send_data(net) ELSE net)
    /\ tls_active' = FALSE

tls_client_connect_ip ==
    \/ /\ At("tls_client_connect_ip", "start")
       /\ IF tls_active THEN tls_client_close ELSE SameNet /\ UNCHANGED tls_active
       /\ Push("tcp", Frame("tcp_connect", None, Top.ip, 443))
    \/ /\ At("tls_client_connect_ip", "tcp") /\ UNCHANGED tls_active
       /\ LET m == tcp_send_data(net)
          IN  IF ret # "OK" THEN SameNet /\ Return("EIO")
              ELSE IF m.sent THEN net' = m /\ Goto("handshake")
              ELSE net' = tcp_close_conn(m) /\ Return("EIO")
    \/ /\ At("tls_client_connect_ip", "handshake") /\ net.rx # <<>>
       /\ IF net.rx[1] = Expected(1) THEN net' = tcp_rx_take(net) /\ tls_active' = TRUE /\ Return("OK")
          ELSE net' = tcp_close_conn(net) /\ UNCHANGED tls_active /\ Return("EIO")

tls_client_connect ==
    \/ /\ At("tls_client_connect", "start")
       /\ IF tls_active THEN tls_client_close ELSE SameNet /\ UNCHANGED tls_active
       /\ Push("resolve", Frame("net_dns_resolve", Top.host, None, 0))
    \/ /\ At("tls_client_connect", "resolve") /\ SameNet /\ UNCHANGED tls_active
       /\ IF ret = "OK" THEN Push("tls", Frame("tls_client_connect_ip", None, addr, 0)) ELSE Return("EIO")
    \/ At("tls_client_connect", "tls") /\ SameNet /\ UNCHANGED tls_active /\ Return(ret)

tls_client_read ==
    \/ At("tls_client_read", "start") /\ buf' = <<>> /\ SameNet /\ Goto("wait")
    \/ /\ At("tls_client_read", "wait") /\ net.rx # <<>>
       /\ IF net.rx[1] = Expected(Len(buf) + 2)
          THEN Took /\ IF Len(buf') = BUF THEN Return("OK") ELSE Goto("wait")
          ELSE UNCHANGED <<net, buf>> /\ Return(IF buf # <<>> THEN "OK" ELSE "EIO")

\* Request and answer on a TLS connection: https_post_send, and the same of
\* dns_doh_resolve_a.  What the answer is worth to the caller is in code.
Request(connect, code) ==
    \/ /\ Top.pc = "start" /\ SameNet /\ UNCHANGED tls_active
       /\ Push("tls", connect)
    \/ /\ Top.pc = "tls"
       /\ LET m == tcp_send_data(net)
          IN  IF ret # "OK" THEN SameNet /\ UNCHANGED tls_active /\ Return("EIO")
              ELSE IF m.sent THEN net' = m /\ UNCHANGED tls_active /\ Push("read", Frame("tls_client_read", None, None, 0))
              ELSE tls_client_close /\ Return("EIO")
    \/ /\ Top.pc = "read"
       /\ tls_client_close
       /\ Return(code)

\* The answer can be parsed when the body has come.
dns_doh_resolve_a ==
    /\ stack # <<>> /\ Top.op = "dns_doh_resolve_a"
    /\ LET code == IF ret = "OK" /\ Len(buf) < 2 THEN "EIO" ELSE ret
       IN  /\ Request(Frame("tls_client_connect_ip", None, Doh, 0), code)
           /\ addr' = IF Top.pc = "read" /\ code = "OK" THEN Addr[Top.host] ELSE addr

net_https_post_ip ==
    /\ stack # <<>> /\ Top.op = "net_https_post_ip"
    /\ Request(Frame("tls_client_connect_ip", None, Top.ip, 0), ret)

net_https_post_port ==
    /\ stack # <<>> /\ Top.op = "net_https_post_port"
    /\ Request(Frame("tls_client_connect", Top.host, None, 0), ret)

-----------------------------------------------------------------------------
(* HTTP, the model service, the fleet, the remote console                  *)

\* Slip: the connection is left open when the answer has come.
LeaveOpen(n) == n

\* tcp_close_conn after the answer.
Finish(n) == tcp_close_conn(n)

\* A registration is the call the caller waits for, and every failure of it the
\* same one; a fetch is part of a call.
End(rc) ==
    IF Top.op = "remote_connect" THEN Done(IF rc = "OK" THEN "OK" ELSE "EIO", <<>>) ELSE Return(rc)

\* From a connection's attempt to the end of its answer, for the functions that
\* use the connection without TLS.  What does not start as an answer is an
\* error, and so is an answer that says so.
Exchange ==
    \/ /\ Top.pc = "send"
       /\ LET m == tcp_send_data(net)
          IN  IF ret # "OK" THEN SameNet /\ End("EIO")
              ELSE IF m.sent THEN net' = m /\ Push("recv", Frame("tcp_recv", None, None, 0))
              ELSE net' = tcp_close_conn(m) /\ End("EIO")
    \/ /\ Top.pc = "recv"
       /\ net' = Finish(net)
       /\ \/ ret = "OK" /\ buf[1][2] = 1 /\ End("OK")
          \/ End(IF ret = "OK" THEN "EIO" ELSE ret)

\* A port zero is noticed when the request is made up.
ConnectedToPortZero == Top.pc = "send" /\ ret = "OK" /\ Top.s = 0

\* The address is looked up once more for a station that is not the peer.
net_http_get ==
    /\ stack # <<>> /\ Top.op = "net_http_get"
    /\ \/ Top.pc = "start" /\ Top.s = 443 /\ SameNet /\ Return("EIO")
       \/ Top.pc = "start" /\ Top.s # 443 /\ SameNet /\ Push("arp", Frame("net_dns_resolve", Top.host, None, 0))
       \/ /\ Top.pc = "arp" /\ SameNet
          /\ IF ret # "OK" THEN Return("ETIMEDOUT")
             ELSE IF net.peer_mac_ip = addr THEN Push("send", Frame("tcp_connect", None, addr, Top.s))
             ELSE Push("connect", Frame("arp_resolve", None, addr, 0))
       \/ /\ Top.pc = "connect" /\ SameNet
          /\ IF ret # "OK" THEN Return("ETIMEDOUT") ELSE Push("send", Frame("tcp_connect", None, addr, Top.s))
       \/ ConnectedToPortZero /\ SameNet /\ Return("EINVAL")
       \/ ~ConnectedToPortZero /\ Exchange

net_http_post ==
    /\ stack # <<>> /\ Top.op = "net_http_post"
    /\ \/ Top.pc = "start" /\ Top.s = 0 /\ SameNet /\ Return("EINVAL")
       \/ Top.pc = "start" /\ Top.s # 0 /\ SameNet /\ Push("connect", Frame("net_dns_resolve", Top.host, None, 0))
       \/ /\ Top.pc = "connect" /\ SameNet
          /\ IF ret # "OK" THEN Return("ETIMEDOUT") ELSE Push("send", Frame("tcp_connect", None, addr, Top.s))
       \/ Exchange

\* agent_http_fetch: what the network does not give the host may (external).
HostAnswers == {"OK", "EINVAL", "EIO", "ENODEV", "ETIMEDOUT"}

agent_http_fetch ==
    /\ stack # <<>> /\ Top.op = "agent_http_fetch" /\ SameNet
    /\ \/ Top.pc = "start" /\ virtio_net_ready(net) /\ Push("native", Frame("net_http_get", Top.host, None, Top.s))
       \/ Top.pc = "native" /\ ret = "OK" /\ Done("OK", buf)
       \/ /\ (Top.pc = "native" /\ ret # "OK") \/ (Top.pc = "start" /\ ~virtio_net_ready(net))
          /\ \E rc \in HostAnswers : Done(rc, <<>>)

\* The policy may deny the host (external); without a network fleet_ingest
\* fetches instead.
fleet_ingest_net ==
    /\ stack # <<>> /\ Top.op = "fleet_ingest_net" /\ SameNet
    /\ \/ /\ Top.pc = "start" /\ virtio_net_ready(net)
          /\ \/ Done("EPERM", <<>>)
             \/ Push("post", Frame("net_http_post", Top.host, None, Top.s))
             \/ Push("post", Frame("net_https_post_port", Top.host, None, 443))
       \/ Top.pc = "post" /\ Done(ret, IF ret = "OK" THEN buf ELSE <<>>)
       \/ Top.pc = "start" /\ ~virtio_net_ready(net) /\ \E rc \in HostAnswers : Done(rc, <<>>)

remote_connect ==
    /\ stack # <<>> /\ Top.op = "remote_connect"
    /\ \/ Top.pc = "start" /\ virtio_net_ready(net) /\ SameNet /\ Push("send", Frame("tcp_connect", None, Gw, 80))
       \/ Top.pc = "start" /\ ~virtio_net_ready(net) /\ SameNet /\ Done("ENODEV", <<>>)
       \/ Exchange

\* The content is in what follows the head of the answer; it need not be whole.
extract_content(answer) == Len(answer) >= 2

\* The policy may deny the host (external).  The resolver that takes bogus
\* addresses is asked first, then the other one; blen is -1, which is EPERM,
\* until a request was made.
llm_deepseek_query ==
    /\ stack # <<>> /\ Top.op = "llm_deepseek_query" /\ SameNet
    /\ LET Post(pc) == Push(pc, Frame("net_https_post_ip", Top.host, addr, 0))
       IN  \/ Top.pc = "start" /\ ~net.site.key /\ Return("ENODEV")
           \/ Top.pc = "start" /\ net.site.key /\ Return("EPERM")
           \/ /\ Top.pc = "start" /\ net.site.key
              /\ Push("slirp", Frame("net_dns_resolve_slirp", Top.host, None, 0))
           \/ Top.pc = "slirp" /\ ret = "OK" /\ Post("first")
           \/ /\ Top.pc \in {"slirp", "first"} /\ ret # "OK"
              /\ Push(IF Top.pc = "slirp" THEN "resolve" ELSE "again", Frame("net_dns_resolve", Top.host, None, 0))
           \/ Top.pc \in {"resolve", "again"} /\ ret = "OK" /\ Post("second")
           \/ Top.pc \in {"first", "second"} /\ ret = "OK" /\ Return(IF extract_content(buf) THEN "OK" ELSE "EIO")
           \/ Top.pc = "resolve" /\ ret # "OK" /\ Return("EPERM")
           \/ Top.pc = "again" /\ ret # "OK" /\ \E rc \in {"EIO", "ETIMEDOUT"} : Return(rc)
           \/ Top.pc = "second" /\ ret # "OK" /\ Return(ret)

\* For a caller that does not itself serve the model.
llm_session_finish(answer) == session' = Append(session, answer)

\* The canned answer, unless it is too long for the caller.
FauxAnswer == <<<<"faux", 1, 0>>>>

llm_faux ==
    \/ llm_session_finish(FauxAnswer) /\ Done("OK", FauxAnswer)
    \/ UNCHANGED session /\ Done("EINVAL", <<>>)

agent_llm_query ==
    /\ stack # <<>> /\ Top.op = "agent_llm_query" /\ SameNet
    /\ \/ /\ Top.pc = "start" /\ virtio_net_ready(net)
          /\ UNCHANGED session /\ Push("answer", Frame("llm_deepseek_query", Top.host, None, 0))
       \/ Top.pc = "start" /\ ~virtio_net_ready(net) /\ llm_faux
       \/ Top.pc = "answer" /\ ret = "ENODEV" /\ llm_faux
       \/ Top.pc = "answer" /\ ret = "OK" /\ llm_session_finish(buf) /\ Done("OK", buf)
       \/ Top.pc = "answer" /\ ret \notin {"OK", "ENODEV"} /\ UNCHANGED session /\ Done(ret, <<>>)

-----------------------------------------------------------------------------
(* Waiting                                                                 *)

Waiting ==
    \/ At("netstack_init", "dhcp") \/ At("arp_resolve", "wait") \/ At("tcp_connect", "syn")
    \/ At("net_dns_resolve", "wait") \/ At("net_dns_resolve_slirp", "wait")
    \/ At("tcp_recv", "wait") \/ At("tls_client_read", "wait") \/ At("tls_client_connect_ip", "handshake")

Reading == Top.op \in {"tcp_recv", "tls_client_read", "tls_client_connect_ip"}

\* Slip: frames are polled while there is something to take.
PollWhileReading == TRUE

\* A reader takes what there is before it polls.
PollDue == Reading => net.rx = <<>>

\* A loop polls a frame and looks whether it has what it waits for.
Poll(f) ==
    /\ Waiting /\ PollDue
    /\ net' = netstack_poll(net, f)
    /\ CASE Top.op = "netstack_init" /\ net'.dhcp_done -> Goto("arp")
         [] Top.op = "arp_resolve" /\ Resolved(net', Top.ip) -> Return("OK")
         [] Top.op = "tcp_connect" /\ net'.tcp.state = 2 -> Return("OK")
         [] Top.op = "net_dns_resolve" /\ (net'.dns.ok \/ net'.dns.bogus) -> Goto("answered")
         [] Top.op = "net_dns_resolve_slirp" /\ net'.dns.ok -> Goto("answered")
         [] OTHER -> UNCHANGED <<stack, ret, result>>
    /\ UNCHANGED <<addr, buf, cache, tls_active, session, todo>>

\* Slip: a connection is waited for as long as it takes.
LoopEndsUnlessConnecting == Top.op \notin {"tls_client_connect_ip", "tcp_connect"}

\* Every loop but that of the handshake counts its turns.
LoopEnds == Top.op # "tls_client_connect_ip"

Timeout ==
    /\ Waiting /\ LoopEnds /\ PollDue
    /\ CASE Top.op = "netstack_init" -> net' = [net EXCEPT !.our_ip = NetIp] /\ Goto("arp")
         [] Top.op = "arp_resolve" -> SameNet /\ Return("ETIMEDOUT")
         [] Top.op = "tcp_connect" -> net' = tcp_reset(net) /\ Return("ETIMEDOUT")
         [] Top.op = "net_dns_resolve" -> NextServer(net, Top.s + 1)
         [] Top.op = "net_dns_resolve_slirp" -> net' = SlirpGivesUp(net) /\ Return("ETIMEDOUT")
         [] OTHER -> SameNet /\ Return(IF buf # <<>> THEN "OK" ELSE "ETIMEDOUT")
    /\ UNCHANGED <<addr, buf, cache, tls_active, session, todo>>

-----------------------------------------------------------------------------
Step ==
    /\ \/ /\ \/ netstack_init \/ arp_resolve \/ tcp_connect \/ net_http_get \/ net_http_post
             \/ agent_http_fetch \/ fleet_ingest_net \/ remote_connect \/ llm_deepseek_query
          /\ UNCHANGED <<addr, buf, cache, tls_active, session>>
       \/ (tcp_recv_start \/ tcp_recv_take \/ tls_client_read) /\ UNCHANGED <<addr, cache, tls_active, session>>
       \/ net_dns_resolve /\ UNCHANGED <<buf, tls_active, session>>
       \/ net_dns_resolve_slirp /\ UNCHANGED <<buf, cache, tls_active, session>>
       \/ /\ tls_client_connect_ip \/ tls_client_connect \/ net_https_post_ip \/ net_https_post_port
          /\ UNCHANGED <<addr, buf, cache, session>>
       \/ dns_doh_resolve_a /\ UNCHANGED <<buf, cache, session>>
       \/ agent_llm_query /\ UNCHANGED <<addr, buf, cache, tls_active>>
    /\ UNCHANGED todo

NoResult == [host |-> None, rc |-> None, answer |-> <<>>]

\* A call comes with buffers of its own.
Call ==
    /\ stack = <<>> /\ todo # <<>>
    /\ stack' = <<Frame(todo[1][1], todo[1][2], None, todo[1][3])>> /\ ret' = None
    /\ todo' = Tail(todo)
    /\ addr' = None /\ buf' = <<>> /\ result' = NoResult
    /\ UNCHANGED <<net, cache, tls_active, session>>

Init ==
    /\ \E plan \in Plans : todo = plan.calls /\ net = Statics(plan.site)
    /\ stack = <<Frame("netstack_init", None, None, 0)>> /\ ret = None
    /\ addr = None /\ buf = <<>> /\ cache = [host |-> None, ip |-> None]
    /\ tls_active = FALSE /\ session = <<>>
    /\ result = NoResult

\* The device takes frames in time or not, from one moment to the next.
virtio_net_send_frame ==
    /\ virtio_net_ready(net) /\ ~net.site.steady /\ stack # <<>>
    /\ net' = [net EXCEPT !.up = ~@]
    /\ UNCHANGED <<stack, ret, addr, buf, cache, tls_active, session, result, todo>>

Next ==
    \/ Call \/ Step \/ Timeout \/ virtio_net_send_frame
    \/ \E f \in net.wire : Poll(f)

Spec == Init /\ [][Next]_vars

\* The kernel goes on, and loops that count their turns end.
FairSpec == Spec /\ WF_vars(Step) /\ WF_vars(Timeout)
-----------------------------------------------------------------------------
(* Properties                                                              *)

Rcs == {None, "OK", "EINVAL", "EIO", "ENODEV", "EPERM", "ETIMEDOUT"}
AnyUnit == {Owner[ip] : ip \in DOMAIN Owner} \X (1 .. Units) \X Nat

\* The variables keep their shapes, and the receive buffer of the stack and the
\* caller's buffer their sizes (tcp_rx_append, tcp_recv_accumulate).
TypeOK ==
    /\ ret \in Rcs /\ tls_active \in BOOLEAN
    /\ addr \in {None, Fake} \cup {Addr[h] : h \in Hosts}
    /\ buf \in Seq(AnyUnit) /\ Len(buf) <= BUF
    /\ net.rx \in Seq(AnyUnit) /\ Len(net.rx) <= RX_SIZE
    /\ net.tcp.state \in 0 .. 2 /\ (net.tcp.state # 0 => net.tcp.active)
    /\ result.rc \in Rcs /\ result.host \in Hosts \cup {None}

\* The station ip_send would send a frame to is the one that has the
\* destination's address, or the gateway if that is not of our subnet, whatever
\* stations were resolved and in whatever order; the station x86 falls back to
\* stands for the gateway alone.
MacRight ==
    \A dst \in DOMAIN Owner :
        Route(net, dst) \in {None} \cup IF dst \in Local \ {Gw} THEN {dst} ELSE {Gw, SlirpMac}

\* The address a proxy gives to the model service's resolver is never used for
\* another call: net_dns_resolve_slirp stops accepting such addresses on every
\* way out, and no cached address is one of them.
NeverBogus ==
    /\ cache.ip # Fake
    /\ net.dns_accept_bogus => \E i \in DOMAIN stack : stack[i].op = "net_dns_resolve_slirp"

\* Unless an answer to an earlier query was taken for that of a later one, the
\* cache of net_dns_resolve holds the address of its name.
NameRight == cache.host # None /\ ~net.late => cache.ip = Addr[cache.host]

\* The units of an answer, from the first of a plain connection or from the
\* second of a TLS connection on, without a gap.
AnswerOf(host, a) ==
    \A i \in DOMAIN a : a[i][1] = host /\ a[i][2] = a[1][2] + i - 1 /\ a[1][2] \in {1, 2} /\ a[i][3] = a[1][3]

\* As long as frames come in order and none of an earlier exchange comes late,
\* what a call gives, and what is added to the session, is the beginning of one
\* answer of the host that was asked, with nothing lost in tcp_rx.  The canned
\* answer of llm_faux is given without a device or a key and never for an
\* answer that failed to come.
AnswerRight ==
    LET canned == ~virtio_net_ready(net) \/ ~net.site.key
        Right(host, a) == (a = FauxAnswer /\ canned) \/ AnswerOf(host, a)
    IN  ~net.late /\ ~net.disorder =>
            Right(result.host, result.answer) /\ \A i \in DOMAIN session : Right(LlmHost, session[i])

\* When no call is in progress no TLS context is alive and no connection that a
\* request was sent on is established, whichever way the calls ended and
\* whatever failed to be sent.  An established one has carried nothing: that to
\* port zero, which net_http_get leaves, or one given up before its SYN was out
\* and answered during another call.
ConnectionReleased ==
    stack = <<>> /\ ~net.late =>
        ~tls_active /\ (net.tcp.state = 2 => net.tcp.snd = 1 /\ net.rx = <<>>)

\* tcp_connect can send its SYN once arp_resolve has succeeded, except to the
\* gateway itself, whose address arp_resolve may know when ip_send has
\* forgotten it.
Reachable == At("tcp_connect", "arp") /\ ret = "OK" /\ Top.ip # Gw => Route(net, Top.ip) # None

\* Every network call ends, whatever frames are lost: all loops count their
\* turns, but for that of the TLS handshake, which waits for as long as the peer
\* is silent.
CallReturns == stack # <<>> ~> (stack = <<>> \/ At("tls_client_connect_ip", "handshake"))

\* A model query ends.
LlmReturns ==
    (stack # <<>> /\ stack[Len(stack)].op = "agent_llm_query") ~> stack = <<>>

\* The state invariants of addresses: frames go to the station that has the
\* address, a station resolved can be sent to, names stand for their addresses
\* and the proxy's address is used for the model service only.
NetInv == TypeOK /\ MacRight /\ Reachable /\ NeverBogus /\ NameRight
=============================================================================
