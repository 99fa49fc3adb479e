------------------------------ MODULE NetStack ------------------------------
(* The polling network client of user/libs/netlib: http_request and          *)
(* https_request over dns.c, udp.c, tcp.c, tls.c, ipv4.c, arp.c and eth.c.   *)
(* The library is single threaded and keeps one UDP mailbox, one receive     *)
(* buffer and one pointer to "the" connection, all global; every wait is a   *)
(* bounded loop over ipv4_poll.  The network may lose, duplicate, delay and  *)
(* reorder frames, so frames of an earlier request arrive during a later     *)
(* one.  A host's address is the host itself; the cells of the receive       *)
(* buffer carry the connection they were sent on.  Sequence numbers,         *)
(* checksums and lengths decide nothing in the code and are left out.        *)
EXTENDS Naturals, Sequences, FiniteSets

CONSTANTS
  Hosts,        \* what callers ask for
  Literals,     \* the hosts written as dotted quads (dns_parse_ip_literal)
  LongNames,    \* the hosts that do not fit a query (dns_build_query = 0)
  Attempts,     \* DNS_TIMEOUT_ITERATIONS
  RxMax,        \* TCP_RESPONSE_MAX, in cells
  WireMax,      \* bound: frames under way at once
  NetRequests   \* bound: requests made, below the number of ports and ids

VARIABLES
  pc,       \* where the client is inside http_request
  req,      \* its request: [host, scheme]
  addr,     \* remote_ip, as dns_resolve returned it
  txid,     \* g_txid of dns_resolve
  query,    \* the resolver (1, 2) and the attempt of dns_resolve
  gateway,  \* whether g_arp_cache holds the gateway
  mailbox,  \* g_udp_recv_buf when g_udp_recv_ready, else NoMail
  conn,     \* the caller's tcp_conn_t
  tcpActive,   \* g_active_tcp_conn # 0
  port,     \* g_ephemeral_port, counted from its base
  rx, gfin, \* g_rx_ring from g_rx_head to g_rx_tail; g_conn_fin
  taken,    \* g_rx_head
  engine,   \* the TLS engine: "none", "hello", "app", "closed"
  plain,    \* application data tls_recv has copied out
  wire,     \* frames on their way to this host
  result    \* what the last request returned

netVars == <<pc, req, addr, txid, query, gateway, mailbox, conn, tcpActive, port,
             rx, gfin, taken, engine, plain, wire, result>>

NoMail == [id |-> 0, host |-> "none", ok |-> FALSE]
NoConn == [ip |-> "none", lport |-> 0, connected |-> FALSE, fin |-> FALSE]
NoResult == [status |-> "none", host |-> "none", addr |-> "none", cells |-> <<>>,
             lport |-> 0]

NetInit ==
  /\ pc = "idle" /\ req = [host |-> "none", scheme |-> "http"] /\ addr = "none"
  /\ txid = 1 /\ query = <<1, 1>> /\ gateway = FALSE /\ mailbox = NoMail
  /\ conn = NoConn /\ tcpActive = FALSE /\ port = 1 /\ rx = <<>> /\ gfin = FALSE
  /\ taken = 0 /\ engine = "none" /\ plain = <<>> /\ wire = {} /\ result = NoResult

-----------------------------------------------------------------------------
(* Frames.  What the peers may answer is external; any part of it is lost.   *)

ArpFrame == [k |-> "arp"]
DnsFrame(id, h, good) == [k |-> "dns", id |-> id, host |-> h, ok |-> good]
Segment(c, what) == [k |-> "tcp", ip |-> c.ip, lport |-> c.lport, what |-> what]

Answered(frames) ==
  \E some \in SUBSET frames :
    /\ wire' = wire \cup some
    /\ Cardinality(wire') <= WireMax

(* eth_send hands the frame to the device.                                   *)
EthSend(frames) == Answered(frames)

(* ipv4_send: without the gateway's address nothing goes out.                *)
Ipv4Send(frames) == gateway /\ EthSend(frames)

(* The server's reply to a request: a response in two segments, then FIN.    *)
Reply(c) == {Segment(c, "head"), Segment(c, "body"), Segment(c, "fin")}

Return(status, cells) ==
  /\ pc' = "idle"
  /\ result' = [status |-> status, host |-> req.host, addr |-> addr,
                cells |-> cells, lport |-> conn.lport]

-----------------------------------------------------------------------------
(* The request, and name resolution.                                         *)

(* dns_parse_ip_literal, dns_build_query.                                    *)
IsLiteral(h) == h \in Literals
QueryFits(h) == h \notin LongNames

(* http_request and https_request up to the call of dns_resolve.  The        *)
(* caller's locals are new: its tcp_conn_t, the address and the body.        *)
Ask(h, s) ==
  /\ pc = "idle" /\ port <= NetRequests /\ txid <= NetRequests
  /\ req' = [host |-> h, scheme |-> s]
  /\ conn' = NoConn /\ plain' = <<>> /\ query' = <<1, 1>>
  /\ addr' = IF IsLiteral(h) THEN h ELSE "none"
  /\ result' = IF IsLiteral(h) \/ QueryFits(h) THEN NoResult
               ELSE [NoResult EXCEPT !.status = "dns", !.host = h]
  /\ pc' = IF IsLiteral(h) THEN "connect" ELSE IF QueryFits(h) THEN "query" ELSE pc
  /\ UNCHANGED <<txid, gateway, mailbox, tcpActive, port, rx, gfin, taken, engine, wire>>

(* https_request; http_request passes https:// URLs on to it.                *)
HttpsRequest(h) == Ask(h, "https")

(* netlib_http_get, netlib_https_get and netlib_ping.                        *)
HttpGet(h) == Ask(h, "http") \/ HttpsRequest(h)
HttpsGet(h) == HttpsRequest(h)
Ping(h) == Ask(h, "ping")

(* The 16-bit id skips zero; it does not come round within the bound.        *)
NextTxid == (txid % 65535) + 1

(* The two loops of dns_resolve: attempts, then the second resolver.         *)
NextAttempt ==
  IF query[2] < Attempts
  THEN pc' = "query" /\ query' = <<query[1], query[2] + 1>> /\ UNCHANGED <<txid, result>>
  ELSE IF query[1] = 1
  THEN pc' = "query" /\ query' = <<2, 1>> /\ UNCHANGED <<txid, result>>
  ELSE Return("dns", <<>>) /\ txid' = NextTxid /\ UNCHANGED query

(* udp_send; what was in the mailbox is dropped.                             *)
UdpSend ==
  /\ pc = "query"
  /\ pc' = "answer" /\ mailbox' = NoMail
  /\ Ipv4Send({DnsFrame(txid, req.host, TRUE), DnsFrame(txid, req.host, FALSE)})
  /\ UNCHANGED <<req, addr, txid, query, gateway, conn, tcpActive, port, rx, gfin,
                 taken, engine, plain, result>>

(* A parser that does not compare the id.                                    *)
AcceptsAny(mail) == mail.ok

(* dns_parse_response accepts the reply that carries its own id.             *)
Accepts(mail) == mail.id = txid /\ mail.ok

(* udp_recv returns, with a datagram or at its timeout.                      *)
UdpReceived ==
  /\ pc = "answer"
  /\ IF Accepts(mailbox)
     THEN /\ addr' = mailbox.host /\ pc' = "connect" /\ txid' = NextTxid
          /\ UNCHANGED <<query, result>>
     ELSE NextAttempt /\ UNCHANGED addr
  /\ UNCHANGED <<req, gateway, mailbox, conn, tcpActive, port, rx, gfin, taken,
                 engine, plain, wire>>

-----------------------------------------------------------------------------
(* ARP: a send to a gateway that is not cached asks for it and polls.        *)

Sending == pc \in {"query", "syn"}

ArpResolve ==
  /\ Sending /\ ~gateway /\ Answered({ArpFrame}) /\ wire' # wire
  /\ UNCHANGED <<pc, req, addr, txid, query, gateway, mailbox, conn, tcpActive, port,
                 rx, gfin, taken, engine, plain, result>>

ArpGiveUp ==
  /\ Sending /\ ~gateway
  /\ \/ pc = "query" /\ NextAttempt /\ UNCHANGED tcpActive
     \/ /\ pc = "syn" /\ tcpActive' = FALSE /\ Return("connect", <<>>)
        /\ UNCHANGED <<query, txid>>
  /\ UNCHANGED <<req, addr, gateway, mailbox, conn, port, rx, gfin, taken, engine,
                 plain, wire>>

-----------------------------------------------------------------------------
(* TCP.                                                                      *)

(* tcp_connect up to the SYN: a fresh local port, the buffer emptied.        *)
Connect ==
  /\ pc = "connect"
  /\ conn' = [ip |-> addr, lport |-> port, connected |-> FALSE, fin |-> FALSE]
  /\ port' = port + 1 /\ rx' = <<>> /\ taken' = 0 /\ gfin' = FALSE
  /\ tcpActive' = TRUE /\ pc' = "syn" /\ engine' = "none" /\ plain' = <<>>
  /\ UNCHANGED <<req, addr, txid, query, gateway, mailbox, wire, result>>

(* tcp_send_segment of the SYN.                                              *)
SendSyn ==
  /\ pc = "syn"
  /\ pc' = "synwait"
  /\ Ipv4Send({Segment(conn, "synack"), Segment(conn, "rst")})
  /\ UNCHANGED <<req, addr, txid, query, gateway, mailbox, conn, tcpActive, port, rx,
                 gfin, taken, engine, plain, result>>

(* A tcp_close that forgets only a connection that was never established.    *)
TcpCloseOpen(c) == tcpActive' = ~c.connected /\ conn' = [c EXCEPT !.connected = FALSE]

(* tcp_close, on every way out of a request.                                 *)
TcpClose(c) == tcpActive' = FALSE /\ conn' = [c EXCEPT !.connected = FALSE]

PingConnected ==
  /\ pc = "synwait" /\ conn.connected /\ req.scheme = "ping"
  /\ TcpClose(conn) /\ Return("ok", <<>>)
  /\ UNCHANGED <<req, addr, txid, query, gateway, mailbox, port, rx, gfin, taken,
                 engine, plain, wire>>

HttpConnected ==
  /\ pc = "synwait" /\ conn.connected /\ req.scheme = "http" /\ pc' = "send"
  /\ UNCHANGED <<req, addr, txid, query, gateway, mailbox, conn, tcpActive, port, rx,
                 gfin, taken, engine, plain, wire, result>>

(* tls_connect: the engine is reset and its hello goes out.                  *)
TlsConnect ==
  /\ pc = "synwait" /\ conn.connected /\ req.scheme = "https"
  /\ pc' = "handshake" /\ engine' = "hello"
  /\ Answered({Segment(conn, "hello"), Segment(conn, "badcert")})
  /\ UNCHANGED <<req, addr, txid, query, gateway, mailbox, conn, tcpActive, port, rx,
                 gfin, taken, plain, result>>

ConnectTimeout ==
  /\ pc = "synwait" /\ ~conn.connected
  /\ tcpActive' = FALSE /\ Return("connect", <<>>)
  /\ UNCHANGED <<req, addr, txid, query, gateway, mailbox, conn, port, rx, gfin,
                 taken, engine, plain, wire>>

(* tcp_send, over a connection a reset may have taken down.                  *)
TcpSend ==
  /\ pc = "send"
  /\ IF conn.connected
     THEN pc' = "recv" /\ Answered(Reply(conn)) /\ UNCHANGED <<tcpActive, conn, result>>
     ELSE TcpClose(conn) /\ Return("send", <<>>) /\ UNCHANGED wire
  /\ UNCHANGED <<req, addr, txid, query, gateway, mailbox, port, rx, gfin, taken,
                 engine, plain>>

(* The parsers of http.c: a response has a status line.                      *)
HttpParse(cells) == IF \A i \in DOMAIN cells : cells[i].what # "head" THEN "response" ELSE "ok"

(* tcp_recv hands out what the buffer holds, up to `cells`.                  *)
TcpRecv(cells) ==
  taken' = taken + cells /\ rx' = SubSeq(rx, cells + 1, Len(rx))

(* The wait ends at FIN or after its timeout; the response is then parsed.   *)
TcpReceived ==
  /\ pc = "recv"
  /\ TcpClose(conn)
  /\ Return(IF rx = <<>> THEN "recv" ELSE HttpParse(rx), rx)
  /\ TcpRecv(Len(rx))
  /\ UNCHANGED <<req, addr, txid, query, gateway, mailbox, port, gfin, engine,
                 plain, wire>>

-----------------------------------------------------------------------------
(* TLS: the engine (external) takes records from the receive buffer, and     *)
(* closes on one it does not expect.                                         *)

EngineTakes(cell) ==
  CASE engine = "hello" /\ cell.what = "hello" -> "app"
    [] engine = "app" /\ cell.what \in {"head", "body"} /\
       (cell.what = "body") = (plain # <<>>) -> "app"
    [] OTHER -> "closed"

(* tls_recv copies out what the engine has decrypted.                        *)
TlsRecv(cell) ==
  plain' = IF engine = "app" /\ engine' = "app" THEN Append(plain, cell) ELSE plain

(* tls_pump's receiving half: tcp_recv feeds the engine.                     *)
TlsPump ==
  /\ pc \in {"handshake", "appsend", "apprecv"} /\ engine # "closed" /\ rx # <<>>
  /\ engine' = EngineTakes(rx[1])
  /\ TcpRecv(1) /\ TlsRecv(rx[1])
  /\ UNCHANGED <<pc, req, addr, txid, query, gateway, mailbox, conn, tcpActive, port,
                 gfin, wire, result>>

(* tls_close, from every way out after tls_connect.                          *)
TlsClose == TcpClose(conn) /\ engine' = "closed"

HandshakeFails ==
  /\ pc = "handshake" /\ engine # "app"
  /\ TcpClose(conn) /\ engine' = "closed" /\ Return("tls", <<>>)
  /\ UNCHANGED <<req, addr, txid, query, gateway, mailbox, port, rx, gfin, taken,
                 plain, wire>>

(* tls_connect returned; https_request builds its request.                   *)
TlsConnected ==
  /\ pc = "handshake" /\ engine = "app" /\ pc' = "appsend"
  /\ UNCHANGED <<req, addr, txid, query, gateway, mailbox, conn, tcpActive, port, rx,
                 gfin, taken, engine, plain, wire, result>>

(* tls_send, which fails once the engine has closed.                         *)
TlsSend ==
  /\ pc = "appsend"
  /\ IF engine = "closed"
     THEN TlsClose /\ Return("send", <<>>) /\ UNCHANGED wire
     ELSE /\ pc' = "apprecv"
          /\ IF conn.connected THEN Answered(Reply(conn)) ELSE UNCHANGED wire
          /\ UNCHANGED <<conn, tcpActive, engine, result>>
  /\ UNCHANGED <<req, addr, txid, query, gateway, mailbox, port, rx, gfin, taken, plain>>

(* tls_recv ends when the engine closes or its timeout does.                 *)
TlsReceived ==
  /\ pc = "apprecv"
  /\ TlsClose
  /\ Return(IF plain = <<>> THEN "recv" ELSE HttpParse(plain), plain)
  /\ UNCHANGED <<req, addr, txid, query, gateway, mailbox, port, rx, gfin, taken,
                 plain, wire>>

-----------------------------------------------------------------------------
(* ipv4_poll: one frame, handed to ARP, UDP or the active connection.        *)

Polling ==
  \/ Sending /\ ~gateway
  \/ pc = "answer" /\ mailbox = NoMail
  \/ pc = "synwait" /\ ~conn.connected
  \/ pc = "recv" /\ ~gfin
  \/ pc \in {"handshake", "appsend", "apprecv"}

(* arp_process and udp_dispatch.                                             *)
ArpProcess(p) == p.k = "arp" /\ gateway' = TRUE /\ UNCHANGED <<mailbox, conn, rx, gfin>>
UdpDispatch(p) ==
  /\ p.k = "dns" /\ mailbox' = [id |-> p.id, host |-> p.host, ok |-> p.ok]
  /\ UNCHANGED <<gateway, conn, rx, gfin>>

(* A test of the address alone.                                              *)
ForThisHost(p) == p.ip = conn.ip

(* The address and ports that tcp_dispatch compares.                         *)
ForThis(p) == p.ip = conn.ip /\ p.lport = conn.lport

TcpDispatch(p) ==
  IF ~tcpActive \/ ~ForThis(p) THEN UNCHANGED <<conn, rx, gfin>>
  ELSE CASE p.what = "rst" ->
            /\ conn' = [conn EXCEPT !.connected = FALSE, !.fin = TRUE]
            /\ UNCHANGED <<rx, gfin>>
         [] p.what = "synack" ->
            conn' = [conn EXCEPT !.connected = TRUE] /\ UNCHANGED <<rx, gfin>>
         [] p.what = "fin" ->
            conn' = [conn EXCEPT !.fin = TRUE] /\ gfin' = TRUE /\ UNCHANGED rx
         [] OTHER ->
            /\ rx' = IF taken + Len(rx) < RxMax THEN Append(rx, p) ELSE rx
            /\ UNCHANGED <<conn, gfin>>

Ipv4Poll(p, again) ==
  /\ Polling
  /\ wire' = IF again THEN wire ELSE wire \ {p}
  /\ \/ ArpProcess(p)
     \/ UdpDispatch(p)
     \/ p.k = "tcp" /\ TcpDispatch(p) /\ UNCHANGED <<gateway, mailbox>>
  /\ UNCHANGED <<pc, req, addr, txid, query, tcpActive, port, taken, engine, plain, result>>

NetNext ==
  \/ \E h \in Hosts : HttpGet(h) \/ HttpsGet(h) \/ Ping(h)
  \/ UdpSend \/ UdpReceived \/ ArpResolve \/ ArpGiveUp
  \/ Connect \/ SendSyn \/ PingConnected \/ HttpConnected \/ TlsConnect \/ ConnectTimeout
  \/ TcpSend \/ TcpReceived
  \/ TlsPump \/ HandshakeFails \/ TlsConnected \/ TlsSend \/ TlsReceived
  \/ \E p \in wire, again \in BOOLEAN : Ipv4Poll(p, again)

NetSpec == NetInit /\ [][NetNext]_netVars

-----------------------------------------------------------------------------
(* Whatever late, repeated or reordered frames arrive: a request ends with   *)
(* no connection left registered (tcp_connect's caller keeps its tcp_conn_t  *)
(* on the stack, tcp.c:293); the name was resolved to its own address        *)
(* (dns.c:192); everything handed back was sent on this request's own        *)
(* connection (tcp.c:139,150, and the reset of g_rx_tail in tcp_connect);    *)
(* and an HTTPS body is a prefix of what the server sent, in order.          *)
ResponsesBelongToRequests ==
  /\ pc = "idle" => ~tcpActive
  /\ addr \in {"none", req.host}
  /\ result.status = "ok" =>
       /\ result.addr = result.host
       /\ \A i \in DOMAIN result.cells :
            result.cells[i].ip = result.addr /\ result.cells[i].lport = result.lport
  /\ \A i \in DOMAIN plain : plain[i] = Segment(conn, <<"head", "body">>[i])
=============================================================================
