----------------------------- MODULE Connections ----------------------------
(***************************************************************************)
(* The connections of the node and the peers they lead to: Seeder,         *)
(* PeerManager, HandShake, Connection and ConnectionManager.               *)
(*                                                                         *)
(* Each connection is set up by a thread of its own (Thread_Connect).  One *)
(* thread runs all the handlers of asio (connect, accept, read), another   *)
(* one prunes the list of connections and seeds new ones, and a third      *)
(* pings.  A Peer outlives its connections, and several may share it.      *)
(* Time passes anywhere: a connection becomes idle, a ban or the window of *)
(* an attempt ends.                                                        *)
(***************************************************************************)
EXTENDS Naturals, Sequences, FiniteSets

CONSTANTS Hosts,        \* the addresses of the other nodes
          MinPeers,     \* minimumConnections of Thread_Seed
          MaxPeers,     \* GetMaxPeers
          MaxObjects    \* bound: Peer and Connection objects that are ever made

VARIABLES peersByAddress,   \* m_peersByAddress: the Peer of <<host, port>>
          peer,             \* the Peer objects
          conn,             \* the Connection objects, by m_connectionId
          list,             \* m_connections
          seeder,           \* what Thread_Seed has still to disconnect and to add
          stuck             \* the connection whose mutex the asio thread waits for
                            \* although it holds it, or 0

connVars == <<peersByAddress, peer, conn, list, seeder, stuck>>

ListenPort == 1     \* GetNetworkDefaultPort; the other ports are ephemeral

NewPeer(a) == [host |-> a[1], port |-> a[2], connected |-> FALSE, banned |-> FALSE]

\* stage is where Thread_Connect is; the asio thread is reading a message, or not.
NewConnection(p, direction, port) ==
    [peer |-> p, direction |-> direction, port |-> port,
     stage |-> IF direction = "out" THEN "connect" ELSE "shake",
     connecting |-> direction = "out", open |-> direction = "in",
     error |-> FALSE, terminate |-> FALSE, byBan |-> FALSE,
     reading |-> FALSE, download |-> FALSE, ended |-> FALSE]

Conns == 1..Len(conn)
Listed == {list[i] : i \in DOMAIN list}
PeerOf(c) == peer[conn[c].peer]
-----------------------------------------------------------------------------
\* PeerManager.  GetPeer gives the Peer of an address, with the map and the Peers
\* after it: the one that was known without a port gets this port, else a new one.
Found(map, peers, id) == [map |-> map, peers |-> peers, id |-> id]

GetPeer(a) ==
    LET noPort == <<a[1], 0>>
    IN  IF a \in DOMAIN peersByAddress THEN Found(peersByAddress, peer, peersByAddress[a])
        ELSE IF noPort \in DOMAIN peersByAddress
        THEN Found([b \in (DOMAIN peersByAddress \ {noPort}) \cup {a} |->
                      peersByAddress[IF b = a THEN noPort ELSE b]],
                   [peer EXCEPT ![peersByAddress[noPort]].port = a[2]],
                   peersByAddress[noPort])
        ELSE Found([b \in DOMAIN peersByAddress \cup {a} |->
                      IF b = a THEN Len(peer) + 1 ELSE peersByAddress[b]],
                   Append(peer, NewPeer(a)),
                   Len(peer) + 1)

\* AddFreshPeers, of an address from a DNS seed or from a peer.
AddFreshPeers(a) ==
    /\ IF a \notin DOMAIN peersByAddress
       THEN /\ Len(peer) + Len(conn) < MaxObjects
            /\ peersByAddress' = [b \in DOMAIN peersByAddress \cup {a} |->
                                    IF b = a THEN Len(peer) + 1 ELSE peersByAddress[b]]
            /\ peer' = Append(peer, NewPeer(a))
       ELSE /\ peer[peersByAddress[a]].port = 0 /\ a[2] > 0
            /\ peer' = [peer EXCEPT ![peersByAddress[a]].port = a[2]]
            /\ UNCHANGED peersByAddress
    /\ UNCHANGED <<conn, list, seeder, stuck>>

BanAddress(a) ==
    /\ \E found \in {GetPeer(a)} :
         /\ Len(found.peers) + Len(conn) <= MaxObjects
         /\ peersByAddress' = found.map
         /\ peer' = [found.peers EXCEPT ![found.id].banned = TRUE]
    /\ UNCHANGED <<conn, list, seeder, stuck>>

\* BanPeer of a host: every Peer of it that is filed, or a new one.
BanHost(h) ==
    /\ \E filed \in {{p \in {peersByAddress[a] : a \in DOMAIN peersByAddress} : peer[p].host = h}} :
         IF filed # {}
         THEN /\ peer' = [p \in DOMAIN peer |-> IF p \in filed THEN [peer[p] EXCEPT !.banned = TRUE] ELSE peer[p]]
              /\ UNCHANGED peersByAddress
         ELSE /\ Len(peer) + Len(conn) < MaxObjects
              /\ peersByAddress' = [b \in DOMAIN peersByAddress \cup {<<h, 0>>} |->
                                      IF b = <<h, 0>> THEN Len(peer) + 1 ELSE peersByAddress[b]]
              /\ peer' = Append(peer, [NewPeer(<<h, 0>>) EXCEPT !.banned = TRUE])
    /\ UNCHANGED <<conn, list, seeder, stuck>>

\* UnbanPeer of an address or of a host, or the end of BAN_WINDOW for some Peers.
Unban ==
    /\ \E some \in (SUBSET {p \in DOMAIN peer : peer[p].banned}) \ {{}} :
         peer' = [p \in DOMAIN peer |-> IF p \in some THEN [peer[p] EXCEPT !.banned = FALSE] ELSE peer[p]]
    /\ UNCHANGED <<peersByAddress, conn, list, seeder, stuck>>

AddressOf(p) == <<peer[p].host, peer[p].port>>

\* Thread_ManagePeers files each Peer under its own address, the first one when
\* there are several, and forgets Peers that were last heard of a week ago.
ManagePeers ==
    LET filed == {AddressOf(peersByAddress[k]) : k \in DOMAIN peersByAddress}
        under(a) == {k \in DOMAIN peersByAddress : AddressOf(peersByAddress[k]) = a}
        first(a) == CHOOSE k \in under(a) : \A l \in under(a) : k[2] <= l[2]
        heardOf == IF stuck = 0 THEN {conn[c].peer : c \in Listed} ELSE {}
    IN  \E forgotten \in SUBSET {a \in filed : peersByAddress[first(a)] \notin heardOf} :
          /\ peersByAddress' = [a \in filed \ forgotten |-> peersByAddress[first(a)]]
          /\ UNCHANGED <<peer, conn, list, seeder, stuck>>
-----------------------------------------------------------------------------
\* Connection::IsConnectionActive, when DEFAULT_IDLE_TIMEOUT has passed for the idle.
\* The form that does not look at the socket is not the code.
SocketIsActive(c) == conn[c].open /\ ~conn[c].error
IsActiveOrClosed(c, idle) == ~conn[c].terminate /\ c \notin idle /\ ~PeerOf(c).banned
IsActive(c, idle) == ~conn[c].terminate /\ c \notin idle /\ ~PeerOf(c).banned /\ SocketIsActive(c)

\* The asio thread keeps the mutex of the connection that it is stuck in.
MutexIsFree(c) == stuck # c

\* Connection::Disconnect, which the destructor calls too: the Connection and the
\* Peers after it.  The form that leaves the Peer alone is not the code.
Disconnected(c) ==
    IF conn[c].terminate THEN conn[c] ELSE [conn[c] EXCEPT !.terminate = TRUE, !.open = FALSE]
PeersLeftAlone(c) == peer
PeersWithout(c) ==
    IF conn[c].terminate THEN peer ELSE [peer EXCEPT ![conn[c].peer].connected = FALSE]

\* Connection::BanPeer, from a thread that handles a message.
BanPeer(c) == [peer EXCEPT ![conn[c].peer].banned = TRUE]
Banned(r) == [r EXCEPT !.terminate = TRUE, !.byBan = TRUE]
-----------------------------------------------------------------------------
\* Seeder::Accept.
Accept(h) ==
    /\ stuck = 0 /\ Len(list) < MaxPeers
    /\ \E port \in {ListenPort + 1 + Len(conn)} : \E found \in {GetPeer(<<h, port>>)} :
         /\ Len(found.peers) + Len(conn) < MaxObjects
         /\ peersByAddress' = found.map
         /\ peer' = found.peers
         /\ conn' = IF found.peers[found.id].banned THEN conn
                    ELSE Append(conn, NewConnection(found.id, "in", port))
    /\ UNCHANGED <<list, seeder, stuck>>

\* Thread_Seed: PruneConnections takes what is inactive off the list, and counts the
\* connections to other nodes that are missing, when it is time to add some ...
Prune ==
    /\ seeder.doomed = <<>> /\ seeder.toAdd = 0
    /\ \E idle \in SUBSET Listed : \E stays \in {SelectSeq(list, LAMBDA c : IsActive(c, idle))} :
         /\ list' = stays
         /\ \E numOutbound \in {Cardinality({i \in DOMAIN stays : conn[stays[i]].direction = "out"})} :
            \E n \in {0, IF numOutbound < MinPeers THEN MinPeers - numOutbound ELSE 0} :
              seeder' = [doomed |-> SelectSeq(list, LAMBDA c : ~IsActive(c, idle)), toAdd |-> n]
    /\ UNCHANGED <<peersByAddress, peer, conn, stuck>>

\* ... then disconnects what it took off, one after the other ...
PruneDisconnect ==
    /\ seeder.doomed # <<>>
    /\ \E c \in {Head(seeder.doomed)} :
         /\ MutexIsFree(c)
         /\ conn' = [conn EXCEPT ![c] = Disconnected(c)]
         /\ peer' = PeersWithout(c)
    /\ seeder' = [seeder EXCEPT !.doomed = Tail(@)]
    /\ UNCHANGED <<peersByAddress, list, stuck>>

\* The Peers that GetNewPeer may give, when they were not tried a short time ago.
GetNewPeers == {p \in {peersByAddress[a] : a \in DOMAIN peersByAddress} : ~peer[p].banned /\ ~peer[p].connected}

\* ... and adds the missing.
SeedNewConnection ==
    /\ seeder.doomed = <<>> /\ seeder.toAdd > 0
    /\ \/ conn' = conn      \* there is none, or it was tried a short time ago
       \/ /\ Len(peer) + Len(conn) < MaxObjects
          /\ \E p \in GetNewPeers :
               conn' = Append(conn, NewConnection(p, "out", IF peer[p].port > 0 THEN peer[p].port ELSE ListenPort))
    /\ seeder' = [seeder EXCEPT !.toAdd = @ - 1]
    /\ UNCHANGED <<peersByAddress, peer, list, stuck>>
-----------------------------------------------------------------------------
\* Connection::HandleConnected, possibly after Thread_Connect gave up.
HandleConnected(c) ==
    /\ stuck = 0 /\ conn[c].connecting
    /\ \E ok \in BOOLEAN : conn' = [conn EXCEPT ![c].connecting = FALSE, ![c].open = ok]
    /\ UNCHANGED <<peersByAddress, peer, list, seeder, stuck>>

\* ConnectOutbound returns, or throws after five seconds or when it failed.
ConnectOutbound(c) ==
    /\ conn[c].stage = "connect"
    /\ conn' = [conn EXCEPT ![c].stage = IF conn[c].open THEN "shake" ELSE "done"]
    /\ UNCHANGED <<peersByAddress, peer, list, seeder, stuck>>

\* ConnectionManager::IsConnected.
IsConnected(a, idle) == \E c \in Listed : <<PeerOf(c).host, conn[c].port>> = a /\ IsActive(c, idle)

\* PerformHandshake throws ...
HandshakeFails(c) ==
    /\ conn[c].stage = "shake"
    /\ conn' = [conn EXCEPT ![c].stage = "done"]
    /\ \/ UNCHANGED peer
       \/ conn[c].direction = "in" /\ peer' = [peer EXCEPT ![conn[c].peer].port = ListenPort]
    /\ UNCHANGED <<peersByAddress, list, seeder, stuck>>

\* ... or returns: a peer that connects here says which port it listens on.
Handshake(c) ==
    /\ conn[c].stage = "shake"
    /\ IF conn[c].direction = "out"
       THEN conn' = [conn EXCEPT ![c].stage = "register"] /\ UNCHANGED peer
       ELSE /\ \E idle \in SUBSET Listed : ~IsConnected(<<PeerOf(c).host, ListenPort>>, idle)
            /\ conn' = [conn EXCEPT ![c].stage = "register", ![c].port = ListenPort]
            /\ peer' = [peer EXCEPT ![conn[c].peer].port = ListenPort]
    /\ UNCHANGED <<peersByAddress, list, seeder, stuck>>

\* SetConnected(true) and AddConnection.
Register(c) ==
    /\ conn[c].stage = "register"
    /\ conn' = [conn EXCEPT ![c].stage = "start"]
    /\ peer' = [peer EXCEPT ![conn[c].peer].connected = TRUE]
    /\ list' = Append(list, c)
    /\ UNCHANGED <<peersByAddress, seeder, stuck>>

\* SendSync of an outbound connection may throw; else the first header is read.
StartReading(c) ==
    /\ conn[c].stage = "start"
    /\ \/ conn' = [conn EXCEPT ![c].stage = "done", ![c].reading = TRUE]
       \/ conn[c].direction = "out" /\ conn' = [conn EXCEPT ![c].stage = "done", ![c].error = TRUE]
    /\ UNCHANGED <<peersByAddress, peer, list, seeder, stuck>>
-----------------------------------------------------------------------------
\* HandleReceivedHeader and HandleReceivedBody close the socket when the read failed or
\* when it is closed, and when what came is no header.
ReadFails(c) ==
    /\ stuck = 0 /\ conn[c].reading
    /\ conn' = [conn EXCEPT ![c].reading = FALSE, ![c].open = FALSE]
    /\ peer' = [peer EXCEPT ![conn[c].peer].connected = FALSE]
    /\ UNCHANGED <<peersByAddress, list, seeder, stuck>>

\* HandleReceivedBody holds the mutex while ProcessMessage handles the message: it may
\* ban the peer, or start the download of a TxHashSet, which reads by itself.
HandleReceivedBody(c) ==
    /\ stuck = 0 /\ conn[c].reading /\ conn[c].open
    /\ \/ UNCHANGED <<conn, peer>>
       \/ conn' = [conn EXCEPT ![c] = Banned(conn[c])] /\ peer' = BanPeer(c)
       \/ /\ \A d \in Conns : ~conn[d].download
          /\ conn' = [conn EXCEPT ![c].reading = FALSE, ![c].download = TRUE]
          /\ UNCHANGED peer
    /\ UNCHANGED <<peersByAddress, list, seeder, stuck>>

\* When ProcessMessage throws it disconnects, that is, it locks the mutex that its
\* caller holds: the thread waits for ever, or lock throws and the socket is closed.
DisconnectInside(c) ==
    /\ stuck = 0 /\ conn[c].reading /\ conn[c].open
    /\ \/ /\ stuck' = c
          /\ conn' = [conn EXCEPT ![c].reading = FALSE]
          /\ UNCHANGED peer
       \/ /\ conn' = [conn EXCEPT ![c].reading = FALSE, ![c].open = FALSE]
          /\ peer' = [peer EXCEPT ![conn[c].peer].connected = FALSE]
          /\ UNCHANGED stuck
    /\ UNCHANGED <<peersByAddress, list, seeder>>

\* Thread_ProcessTxHashSet is over.  Nothing reads from the connection any more.
EndDownload(c) ==
    /\ conn[c].download /\ MutexIsFree(c)
    /\ LET over == [conn[c] EXCEPT !.download = FALSE]
       IN  \/ conn' = [conn EXCEPT ![c] = over] /\ UNCHANGED peer
           \/ conn' = [conn EXCEPT ![c] = [over EXCEPT !.error = TRUE]] /\ UNCHANGED peer
           \/ conn' = [conn EXCEPT ![c] = Banned(over)] /\ peer' = BanPeer(c)
    /\ UNCHANGED <<peersByAddress, list, seeder, stuck>>

\* CheckPing bans a peer that sends too much; the pipes ban one that sent a bad block.
CheckPing(c) ==
    /\ c \in Listed /\ MutexIsFree(c) /\ SocketIsActive(c)
    /\ ~PeerOf(c).banned /\ peer' = BanPeer(c)
    /\ UNCHANGED <<peersByAddress, conn, list, seeder, stuck>>

\* ~Connection, when nobody refers to it any more.  It disconnects.
IsUnused(c) ==
    /\ conn[c].stage = "done" /\ ~conn[c].ended
    /\ c \notin Listed /\ ~(\E i \in DOMAIN seeder.doomed : seeder.doomed[i] = c)
    /\ ~conn[c].reading /\ ~conn[c].connecting /\ ~conn[c].download /\ stuck # c
Destroy(c) ==
    /\ IsUnused(c)
    /\ conn' = [conn EXCEPT ![c] = [NewConnection(conn[c].peer, "in", 0) EXCEPT
                                     !.stage = "done", !.open = FALSE, !.byBan = conn[c].byBan, !.ended = TRUE]]
    /\ peer' = PeersWithout(c)
    /\ UNCHANGED <<peersByAddress, list, seeder, stuck>>
-----------------------------------------------------------------------------
ConnectionsInit ==
    /\ peersByAddress = <<>> /\ peer = <<>> /\ conn = <<>> /\ list = <<>>
    /\ stuck = 0 /\ seeder = [doomed |-> <<>>, toAdd |-> 0]

SeederStep == Prune \/ PruneDisconnect \/ SeedNewConnection

ConnectStep(c) == ConnectOutbound(c) \/ HandshakeFails(c) \/ Handshake(c) \/ Register(c) \/ StartReading(c)

AsioStep(c) ==
    \/ HandleConnected(c) \/ ReadFails(c) \/ HandleReceivedBody(c)
    \/ DisconnectInside(c)

ConnectionsNext ==
    \/ \E h \in Hosts : \E port \in {0, ListenPort} : AddFreshPeers(<<h, port>>) \/ BanAddress(<<h, port>>)
    \/ \E h \in Hosts : BanHost(h) \/ Accept(h)
    \/ Unban \/ ManagePeers \/ SeederStep
    \/ \E c \in Conns :
         \/ ConnectStep(c) \/ AsioStep(c) \/ EndDownload(c)
         \/ CheckPing(c) \/ Destroy(c)

\* Thread_Seed goes on.
ConnectionsSpec == ConnectionsInit /\ [][ConnectionsNext]_connVars /\ WF_connVars(SeederStep)
-----------------------------------------------------------------------------
\* A Peer that counts as connected, which GetNewPeer therefore leaves out, has a
\* connection that will clear that mark: it is listed, about to be disconnected, or
\* read from; unless it was banned, when Disconnect does nothing any more
\* (Connection.cpp:39 and 337).
ConnectedHasConnection ==
    \A p \in DOMAIN peer : peer[p].connected =>
      \E c \in Conns :
        /\ conn[c].peer = p
        /\ \/ c \in Listed \/ \E i \in DOMAIN seeder.doomed : seeder.doomed[i] = c
           \/ conn[c].reading \/ conn[c].download
           \/ conn[c].byBan \/ IsUnused(c)

HasEnded(c) == c \in Conns /\ c \in Listed /\ (~SocketIsActive(c) \/ conn[c].terminate)
IsReleased(c) == c \in Conns /\ c \notin Listed /\ (~conn[c].open \/ conn[c].byBan)

\* A connection that has ended, by an error, a read or a ban, is taken off the list
\* and closed, unless the asio thread waits for a mutex that it holds.  One that
\* was banned only leaves the list (PruneConnections, Disconnect).
EndedAreReleased ==
    \A c \in 1..(MaxObjects - 1) : HasEnded(c) ~> (IsReleased(c) \/ stuck # 0)
=============================================================================
