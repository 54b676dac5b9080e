-------------------------------- MODULE Spork --------------------------------
(***************************************************************************)
(* One of the network's switches (a "spork"): signed by the node that has  *)
(* the key, announced from peer to peer, kept in memory and in a database  *)
(* (src/src/spork.cpp, sporkdb.cpp; the inventory and the handshake are in *)
(* src/src/main.cpp).                                                      *)
(*                                                                         *)
(* The identifiers do not touch each other, so there is one, of those the  *)
(* handshake looks for in the database.  Every message carries a good      *)
(* signature.  One packet stands for "inv", "getdata" and "spork" with the *)
(* delays of AskFor: packets come in any order.  mapSporks is left out: a  *)
(* node that has the message there has an active one as new, and ignores   *)
(* it as well.  A connection that is closed takes its packets along.       *)
(*                                                                         *)
(* A message that is accepted is acted on and announced first and put into *)
(* the database afterwards.  That put may fail, and it is not synced.      *)
(***************************************************************************)
EXTENDS Integers, FiniteSets

CONSTANTS
    Node,
    Signer,       \* the node started with -sporkkey
    None,
    Dials,        \* bound: <<n, m>> where n may open a connection to m
    SyncPeers,    \* peers asked for sporks by a masternode sync: 3
    MaxTime,      \* bound: seconds
    MaxUpdates,   \* bound: "spork" commands
    MaxFaults     \* bound: crashes, closed connections, puts that fail or do not last

Time == 0 .. MaxTime
Message == [value : 1 .. MaxUpdates, time : Time]

ASSUME SporkAssumption ==
    /\ IsFiniteSet(Node) /\ Signer \in Node
    /\ Dials \subseteq Node \X Node
    /\ None \notin Message
    /\ SyncPeers \in Nat /\ MaxTime \in Nat /\ MaxUpdates \in Nat /\ MaxFaults \in Nat

VARIABLES
    clock,      \* GetTime() at the last signature
    up,         \* nodes that run
    active,     \* mapSporksActive
    writing,    \* per node, the message the message thread has announced and not yet put, or None
    db,         \* what the database answers
    disk,       \* what of it a loss of power would leave
    requested,  \* nodes whose fRequestedSporksIDB is set
    link,       \* connections, each as <<who opened it, to whom>>
    fulfilled,  \* per node, the peers it asked, sync or handshake, and that could hear it
    syncAsked,  \* per node, how many peers its masternode sync has asked
    wire,       \* what is on its way
    updates, faults,
    calm        \* last update made when nothing was to fail any more, or None

vars == <<clock, up, active, writing, db, disk, requested, link, fulfilled, syncAsked, wire,
          updates, faults, calm>>

Packet(n, m, msg) == [kind |-> "spork", from |-> n, to |-> m, msg |-> msg]
GetSporks(n, m) == [kind |-> "getsporks", from |-> n, to |-> m, msg |-> None]

PacketType == [kind : {"spork"}, from : Node, to : Node, msg : Message]
              \cup [kind : {"getsporks"}, from : Node, to : Node, msg : {None}]

TypeOK ==
    /\ clock \in Time /\ up \subseteq Node
    /\ active \in [Node -> Message \cup {None}] /\ writing \in [Node -> Message \cup {None}]
    /\ db \in [Node -> Message \cup {None}] /\ disk \in [Node -> Message \cup {None}]
    /\ requested \subseteq Node /\ link \subseteq Node \X Node
    /\ fulfilled \in [Node -> SUBSET Node] /\ syncAsked \in [Node -> 0 .. SyncPeers]
    /\ wire \subseteq PacketType
    /\ updates \in 0 .. MaxUpdates /\ faults \in 0 .. MaxFaults
    /\ calm \in Message \cup {None}

Linked(n, m) == <<n, m>> \in link \/ <<m, n>> \in link
Peers(n) == {m \in Node : Linked(n, m)}

\* For the mutants of the runs: only the very message is known.
NotNewer_Seen(n, msg) == active[n] = msg

\* mapSporksActive has one at least as new.
NotNewer(n, msg) == active[n] # None /\ active[n].time >= msg.time

Init ==
    /\ clock = 0 /\ up = Node
    /\ active = [n \in Node |-> None] /\ writing = [n \in Node |-> None]
    /\ db = [n \in Node |-> None] /\ disk = [n \in Node |-> None]
    /\ requested = {} /\ link = {}
    /\ fulfilled = [n \in Node |-> {}] /\ syncAsked = [n \in Node |-> 0]
    /\ wire = {}
    /\ updates = 0 /\ faults = 0 /\ calm = None

-----------------------------------------------------------------------------
(* The signer and the gossip.                                              *)

\* CSporkManager::Relay
Relay(n, msg, except) == {Packet(n, m, msg) : m \in Peers(n) \ except}

\* Nothing will fail any more, the nodes all run and reach each other, and no message
\* was signed at this time before.
Calm(time) ==
    /\ faults = MaxFaults /\ up = Node
    /\ \A n \in Node \ {Signer} : Linked(n, Signer) \/ \E m \in Peers(n) : Linked(m, Signer)
    /\ \A n \in Node : active[n] # None => active[n].time < time
    /\ \A p \in wire : p.msg # None => p.msg.time < time

\* CSporkManager::UpdateSpork, in a thread of its own: neither compared with the active one nor
\* written.
UpdateSpork(time) ==
    LET msg == [value |-> updates + 1, time |-> time] IN
    /\ Signer \in up
    /\ time >= clock /\ clock' = time
    /\ updates < MaxUpdates
    /\ updates' = updates + 1
    /\ active' = [active EXCEPT ![Signer] = msg]
    /\ wire' = wire \cup Relay(Signer, msg, {})
    /\ calm' = (IF Calm(time) THEN msg ELSE calm)
    /\ UNCHANGED <<up, writing, db, disk, requested, link, fulfilled, syncAsked, faults>>

\* For the mutants of the runs: accepted and not announced.
Accept_Silent(n, p) ==
    /\ active' = [active EXCEPT ![n] = p.msg]
    /\ wire' = wire \ {p}
    /\ writing' = [writing EXCEPT ![n] = p.msg]

\* Relayed to all but the sender, whose inventory has it.  The put comes next.
Accept(n, p) ==
    /\ active' = [active EXCEPT ![n] = p.msg]
    /\ wire' = (wire \ {p}) \cup Relay(n, p.msg, {p.from})
    /\ writing' = [writing EXCEPT ![n] = p.msg]

\* One thread handles the messages of all peers, and is through with the one before.
Free(n) == writing[n] = None

\* ProcessSpork
ReceiveSpork(p) ==
    /\ p \in wire /\ p.kind = "spork"
    /\ Free(p.to)
    /\ \/ ~NotNewer(p.to, p.msg) /\ Accept(p.to, p)
       \/ /\ NotNewer(p.to, p.msg)
          /\ wire' = wire \ {p}
          /\ UNCHANGED <<active, writing>>
    /\ UNCHANGED <<clock, up, db, disk, requested, link, fulfilled, syncAsked, updates, faults,
                   calm>>

\* The end of ProcessSpork.  A put that fails throws, and the message counts as handled.  One that
\* does not is on disk before the power goes, or it is not.
WriteSpork(n) ==
    /\ writing[n] # None
    /\ writing' = [writing EXCEPT ![n] = None]
    /\ \/ /\ db' = [db EXCEPT ![n] = writing[n]]
          /\ disk' = [disk EXCEPT ![n] = writing[n]]
          /\ UNCHANGED faults
       \/ /\ faults < MaxFaults /\ faults' = faults + 1
          /\ db' = [db EXCEPT ![n] = writing[n]] \/ UNCHANGED db
          /\ UNCHANGED disk
    /\ UNCHANGED <<clock, up, active, requested, link, fulfilled, syncAsked, wire, updates, calm>>

ReceiveGetSporks(p) ==
    /\ p \in wire /\ p.kind = "getsporks"
    /\ Free(p.to)
    /\ wire' = (wire \ {p}) \cup
         (IF active[p.to] = None THEN {} ELSE {Packet(p.to, p.from, active[p.to])})
    /\ UNCHANGED <<clock, up, active, writing, db, disk, requested, link, fulfilled, syncAsked,
                   updates, faults, calm>>

-----------------------------------------------------------------------------
(* Connections.                                                            *)

\* What either side of a handshake asks for when the "version" of the other comes.  (The code
\* looks for three identifiers, and asks again only where it has none of them.)
Asks(n) == db[n] = None \/ n \notin requested

(***************************************************************************)
(* n opens a connection to m.  The "version" of n comes first: m answers   *)
(* with "getsporks" and only then with its own "version", and n drops a    *)
(* message that comes before it.  The "getsporks" of n is heard.           *)
(***************************************************************************)
Connect(n, m) ==
    /\ <<n, m>> \in Dials /\ n # m /\ {n, m} \subseteq up /\ ~Linked(n, m)
    /\ Free(n) /\ Free(m)
    /\ link' = link \cup {<<n, m>>}
    /\ requested' = requested \cup {n, m}
    /\ wire' = wire \cup (IF Asks(n) THEN {GetSporks(n, m)} ELSE {})
    /\ fulfilled' = [fulfilled EXCEPT ![n] = IF Asks(n) THEN @ \cup {m} ELSE @]
    /\ UNCHANGED <<clock, up, active, writing, db, disk, syncAsked, updates, faults, calm>>

\* For the mutants of the runs: one peer too many.
SyncOpen_OffByOne(n) == syncAsked[n] <= SyncPeers

SyncOpen(n) == syncAsked[n] < SyncPeers

\* CMasternodeSync asks the first three peers, once each (MasternodeSync.AskSporks).
SyncAsks(n, m) ==
    /\ Linked(n, m) /\ m \notin fulfilled[n]
    /\ SyncOpen(n)
    /\ syncAsked' = [syncAsked EXCEPT ![n] = @ + 1]
    /\ fulfilled' = [fulfilled EXCEPT ![n] = @ \cup {m}]
    /\ wire' = wire \cup {GetSporks(n, m)}
    /\ UNCHANGED <<clock, up, active, writing, db, disk, requested, link, updates, faults, calm>>

Between(p, n, m) == {p.from, p.to} = {n, m}

Disconnect(n, m) ==
    /\ <<n, m>> \in link
    /\ faults < MaxFaults /\ faults' = faults + 1
    /\ link' = link \ {<<n, m>>}
    /\ wire' = {p \in wire : ~Between(p, n, m)}
    /\ fulfilled' = [fulfilled EXCEPT ![n] = @ \ {m}, ![m] = @ \ {n}]
    /\ UNCHANGED <<clock, up, active, writing, db, disk, requested, syncAsked, updates, calm>>

\* The process is gone, or the machine without power.
Crash(n) ==
    /\ n \in up
    /\ faults < MaxFaults /\ faults' = faults + 1
    /\ up' = up \ {n}
    /\ link' = {l \in link : n \notin {l[1], l[2]}}
    /\ wire' = {p \in wire : n \notin {p.from, p.to}}
    /\ fulfilled' = [m \in Node |-> IF m = n THEN {} ELSE fulfilled[m] \ {n}]
    /\ active' = [active EXCEPT ![n] = None]
    /\ writing' = [writing EXCEPT ![n] = None]
    /\ \/ UNCHANGED db
       \/ db' = [db EXCEPT ![n] = disk[n]]
    /\ requested' = requested \ {n}
    /\ syncAsked' = [syncAsked EXCEPT ![n] = 0]
    /\ UNCHANGED <<clock, disk, updates, calm>>

\* LoadSporksFromDB
Restart(n) ==
    /\ n \notin up
    /\ up' = up \cup {n}
    /\ active' = [active EXCEPT ![n] = db[n]]
    /\ UNCHANGED <<clock, writing, db, disk, requested, link, fulfilled, syncAsked, wire, updates,
                   faults, calm>>

-----------------------------------------------------------------------------
Next ==
    \/ \E time \in Time : UpdateSpork(time)
    \/ \E p \in wire : ReceiveSpork(p) \/ ReceiveGetSporks(p)
    \/ \E n, m \in Node : Connect(n, m) \/ SyncAsks(n, m) \/ Disconnect(n, m)
    \/ \E n \in Node : WriteSpork(n) \/ Crash(n) \/ Restart(n)

Spec == Init /\ [][Next]_vars

\* The message thread works off what has come.
FairSpec ==
    /\ Spec
    /\ WF_vars(\/ \E p \in wire : ReceiveSpork(p) \/ ReceiveGetSporks(p)
               \/ \E n \in Node : WriteSpork(n))

-----------------------------------------------------------------------------
AsNew(msg, old) == old # None => msg # None /\ msg.time >= old.time

(* No node but the signer falls back to an older switch while it runs,     *)
(* whatever comes late or twice.  A restart takes it back no further than  *)
(* what has reached the disk, and that is never replaced by anything       *)
(* older, though the switch is announced before it is written and a put    *)
(* may fail or be lost.  (The signer does not write its own update.)       *)
NeverOlder ==
    [][\A n \in Node \ {Signer} :
         /\ n \in up \cap up' => AsNew(active'[n], active[n])
         /\ n \in up' \ up => AsNew(active'[n], disk[n])
         /\ AsNew(disk'[n], disk[n])]_vars

(* Whoever has asked a peer for its sporks over a connection that is still *)
(* open is as new as that peer, or what it lacks is on its way.            *)
NothingMissed ==
    \A n \in Node : \A m \in fulfilled[n] :
        active[m] # None =>
            \/ NotNewer(n, active[m])
            \/ GetSporks(n, m) \in wire
            \/ Packet(m, n, active[m]) \in wire

(* An update made once nothing fails any more reaches every node, or one   *)
(* that is as new does, also over connections on which nobody asked.  (Of  *)
(* two updates in one second a node may keep either.)                      *)
UpdateReaches ==
    \A msg \in Message : calm = msg ~> \A n \in Node : NotNewer(n, msg)
=============================================================================
