--------------------------- MODULE MasternodeList ---------------------------
(***************************************************************************)
(* One masternode in the lists of a network of nodes                       *)
(* (src/src/masternode.cpp, masternodeman.cpp) and its own idea of itself  *)
(* (activemasternode.cpp).                                                 *)
(*                                                                         *)
(* The masternode announces itself with a signed broadcast ("mnb"), or its *)
(* owner does from another node, and from then on signs a ping ("mnp")     *)
(* every five minutes.  Every other node copies both, relays what was new  *)
(* to it, lets an entry expire that nobody pings, removes it later, and    *)
(* asks ("dseg") who pings a masternode it does not know.                  *)
(*                                                                         *)
(* A unit of time is five minutes; messages take less than that.  Ages are *)
(* kept in place of times.  A broadcast is a number, in the order of the   *)
(* times it was signed at; the age of its last ping is that of the copy    *)
(* (mapSeenMasternodeBroadcast), since a node serves what it has of it     *)
(* when it is asked.  Announcing an inventory, asking for it and answering *)
(* is one message.  Signatures are good, the collateral is old enough and  *)
(* stays unspent, every node runs the same protocol version.  The messages *)
(* "dsee" and "dseep" of an older protocol change nothing that is modelled *)
(* here for masternodes of this version.  Check is done whenever it comes  *)
(* up: where it does not get cs_main, or has been done within five         *)
(* seconds, the next one does it.                                          *)
(***************************************************************************)
EXTENDS MasternodeNetwork, Integers, FiniteSets

CONSTANTS
    Self,           \* the masternode
    Link,           \* who is connected with whom: a set of pairs of nodes
    Gap,            \* MASTERNODE_MIN_MNP_SECONDS - 60: 9 minutes
    Window,         \* the 60 minutes for which a ping is accepted
    Expiration,     \* MASTERNODE_EXPIRATION_SECONDS
    Removal,        \* MASTERNODE_REMOVAL_SECONDS
    Forgotten,      \* MASTERNODE_REMOVAL_SECONDS * 2
    AskAgain,       \* MASTERNODE_MIN_MNP_SECONDS, when asking for an entry
    MaxBroadcasts,  \* bound: broadcasts signed
    MaxRare         \* bound: faults and second starts by the owner

ASSUME MasternodeListAssumption ==
    /\ Self \in Node /\ Link \subseteq SUBSET Node
    /\ Gap \in Nat /\ Window \in Nat /\ Expiration \in Nat /\ Removal \in Nat
    /\ 0 < Gap /\ Gap <= Window /\ Window < Expiration /\ Expiration < Removal
    /\ Forgotten \in Nat /\ Removal < Forgotten /\ AskAgain \in Nat \ {0}
    /\ MaxBroadcasts \in Nat /\ MaxRare \in Nat

Broadcast == 1 .. MaxBroadcasts

VARIABLES
    owner,    \* whose wallet has the collateral
    mode,     \* of each node: "up", "asleep", "down", "behind" (chain not synced)
    man,      \* CMasternodeMan of each node, as far as it is about the masternode
    disk,     \* mncache.dat of each node
    known,    \* setInventoryKnown of each connection: broadcasts
    wire,     \* messages under way
    status,   \* CActiveMasternode::status
    vinSet,   \* activeMasternode.vin is the collateral
    managed,  \* ManageStatus has run in this unit of time
    made,     \* broadcasts signed so far
    old,      \* how many of them are five minutes old
    rare      \* faults and second starts so far

listVars == <<owner, mode, man, disk, known, wire, status, vinSet, managed, made, old, rare>>
active == <<status, vinSet, managed>>
signed == <<made, old>>

EntryType == [b : Broadcast, age : 0 .. Removal, state : {"ENABLED", "EXPIRED", "REMOVE"}]

ManType == [entry : EntryType \cup {None},                       \* in vMasternodes
            seen : [Broadcast -> (0 .. Forgotten + 1) \cup {None}],  \* age of its lastPing
            pings : SUBSET (0 .. Window - 1),                    \* mapSeenMasternodePing
            wait : 0 .. AskAgain]                      \* mWeAskedForMasternodeListEntry

EmptyMan == [entry |-> None, seen |-> [b \in Broadcast |-> None], pings |-> {}, wait |-> 0]

MessageType == [kind : {"mnb"}, from : Node, to : Node, what : Broadcast]
               \cup [kind : {"mnp"}, from : Node, to : Node, what : 0 .. Window - 1]
               \cup [kind : {"dseg"}, from : Node, to : Node, what : {0}]

\* The state is well formed: ages within their limits, no broadcast that nobody signed,
\* nothing left in memory of a node that stopped, and a started masternode knows its
\* collateral.
ListTypeOK ==
    /\ owner \in Node
    /\ mode \in [Node -> {"up", "asleep", "down", "behind"}]
    /\ man \in [Node -> ManType] /\ disk \in [Node -> ManType]
    /\ known \in [Node -> [Node -> SUBSET Broadcast]]
    /\ wire \subseteq MessageType
    /\ status \in {"INITIAL", "NOT_CAPABLE", "STARTED"}
    /\ vinSet \in BOOLEAN /\ managed \in BOOLEAN
    /\ made \in 0 .. MaxBroadcasts /\ old \in 0 .. made
    /\ rare \in 0 .. MaxRare
    /\ \A n \in Node : /\ \A b \in Broadcast : man[n].seen[b] # None => b <= made
                       /\ man[n].entry # None => man[n].entry.b <= made
                       /\ mode[n] = "down" => man[n] = EmptyMan
    /\ status = "STARTED" => vinSet

ListInit ==
    /\ owner \in Node
    /\ mode = [n \in Node |-> "up"]
    /\ man = [n \in Node |-> EmptyMan] /\ disk = [n \in Node |-> EmptyMan]
    /\ known = [n \in Node |-> [p \in Node |-> {}]]
    /\ wire = {}
    /\ status = "INITIAL" /\ vinSet = FALSE /\ managed = FALSE
    /\ made = 0 /\ old = 0 /\ rare = 0

-----------------------------------------------------------------------------
(* Messages.                                                               *)

Running(n) == mode[n] \in {"up", "behind"}
Peers(n) == {p \in Node \ {n} : {n, p} \in Link /\ Running(p)}
Message(kind, n, p, what) == [kind |-> kind, from |-> n, to |-> p, what |-> what]

\* CMasternodeBroadcast::Relay, CNode::PushInventory
Announce(n, b, to) ==
    {Message("mnb", n, p, b) : p \in {q \in Peers(n) \cap to : b \notin known[n][q]}}

\* CMasternodePing::Relay, but not to those who know it
RelayPing(n, age, except) == {Message("mnp", n, p, age) : p \in Peers(n) \ except}

\* Node n has handled the messages in, sent those in out, and is left with m.
Handled(n, m, in, out) ==
    /\ man' = [man EXCEPT ![n] = m]
    /\ wire' = (wire \ in) \cup out
    /\ known' = [known EXCEPT ![n] = [p \in Node |-> @[p] \cup
           {x.what : x \in {y \in in : y.kind = "mnb" /\ y.from = p}
                           \cup {y \in out : y.kind = "mnb" /\ y.to = p}}]]

-----------------------------------------------------------------------------
(* Entries and pings.                                                      *)

Enabled(m) == m.entry # None /\ m.entry.state = "ENABLED"

\* CMasternode::CMasternode, from a broadcast; CMasternodeMan::Add takes it
NewEntry(b, age) ==
    [b |-> b, age |-> IF age > Removal THEN Removal ELSE age, state |-> "ENABLED"]

\* Mutant: an expired entry stays.
Check_NeverRemoves(entry) ==
    [entry EXCEPT !.state = IF entry.age >= Expiration THEN "EXPIRED" ELSE "ENABLED"]

\* CMasternode::Check
Check(entry) ==
    [entry EXCEPT !.state = IF entry.age >= Removal THEN "REMOVE"
                            ELSE IF entry.age >= Expiration THEN "EXPIRED"
                            ELSE "ENABLED"]

\* CMasternodePing::CheckAndUpdate: whether a ping of this age is taken.
PingFits(entry, age) == age < Window /\ entry.age - age >= Gap

\* The copy of the broadcast gets the ping as well.
Pinged(m, age) ==
    [m EXCEPT !.entry.age = age,
              !.seen[m.entry.b] = IF @ = None THEN None ELSE age]

\* CMasternode::UpdateFromNewBroadcast, for one that is newer
UpdateFromNewBroadcast(m, b, age) ==
    LET renewed == [m EXCEPT !.entry.b = b] IN
    IF PingFits(m.entry, age)
    THEN [Pinged(renewed, age) EXCEPT !.entry = Check(@), !.pings = @ \cup {age}]
    ELSE renewed

\* Its ping is relayed before the broadcast is.
UpdateRelays(n, m, age) == IF PingFits(m.entry, age) THEN RelayPing(n, age, {}) ELSE {}

-----------------------------------------------------------------------------
(* The masternode and its owner.                                           *)

\* CActiveMasternode::Register: node n signs a broadcast with a ping.
Register(n, m) ==
    LET b == made + 1
        copied == [m EXCEPT !.seen[b] = 0, !.pings = @ \cup {0}]
    IN
    /\ made < MaxBroadcasts
    /\ made' = b
    /\ IF m.entry = None
       THEN Handled(n, [copied EXCEPT !.entry = NewEntry(b, 0)], {}, Announce(n, b, Node))
       ELSE Handled(n, UpdateFromNewBroadcast(copied, b, 0),
                    {}, UpdateRelays(n, m, 0) \cup Announce(n, b, Node))

\* CActiveMasternode::SendMasternodePing
SendMasternodePing(m) ==
    \/ /\ m.entry = None
       /\ status' = "NOT_CAPABLE"
       /\ Handled(Self, m, {}, {})
    \/ /\ m.entry # None /\ m.entry.age = 0  \* too early
       /\ status' = "STARTED"
       /\ Handled(Self, m, {}, {})
    \/ /\ m.entry # None /\ m.entry.age > 0
       /\ status' = "STARTED"
       /\ Handled(Self, [Pinged(m, 0) EXCEPT !.pings = @ \cup {0}], {}, RelayPing(Self, 0, {}))

\* CActiveMasternode::ManageStatus, every five minutes
ManageStatus ==
    LET looks == status = "INITIAL" /\ man[Self].entry # None
        m == IF looks THEN [man[Self] EXCEPT !.entry = Check(@)] ELSE man[Self]
        started == status = "STARTED" \/ (looks /\ Enabled(m))
    IN
    /\ mode[Self] = "up" /\ ~managed
    /\ managed' = TRUE
    /\ \/ /\ started
          /\ vinSet' = TRUE
          /\ SendMasternodePing(m)
          /\ UNCHANGED made
       \/ /\ ~started /\ owner = Self
          /\ status' = "STARTED" /\ vinSet' = TRUE
          /\ Register(Self, m)
       \/ /\ ~started /\ owner # Self  \* "waiting for remote activation"
          /\ status' = "NOT_CAPABLE"
          /\ Handled(Self, m, {}, {})
          /\ UNCHANGED <<vinSet, made>>
    /\ UNCHANGED <<owner, mode, disk, old, rare>>

\* The command startmasternode at the owner's node, which is another one.
StartMasternode ==
    /\ owner # Self /\ mode[owner] = "up"
    /\ made > 0 => rare < MaxRare
    /\ rare' = IF made > 0 THEN rare + 1 ELSE rare
    /\ Register(owner, man[owner])
    /\ UNCHANGED <<owner, mode, disk, active, old>>

-----------------------------------------------------------------------------
(* The handlers of CMasternodeMan::ProcessMessage.                         *)

\* The chain is not synced, the inventory is known already (AlreadyHave), or who
\* announced it has dropped it.
Ignored(x) ==
    LET n == x.to IN
    /\ \/ mode[n] = "behind"
       \/ /\ x.kind = "mnb"
          /\ (man[n].seen[x.what] # None \/ man[x.from].seen[x.what] = None)
       \/ /\ x.kind = "mnp"
          /\ x.what \in man[n].pings
    /\ Handled(n, man[n], {x}, {})
    /\ UNCHANGED <<owner, mode, disk, active, signed, rare>>

\* CMasternodeBroadcast::CheckAndUpdate: the entry is enabled and not of the last five
\* minutes.
Updates(m, b) == Enabled(m) /\ m.entry.b <= old /\ b > m.entry.b

\* The entry is of a later broadcast.
Outdated(m, b) == m.entry # None /\ m.entry.b > b

\* Mutant: the collateral is not noted.
EnableHotColdMasterNode_NoVin == status' = "STARTED" /\ UNCHANGED vinSet

EnableHotColdMasterNode == status' = "STARTED" /\ vinSet' = TRUE

\* "mnb", for a broadcast that is not older than the entry; cs_main is taken or not when
\* CheckInputsAndAdd tries it.
TakeBroadcast(x, mainTaken) ==
    LET n == x.to
        b == x.what
        age == man[x.from].seen[b]
        copied == [man[n] EXCEPT !.seen[b] = age]
        m == IF Updates(man[n], b)
             THEN [UpdateFromNewBroadcast(copied, b, age) EXCEPT !.entry = Check(@)]
             ELSE copied
        relayed == IF ~Updates(man[n], b) THEN {}
                   ELSE UpdateRelays(n, man[n], age)
                        \cup IF Enabled(m) THEN Announce(n, b, Node \ {x.from}) ELSE {}
        own == n = Self /\ vinSet
    IN
    /\ ~Outdated(man[n], b)
    /\ \/ /\ own \/ Enabled(m)
          /\ ~mainTaken
          /\ Handled(n, m, {x}, relayed)
          /\ UNCHANGED <<status, vinSet>>
       \/ /\ ~own /\ ~Enabled(m) /\ mainTaken
          /\ Handled(n, [m EXCEPT !.entry = None, !.seen[b] = None], {x}, relayed)
          /\ UNCHANGED <<status, vinSet>>
       \/ /\ ~own /\ ~Enabled(m) /\ ~mainTaken
          /\ Handled(n, [m EXCEPT !.entry = NewEntry(b, age)], {x},
                     relayed \cup Announce(n, b, Node \ {x.from}))
          /\ IF n = Self THEN EnableHotColdMasterNode ELSE UNCHANGED <<status, vinSet>>

ReceiveBroadcast(x) ==
    LET n == x.to
        age == man[x.from].seen[x.what]
    IN
    /\ x.kind = "mnb" /\ mode[n] = "up" /\ age # None /\ man[n].seen[x.what] = None
    /\ \/ /\ Outdated(man[n], x.what)
          /\ Handled(n, [man[n] EXCEPT !.seen[x.what] = age], {x}, {})
          /\ UNCHANGED <<status, vinSet, rare>>
       \/ /\ TakeBroadcast(x, FALSE)
          /\ UNCHANGED rare
       \/ /\ rare < MaxRare
          /\ TakeBroadcast(x, TRUE)
          /\ rare' = rare + 1
    /\ UNCHANGED <<owner, mode, disk, managed, signed>>

\* "mnp"; a ping that fits is refused when it names a block the receiver does not know.
ReceivePing(x) ==
    LET n == x.to
        heard == [man[n] EXCEPT !.pings = @ \cup {x.what}]
        fits == Enabled(heard) /\ PingFits(heard.entry, x.what)
    IN
    /\ x.kind = "mnp" /\ mode[n] = "up" /\ x.what \notin man[n].pings
    /\ \/ /\ fits
          /\ Handled(n, [Pinged(heard, x.what) EXCEPT !.entry = Check(@)],
                     {x}, RelayPing(n, x.what, {x.from}))
          /\ UNCHANGED rare
       \/ /\ fits /\ rare < MaxRare
          /\ Handled(n, heard, {x}, {})
          /\ rare' = rare + 1
       \/ /\ IF heard.entry = None THEN heard.wait > 0 ELSE ~fits
          /\ Handled(n, heard, {x}, {})
          /\ UNCHANGED rare
       \/ /\ heard.entry = None /\ heard.wait = 0  \* AskForMN
          /\ Handled(n, [heard EXCEPT !.wait = AskAgain],
                     {x}, {Message("dseg", n, p, 0) : p \in Peers(n) \cap {x.from}})
          /\ UNCHANGED rare
    /\ UNCHANGED <<owner, mode, disk, active, signed>>

\* "dseg", for the whole list or for this entry
ReceiveDseg(x) ==
    LET n == x.to
        m == man[n]
    IN
    /\ x.kind = "dseg" /\ mode[n] = "up"
    /\ IF Enabled(m)
       THEN Handled(n, [m EXCEPT !.seen[m.entry.b] = IF @ = None THEN m.entry.age ELSE @],
                    {x}, Announce(n, m.entry.b, {x.from}))
       ELSE Handled(n, m, {x}, {})
    /\ UNCHANGED <<owner, mode, disk, active, signed, rare>>

Receive(x) == Ignored(x) \/ ReceiveBroadcast(x) \/ ReceivePing(x) \/ ReceiveDseg(x)

-----------------------------------------------------------------------------
(* The list grows old.                                                     *)

\* Mutant: the copies of its broadcasts stay.
CheckAndRemove_KeepsCopies(m, forceExpiredRemoval) ==
    LET entry == IF m.entry = None THEN None ELSE Check(m.entry)
        removed == entry # None /\ entry.state \in {"REMOVE"} \cup
                       (IF forceExpiredRemoval THEN {"EXPIRED"} ELSE {})
    IN [m EXCEPT !.entry = IF removed THEN None ELSE entry]

\* CMasternodeMan::CheckAndRemove
CheckAndRemove(m, forceExpiredRemoval) ==
    LET entry == IF m.entry = None THEN None ELSE Check(m.entry)
        removed == /\ entry # None
                   /\ \/ entry.state = "REMOVE"
                      \/ forceExpiredRemoval /\ entry.state = "EXPIRED"
    IN
    IF removed
    THEN [EmptyMan EXCEPT !.pings = m.pings]
    ELSE [m EXCEPT !.entry = entry,
                   !.seen = [b \in Broadcast |->
                        IF @[b] # None /\ @[b] > Forgotten THEN None ELSE @[b]]]

\* Every minute, in the thread that calls ManageStatus.
Sweep(n) ==
    /\ mode[n] = "up"
    /\ CheckAndRemove(man[n], FALSE) # man[n]
    /\ man' = [man EXCEPT ![n] = CheckAndRemove(@, FALSE)]
    /\ UNCHANGED <<owner, mode, disk, known, wire, active, signed, rare>>

OneOlder(age, limit) == IF age < limit THEN age + 1 ELSE limit

AgedMan(m) ==
    [entry |-> IF m.entry = None THEN None ELSE [m.entry EXCEPT !.age = OneOlder(@, Removal)],
     seen |-> [b \in Broadcast |->
                  IF m.seen[b] = None THEN None ELSE OneOlder(m.seen[b], Forgotten + 1)],
     pings |-> {age + 1 : age \in m.pings} \cap 0 .. Window - 1,
     wait |-> IF m.wait = 0 THEN 0 ELSE m.wait - 1]

\* Five minutes pass: messages have arrived and the threads have done their work.
Tick ==
    /\ wire = {}
    /\ mode[Self] = "up" => managed
    /\ \A n \in Node : mode[n] = "up" => CheckAndRemove(man[n], FALSE) = man[n]
    /\ man' = [n \in Node |-> AgedMan(man[n])]
    /\ disk' = [n \in Node |-> AgedMan(disk[n])]
    /\ managed' = FALSE
    /\ old' = made
    /\ UNCHANGED <<owner, mode, known, wire, status, vinSet, made, rare>>

\* setInventoryKnown keeps the last thousand inventories of any kind.
Forget(n, p) ==
    /\ wire = {} /\ known[n][p] # {}
    /\ known' = [known EXCEPT ![n][p] = {}]
    /\ UNCHANGED <<owner, mode, man, disk, wire, active, signed, rare>>

-----------------------------------------------------------------------------
(* Nodes stop, sleep and come back.                                        *)

\* Connections of n are closed: what was under way on them is lost.
Disconnected(n) ==
    /\ wire' = {x \in wire : n \notin {x.from, x.to}}
    /\ known' = [p \in Node |-> [q \in Node |-> IF n \in {p, q} THEN {} ELSE known[p][q]]]

\* A shutdown, with DumpMasternodes, or a crash.
Stop(n, dumped) ==
    /\ Running(n) /\ rare < MaxRare
    /\ mode' = [mode EXCEPT ![n] = "down"]
    /\ disk' = IF dumped THEN [disk EXCEPT ![n] = man[n]] ELSE disk
    /\ man' = [man EXCEPT ![n] = EmptyMan]
    /\ Disconnected(n)
    /\ status' = IF n = Self THEN "INITIAL" ELSE status
    /\ vinSet' = (vinSet /\ n # Self)
    /\ managed' = (managed /\ n # Self)
    /\ rare' = rare + 1
    /\ UNCHANGED <<owner, signed>>

\* CMasternodeDB::Read with its cleaning
RestartNode(n) ==
    /\ mode[n] = "down"
    /\ mode' = [mode EXCEPT ![n] = "behind"]
    /\ man' = [man EXCEPT ![n] = CheckAndRemove(disk[n], TRUE)]
    /\ UNCHANGED <<owner, disk, known, wire, active, signed, rare>>

\* The machine sleeps: the node keeps its memory but not its connections.
Sleep(n) ==
    /\ Running(n) /\ rare < MaxRare
    /\ mode' = [mode EXCEPT ![n] = "asleep"]
    /\ Disconnected(n)
    /\ rare' = rare + 1
    /\ UNCHANGED <<owner, man, disk, active, signed>>

\* CMasternodeSync::IsBlockchainSynced finds that an hour is missing and starts over.
Wake(n) ==
    /\ mode[n] = "asleep"
    /\ mode' = [mode EXCEPT ![n] = "behind"]
    /\ UNCHANGED <<owner, man, disk, known, wire, active, signed, rare>>

\* The chain is synced.  The node asks a few peers for the list; those that it has asked
\* in the last three hours, by what either side remembers, take no part.
CatchUp(n) ==
    /\ mode[n] = "behind"
    /\ mode' = [mode EXCEPT ![n] = "up"]
    /\ \E asked \in SUBSET Peers(n) : wire' = wire \cup {Message("dseg", n, p, 0) : p \in asked}
    /\ UNCHANGED <<owner, man, disk, known, active, signed, rare>>

\* What goes on by itself; Tick waits for the rest.
Work ==
    \/ ManageStatus
    \/ \E x \in wire : Receive(x)
    \/ \E n \in Node : Sweep(n)
    \/ Tick

ComeBack(n) == Wake(n) \/ RestartNode(n) \/ CatchUp(n)
ForgetSome == \E n, p \in Node : Forget(n, p)

ListNext ==
    \/ Work
    \/ ForgetSome
    \/ StartMasternode
    \/ \E n \in Node : ComeBack(n) \/ Sleep(n) \/ \E dumped \in BOOLEAN : Stop(n, dumped)

ListSpec == ListInit /\ [][ListNext]_listVars

\* The masternode itself may stay away.
ListFairSpec ==
    /\ ListSpec
    /\ WF_listVars(Work) /\ SF_listVars(ForgetSome)
    /\ WF_listVars(\E n \in Node \ {Self} : ComeBack(n))

-----------------------------------------------------------------------------
(* Properties.                                                             *)

Listed(n) == mode[n] = "up" /\ Enabled(man[n])

\* A masternode that runs ends up enabled in every list and stays there, whatever was
\* lost before: lists, pings, broadcasts, answers or the entry of the masternode itself
\* (ManageStatus, AskForMN, CheckInputsAndAdd, the two refusals by age).  If its owner is
\* elsewhere, this holds as long as it takes itself for started.
ComesBack ==
    <>[](mode[Self] = "up" /\ (owner = Self \/ status = "STARTED"))
        => <>[](\A n \in Node : Listed(n))

\* A masternode that has gone leaves every list for good: no node gets it back from the
\* copies that others keep, relay and answer with (CheckAndRemove, "dseg").
LeavesLists ==
    <>[](mode[Self] # "up")
        => <>[](\A n \in Node \ {Self} : mode[n] = "up" /\ man[n].entry = None)
=============================================================================
