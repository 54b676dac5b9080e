------------------------------ MODULE SporkProofs ------------------------------
(***************************************************************************)
(* Theorems about Spork, for any network and any number of updates, faults *)
(* and messages in any order.                                              *)
(*                                                                         *)
(* A connection that closes takes its packets and the memory of what was   *)
(* asked over it along.  So a packet always comes from a node that is at   *)
(* least as new, and a node that asked hears of whatever the other takes:  *)
(* it is relayed to everyone but the one it came from, who has it.         *)
(***************************************************************************)
EXTENDS Spork, TLAPS

LinksAreUp == link \subseteq up \X up
AskedOverLinks == \A n \in Node : fulfilled[n] \subseteq Peers(n)
SentOverLinks == \A p \in wire : Linked(p.from, p.to)
SendersAreAsNew == \A p \in wire : p.kind = "spork" => NotNewer(p.from, p.msg)
ClockIsLast == \A n \in Node : \A msg \in {active[n], writing[n], db[n], disk[n]} :
                 msg # None => msg.time <= clock
\* What is put is what was accepted last, and neither the database nor the disk is ahead.
Stored == \A n \in Node \ {Signer} :
            /\ AsNew(db[n], disk[n])
            /\ n \in up => AsNew(active[n], db[n])
            /\ writing[n] # None => n \in up /\ writing[n] = active[n]

IInv ==
    /\ TypeOK
    /\ LinksAreUp /\ AskedOverLinks /\ SentOverLinks
    /\ SendersAreAsNew /\ ClockIsLast /\ Stored
    /\ NothingMissed

-----------------------------------------------------------------------------
(* Packets.                                                                *)

LEMMA MessageHolds ==
  ASSUME NEW msg \in Message
  PROVE  msg # None /\ msg.time \in Nat /\ msg.time \in Time
BY SporkAssumption DEF Message, Time

LEMMA PacketHolds ==
  ASSUME TypeOK, NEW p \in wire
  PROVE  /\ p.from \in Node /\ p.to \in Node
         /\ p.kind = "spork" => p.msg \in Message /\ p = Packet(p.from, p.to, p.msg)
         /\ p.kind # "spork" => p.kind = "getsporks" /\ p = GetSporks(p.from, p.to)
<1>1. p \in PacketType
  BY DEF TypeOK
<1>2. CASE p \in [kind : {"spork"}, from : Node, to : Node, msg : Message]
  BY <1>2 DEF Packet
<1>3. CASE p \in [kind : {"getsporks"}, from : Node, to : Node, msg : {None}]
  BY <1>3 DEF GetSporks
<1> QED
  BY <1>1, <1>2, <1>3 DEF PacketType

LEMMA MadePackets ==
  ASSUME NEW n \in Node, NEW m \in Node, NEW msg \in Message
  PROVE  /\ Packet(n, m, msg) \in PacketType /\ GetSporks(n, m) \in PacketType
         /\ Packet(n, m, msg).from = n /\ Packet(n, m, msg).to = m
         /\ Packet(n, m, msg).msg = msg /\ Packet(n, m, msg).kind = "spork"
         /\ GetSporks(n, m).from = n /\ GetSporks(n, m).to = m /\ GetSporks(n, m).kind = "getsporks"
BY DEF Packet, GetSporks, PacketType

LEMMA Relayed ==
  ASSUME NEW n \in Node, NEW msg \in Message, NEW except
  PROVE  /\ Relay(n, msg, except) \subseteq PacketType
         /\ \A p \in Relay(n, msg, except) :
               p.from = n /\ Linked(p.from, p.to) /\ p.msg = msg /\ p.kind = "spork"
         /\ \A m \in Node : Linked(n, m) /\ m \notin except => Packet(n, m, msg) \in Relay(n, msg, except)
<1>1. \A m \in Peers(n) : m \in Node /\ Linked(n, m)
  BY DEF Peers
<1> QED
  BY <1>1, MadePackets DEF Relay, Peers

LEMMA GetSporksHolds ==
  ASSUME NEW n \in Node, NEW m \in Node
  PROVE  /\ GetSporks(n, m) \in PacketType
         /\ GetSporks(n, m).from = n /\ GetSporks(n, m).to = m /\ GetSporks(n, m).kind = "getsporks"
BY DEF GetSporks, PacketType

-----------------------------------------------------------------------------
LEMMA InitInv == Init => IInv
<1> SUFFICES ASSUME Init  PROVE IInv
  OBVIOUS
<1>1. TypeOK
  BY SporkAssumption DEF Init, TypeOK, Time
<1> QED
  BY <1>1
  DEF Init, IInv, LinksAreUp, AskedOverLinks, SentOverLinks, SendersAreAsNew, ClockIsLast, Stored,
      NothingMissed, AsNew

\* The signer's update is the newest of all, and goes to all its peers.
LEMMA UpdateSporkInv ==
  ASSUME IInv, NEW time \in Time, UpdateSpork(time)
  PROVE  IInv'
<1> DEFINE msg == [value |-> updates + 1, time |-> time]
<1>1. /\ Signer \in up /\ time >= clock /\ clock' = time /\ updates < MaxUpdates /\ updates' = updates + 1
      /\ active' = [active EXCEPT ![Signer] = msg]
      /\ wire' = wire \cup Relay(Signer, msg, {}) /\ calm' \in {msg, calm}
      /\ UNCHANGED <<up, writing, db, disk, requested, link, fulfilled, syncAsked, faults>>
  BY DEF UpdateSpork
<1>2. TypeOK /\ Signer \in Node /\ updates' \in 1 .. MaxUpdates /\ msg \in Message
      /\ msg.time = time /\ clock \in Nat /\ time \in Nat
  BY <1>1, SporkAssumption DEF IInv, TypeOK, Message, Time
<1> HIDE DEF msg
<1>3. \A n \in Node : active'[n] = IF n = Signer THEN msg ELSE active[n]
  BY <1>1, <1>2 DEF TypeOK
<1>4. /\ Relay(Signer, msg, {}) \subseteq PacketType
      /\ \A p \in Relay(Signer, msg, {}) :
            p.from = Signer /\ Linked(p.from, p.to) /\ p.msg = msg /\ p.kind = "spork"
      /\ \A m \in Node : Linked(Signer, m) => Packet(Signer, m, msg) \in Relay(Signer, msg, {})
  BY <1>2, Relayed
<1>5. \A n \in Node : active[n] # None => active[n].time \in Nat /\ active[n].time <= clock
  BY <1>2, MessageHolds DEF IInv, ClockIsLast, TypeOK
<1>6. msg # None
  BY <1>2, MessageHolds
\* Whatever the signer was as new as, it still is.
<1>7. ASSUME NEW n \in Node, NEW old \in Message, NotNewer(n, old), old.time <= clock
      PROVE  NotNewer(n, old)'
  <2>1. old.time \in Nat
    BY <1>7, MessageHolds
  <2> QED
    BY <2>1, <1>1, <1>2, <1>3, <1>6, <1>7 DEF NotNewer
<1>8. TypeOK'
  BY <1>1, <1>2, <1>4 DEF TypeOK
<1>9. LinksAreUp' /\ AskedOverLinks' /\ SentOverLinks' /\ Stored'
  BY <1>1, <1>3, <1>4 DEF IInv, LinksAreUp, AskedOverLinks, SentOverLinks, Stored, Peers, Linked, TypeOK
<1>10. SendersAreAsNew'
  <2> SUFFICES ASSUME NEW p \in wire', p.kind = "spork"  PROVE NotNewer(p.from, p.msg)'
    BY DEF SendersAreAsNew
  <2>1. CASE p \in wire
    <3>1. p.from \in Node /\ p.msg \in Message /\ NotNewer(p.from, p.msg)
      BY <2>1, <1>2, PacketHolds DEF IInv, SendersAreAsNew
    <3>2. p.msg.time <= clock
      BY <3>1, <1>2, <1>5, MessageHolds DEF NotNewer
    <3> QED
      BY <3>1, <3>2, <1>7
  <2>2. CASE p \in Relay(Signer, msg, {})
    BY <2>2, <1>2, <1>3, <1>4, <1>6 DEF NotNewer
  <2> QED
    BY <2>1, <2>2, <1>1
<1>11. ClockIsLast'
  <2> SUFFICES ASSUME NEW n \in Node, NEW old \in {active'[n], writing[n], db[n], disk[n]},
                      old # None
               PROVE  old.time <= time
    BY <1>1 DEF ClockIsLast
  <2>1. CASE n = Signer /\ old = active'[n]
    BY <2>1, <1>2, <1>3
  <2>2. CASE old \in {active[n], writing[n], db[n], disk[n]}
    <3>1. old \in Message /\ old.time <= clock
      BY <2>2, <1>2 DEF IInv, ClockIsLast, TypeOK
    <3> QED
      BY <3>1, <1>1, <1>2, MessageHolds
  <2> QED
    BY <2>1, <2>2, <1>3
<1>12. NothingMissed'
  <2> SUFFICES ASSUME NEW n \in Node, NEW m \in fulfilled[n], active'[m] # None
               PROVE  \/ NotNewer(n, active[m])'
                      \/ GetSporks(n, m) \in wire' \/ Packet(m, n, active'[m]) \in wire'
    BY <1>1 DEF NothingMissed
  <2>1. m \in Node /\ Linked(m, n)
    BY DEF IInv, AskedOverLinks, Peers, Linked
  <2>2. CASE m = Signer
    BY <2>1, <2>2, <1>1, <1>3, <1>4
  <2>3. CASE m # Signer
    <3>1. active'[m] = active[m] /\ active[m] \in Message
      BY <2>1, <2>3, <1>2, <1>3 DEF TypeOK
    <3>2. active[m].time <= clock
      BY <2>1, <3>1, <1>5
    <3>3. NotNewer(n, active[m]) => NotNewer(n, active[m])'
      BY <3>1, <3>2, <1>7 DEF NotNewer
    <3> QED
      BY <3>1, <3>3, <1>1 DEF IInv, NothingMissed
  <2> QED
    BY <2>2, <2>3
<1> QED
  BY <1>8, <1>9, <1>10, <1>11, <1>12 DEF IInv

\* A newer message is taken and told to everybody else, and is to be put.
LEMMA AcceptInv ==
  ASSUME IInv, NEW p \in wire, p.kind = "spork", ~NotNewer(p.to, p.msg), Accept(p.to, p),
         UNCHANGED <<clock, up, db, disk, requested, link, fulfilled, syncAsked, updates, faults,
                     calm>>
  PROVE  IInv'
<1> DEFINE k == p.to
           msg == p.msg
<1>1. /\ active' = [active EXCEPT ![k] = msg] /\ writing' = [writing EXCEPT ![k] = msg]
      /\ wire' = (wire \ {p}) \cup Relay(k, msg, {p.from})
  BY DEF Accept
<1>2. /\ TypeOK /\ k \in Node /\ p.from \in Node /\ msg \in Message /\ msg # None /\ msg.time \in Nat
      /\ p = Packet(p.from, k, msg)
      /\ NotNewer(p.from, msg) /\ ~NotNewer(k, msg) /\ p.from # k
  BY PacketHolds, MessageHolds DEF IInv, SendersAreAsNew
<1> HIDE DEF k, msg
<1>3. \A n \in Node : /\ active'[n] = IF n = k THEN msg ELSE active[n]
                      /\ writing'[n] = IF n = k THEN msg ELSE writing[n]
  BY <1>1, <1>2 DEF TypeOK
<1>4. /\ Relay(k, msg, {p.from}) \subseteq PacketType
      /\ \A q \in Relay(k, msg, {p.from}) :
            q.from = k /\ Linked(q.from, q.to) /\ q.msg = msg /\ q.kind = "spork"
      /\ \A m \in Node : Linked(k, m) /\ m # p.from => Packet(k, m, msg) \in Relay(k, msg, {p.from})
  BY <1>2, Relayed
<1>5. \A n \in Node : active[n] # None => active[n].time \in Nat /\ active[n].time <= clock
  BY <1>2, MessageHolds DEF IInv, ClockIsLast, TypeOK
<1>6. clock \in Nat /\ msg.time <= clock
  BY <1>2, <1>5 DEF NotNewer, TypeOK, Time
<1>7. ASSUME NEW n \in Node, NEW old \in Message, NotNewer(n, old)  PROVE NotNewer(n, old)'
  <2>1. old.time \in Nat
    BY <1>7, MessageHolds
  <2>2. CASE n = k
    <3>1. active[k] # None /\ active[k].time >= old.time /\ active[k].time \in Nat
      BY <2>2, <1>2, <1>5, <1>7 DEF NotNewer
    <3>2. msg.time > active[k].time
      BY <3>1, <1>2 DEF NotNewer
    <3> QED
      BY <2>1, <2>2, <3>1, <3>2, <1>2, <1>3 DEF NotNewer
  <2>3. CASE n # k
    BY <2>3, <1>3, <1>7 DEF NotNewer
  <2> QED
    BY <2>2, <2>3
<1>8. NotNewer(k, msg)'
  BY <1>2, <1>3 DEF NotNewer
<1>9. TypeOK'
  BY <1>1, <1>2, <1>4 DEF TypeOK
<1>10. LinksAreUp' /\ AskedOverLinks' /\ SentOverLinks' /\ Stored'
  <2>1. LinksAreUp' /\ AskedOverLinks' /\ SentOverLinks'
    BY <1>1, <1>4 DEF IInv, LinksAreUp, AskedOverLinks, SentOverLinks, Peers, Linked
  <2>2. k \in up
    BY <1>2 DEF IInv, SentOverLinks, LinksAreUp, Linked, k
  <2>3. ASSUME k # Signer  PROVE AsNew(msg, db[k])
    <3>1. db[k] \in Message \cup {None} /\ AsNew(active[k], db[k])
      BY <1>2, <2>2, <2>3 DEF IInv, Stored, TypeOK
    <3> QED
      BY <3>1, <1>2, <1>5, MessageHolds DEF AsNew, NotNewer
  <2>4. Stored'
    BY <1>3, <2>2, <2>3 DEF IInv, Stored, AsNew
  <2> QED
    BY <2>1, <2>4
<1>11. SendersAreAsNew'
  <2> SUFFICES ASSUME NEW q \in wire', q.kind = "spork"  PROVE NotNewer(q.from, q.msg)'
    BY DEF SendersAreAsNew
  <2>1. CASE q \in wire
    BY <2>1, <1>2, <1>7, PacketHolds DEF IInv, SendersAreAsNew
  <2>2. CASE q \in Relay(k, msg, {p.from})
    BY <2>2, <1>4, <1>8
  <2> QED
    BY <2>1, <2>2, <1>1
<1>12. ClockIsLast'
  BY <1>3, <1>6 DEF IInv, ClockIsLast
<1>13. NothingMissed'
  <2> SUFFICES ASSUME NEW n \in Node, NEW m \in fulfilled[n], active'[m] # None
               PROVE  \/ NotNewer(n, active[m])'
                      \/ GetSporks(n, m) \in wire' \/ Packet(m, n, active'[m]) \in wire'
    BY DEF NothingMissed
  <2>1. m \in Node /\ Linked(m, n)
    BY DEF IInv, AskedOverLinks, Peers, Linked
  <2>2. CASE m = k
    <3>1. active'[m] = msg /\ NotNewer(p.from, msg)'
      BY <2>2, <1>2, <1>3, <1>7
    <3>2. CASE n = p.from
      BY <3>1, <3>2, <2>2 DEF NotNewer
    <3>3. CASE n # p.from
      BY <3>1, <3>3, <2>1, <2>2, <1>1, <1>4
    <3> QED
      BY <3>2, <3>3
  <2>3. CASE m # k
    <3>1. active'[m] = active[m] /\ active[m] \in Message
      BY <2>1, <2>3, <1>2, <1>3 DEF TypeOK
    <3>2. NotNewer(n, active[m]) => NotNewer(n, active[m])'
      BY <3>1, <1>7 DEF NotNewer
    <3>3. GetSporks(n, m) # p
      BY <2>1, GetSporksHolds
    <3>4. Packet(m, n, active[m]) = p => n = k /\ active[m] = msg
      BY <2>1, <3>1, MadePackets DEF k, msg
    <3>5. Packet(m, n, active[m]) = p => NotNewer(n, active[m])'
      BY <3>1, <3>4, <1>8 DEF NotNewer
    <3> QED
      BY <3>1, <3>2, <3>3, <3>5, <1>1 DEF IInv, NothingMissed
  <2> QED
    BY <2>2, <2>3
<1> QED
  BY <1>9, <1>10, <1>11, <1>12, <1>13 DEF IInv

\* Steps that leave the switches and the nodes alone: packets come and go on connections, more
\* peers may be asked, and what may be lost is no longer needed.
LEMMA TalkInv ==
  ASSUME IInv, UNCHANGED <<clock, up, active, writing, db, disk, updates, faults, calm>>,
         requested' \subseteq Node, link \subseteq link', link' \subseteq up \X up,
         syncAsked' \in [Node -> 0 .. SyncPeers],
         fulfilled' \in [Node -> SUBSET Node], wire' \subseteq PacketType,
         \A n \in Node : \A m \in fulfilled'[n] \ fulfilled[n] :
            Linked(n, m)' /\ GetSporks(n, m) \in wire',
         \A p \in wire' \ wire :
            Linked(p.from, p.to)' /\ (p.kind = "spork" => NotNewer(p.from, p.msg)),
         \A p \in wire \ wire' :
            \/ p.kind = "spork" /\ NotNewer(p.to, p.msg)
            \/ /\ p.kind = "getsporks"
               /\ active[p.to] # None => Packet(p.to, p.from, active[p.to]) \in wire'
  PROVE  IInv'
<1>1. TypeOK
  BY DEF IInv
<1>2. \A n, m \in Node : Linked(n, m) => Linked(n, m)'
  BY DEF Linked
<1>3. TypeOK'
  BY <1>1 DEF TypeOK
<1>4. LinksAreUp' /\ ClockIsLast' /\ Stored'
  BY DEF IInv, LinksAreUp, ClockIsLast, Stored, AsNew
<1>5. AskedOverLinks'
  <2> SUFFICES ASSUME NEW n \in Node, NEW m \in fulfilled'[n]  PROVE m \in Peers(n)'
    BY DEF AskedOverLinks
  <2>1. m \in Node
    BY <1>3 DEF TypeOK
  <2>2. m \in fulfilled[n] => Linked(n, m)
    BY DEF IInv, AskedOverLinks, Peers
  <2> QED
    BY <2>1, <2>2, <1>2 DEF Peers
<1>6. SentOverLinks' /\ SendersAreAsNew'
  <2> SUFFICES ASSUME NEW p \in wire'
               PROVE  Linked(p.from, p.to)' /\ (p.kind = "spork" => NotNewer(p.from, p.msg)')
    BY DEF SentOverLinks, SendersAreAsNew
  <2>1. CASE p \in wire
    BY <2>1, <1>1, <1>2, PacketHolds DEF IInv, SentOverLinks, SendersAreAsNew, NotNewer
  <2> QED
    BY <2>1 DEF NotNewer
<1>7. NothingMissed'
  <2> SUFFICES ASSUME NEW n \in Node, NEW m \in fulfilled'[n], active[m] # None
               PROVE  \/ NotNewer(n, active[m])
                      \/ GetSporks(n, m) \in wire' \/ Packet(m, n, active[m]) \in wire'
    BY DEF NothingMissed, NotNewer
  <2>1. CASE m \in fulfilled[n]
    <3>1. m \in Node /\ active[m] \in Message
      BY <2>1, <1>1 DEF TypeOK
    <3>2. NotNewer(n, active[m]) \/ GetSporks(n, m) \in wire \/ Packet(m, n, active[m]) \in wire
      BY <2>1 DEF IInv, NothingMissed
    <3>3. CASE GetSporks(n, m) \in wire \ wire'
      BY <3>1, <3>3, GetSporksHolds
    <3>4. CASE Packet(m, n, active[m]) \in wire \ wire'
      <4>1. PICK q : q = Packet(m, n, active[m])
        OBVIOUS
      <4>2. q.to = n /\ q.msg = active[m] /\ q.kind = "spork" /\ q \in wire \ wire'
        BY <3>1, <3>4, <4>1, MadePackets
      <4> QED
        BY <4>2 DEF NotNewer
    <3> QED
      BY <3>2, <3>3, <3>4
  <2> QED
    BY <2>1
<1> QED
  BY <1>3, <1>4, <1>5, <1>6, <1>7 DEF IInv

LEMMA ReceiveSporkInv ==
  ASSUME IInv, NEW p \in wire, ReceiveSpork(p)
  PROVE  IInv'
<1>1. CASE NotNewer(p.to, p.msg)
  <2>1. /\ p.kind = "spork" /\ wire' = wire \ {p}
        /\ UNCHANGED <<clock, up, active, writing, db, disk, requested, link, fulfilled, syncAsked,
                       updates, faults, calm>>
    BY <1>1 DEF ReceiveSpork
  <2>2. /\ requested' \subseteq Node /\ link' \subseteq up \X up /\ wire' \subseteq PacketType
        /\ syncAsked' \in [Node -> 0 .. SyncPeers] /\ fulfilled' \in [Node -> SUBSET Node]
    BY <2>1 DEF IInv, TypeOK, LinksAreUp
  <2> QED
    BY <1>1, <2>1, <2>2, TalkInv
<1>2. CASE ~NotNewer(p.to, p.msg)
  BY <1>2, AcceptInv DEF ReceiveSpork
<1> QED
  BY <1>1, <1>2

\* What is put is as new as all that was put before, so neither the database nor the disk
\* goes back, whichever of the three the put does.
LEMMA WriteSporkInv ==
  ASSUME IInv, NEW k \in Node, WriteSpork(k)
  PROVE  IInv'
<1>1. /\ writing[k] # None /\ writing' = [writing EXCEPT ![k] = None]
      /\ db' = db \/ db' = [db EXCEPT ![k] = writing[k]]
      /\ disk' = disk \/ (disk' = [disk EXCEPT ![k] = writing[k]] /\ db' = [db EXCEPT ![k] = writing[k]])
      /\ faults' = faults \/ (faults < MaxFaults /\ faults' = faults + 1)
      /\ UNCHANGED <<clock, up, active, requested, link, fulfilled, syncAsked, wire, updates, calm>>
  BY DEF WriteSpork
<1>2. TypeOK /\ writing[k] \in Message
  BY <1>1 DEF IInv, TypeOK
<1>3. TypeOK'
  BY <1>1, <1>2, SporkAssumption DEF TypeOK
<1>4. /\ LinksAreUp' /\ AskedOverLinks' /\ SentOverLinks' /\ SendersAreAsNew' /\ NothingMissed'
  BY <1>1
  DEF IInv, LinksAreUp, AskedOverLinks, SentOverLinks, SendersAreAsNew, NothingMissed, NotNewer,
      Peers, Linked
<1>5. \A n \in Node : /\ writing'[n] = IF n = k THEN None ELSE writing[n]
                      /\ db'[n] = db[n] \/ (n = k /\ db'[n] = writing[n])
                      /\ disk'[n] = disk[n] \/ (n = k /\ disk'[n] = writing[n] /\ db'[n] = writing[n])
  BY <1>1, <1>2 DEF TypeOK
<1>6. ClockIsLast'
  BY <1>1, <1>5 DEF IInv, ClockIsLast
<1>7. ASSUME NEW n \in Node \ {Signer}
      PROVE  /\ AsNew(db'[n], disk'[n])
             /\ n \in up => AsNew(active[n], db'[n])
             /\ writing'[n] # None => n \in up /\ writing'[n] = active[n]
  <2>1. /\ AsNew(db[n], disk[n]) /\ (n \in up => AsNew(active[n], db[n]))
        /\ (writing[n] # None => n \in up /\ writing[n] = active[n])
    BY DEF IInv, Stored
  <2>2. CASE n # k
    BY <2>1, <2>2, <1>5
  <2>3. CASE n = k
    <3>1. n \in up /\ writing[n] = active[n] /\ active[n] \in Message /\ active[n].time \in Nat
      BY <2>1, <2>3, <1>1, <1>2, MessageHolds
    <3>2. AsNew(active[n], active[n]) /\ AsNew(active[n], db[n]) /\ AsNew(active[n], disk[n])
      <4>1. db[n] \in Message \cup {None} /\ disk[n] \in Message \cup {None}
        BY <1>2 DEF TypeOK
      <4> QED
        BY <2>1, <3>1, <4>1, MessageHolds DEF AsNew
    <3> QED
      BY <2>1, <2>3, <3>1, <3>2, <1>5
  <2> QED
    BY <2>2, <2>3
<1>8. Stored'
  BY <1>1, <1>7 DEF Stored, AsNew
<1> QED
  BY <1>3, <1>4, <1>6, <1>8 DEF IInv

LEMMA ReceiveGetSporksInv ==
  ASSUME IInv, NEW p \in wire, ReceiveGetSporks(p)
  PROVE  IInv'
<1> DEFINE answer == IF active[p.to] = None THEN {} ELSE {Packet(p.to, p.from, active[p.to])}
<1>1. /\ p.kind = "getsporks" /\ wire' = (wire \ {p}) \cup answer
      /\ UNCHANGED <<clock, up, active, writing, db, disk, requested, link, fulfilled, syncAsked,
                       updates, faults, calm>>
  BY DEF ReceiveGetSporks
<1>2. TypeOK /\ p.from \in Node /\ p.to \in Node /\ Linked(p.from, p.to)
      /\ active[p.to] \in Message \cup {None}
  BY PacketHolds DEF IInv, SentOverLinks, TypeOK
<1>3. \A q \in answer : /\ q \in PacketType /\ Linked(q.from, q.to)' /\ q.kind = "spork"
                        /\ NotNewer(q.from, q.msg)
  <2> SUFFICES ASSUME active[p.to] # None, NEW q, q = Packet(p.to, p.from, active[p.to])
               PROVE  /\ q \in PacketType /\ Linked(q.from, q.to)' /\ q.kind = "spork"
                      /\ NotNewer(q.from, q.msg)
    OBVIOUS
  <2>1. active[p.to] \in Message /\ active[p.to].time \in Nat
    BY <1>2, MessageHolds
  <2> QED
    BY <2>1, <1>1, <1>2, MadePackets DEF NotNewer, Linked
<1>4. active[p.to] # None => Packet(p.to, p.from, active[p.to]) \in wire'
  BY <1>1
<1> HIDE DEF answer
<1>5. /\ requested' \subseteq Node /\ link' \subseteq up \X up /\ wire' \subseteq PacketType
      /\ syncAsked' \in [Node -> 0 .. SyncPeers] /\ fulfilled' \in [Node -> SUBSET Node]
  BY <1>1, <1>2, <1>3 DEF IInv, TypeOK, LinksAreUp
<1> QED
  BY <1>1, <1>3, <1>4, <1>5, TalkInv

LEMMA ConnectInv ==
  ASSUME IInv, NEW n \in Node, NEW m \in Node, Connect(n, m)
  PROVE  IInv'
<1> DEFINE asked == IF Asks(n) THEN {GetSporks(n, m)} ELSE {}
<1>1. /\ n \in up /\ m \in up /\ link' = link \cup {<<n, m>>} /\ requested' = requested \cup {n, m}
      /\ wire' = wire \cup asked
      /\ fulfilled' = [fulfilled EXCEPT ![n] = IF Asks(n) THEN @ \cup {m} ELSE @]
      /\ UNCHANGED <<clock, up, active, writing, db, disk, syncAsked, updates, faults, calm>>
  BY DEF Connect
<1>2. TypeOK
  BY DEF IInv
<1>3. \A q \in asked : /\ q \in PacketType /\ q.from = n /\ q.to = m /\ q.kind = "getsporks"
  BY GetSporksHolds
<1>4. Linked(n, m)' /\ (Asks(n) => GetSporks(n, m) \in wire')
  BY <1>1 DEF Linked
<1> HIDE DEF asked
<1>5. /\ requested' \subseteq Node /\ link' \subseteq up \X up /\ wire' \subseteq PacketType
      /\ syncAsked' \in [Node -> 0 .. SyncPeers] /\ fulfilled' \in [Node -> SUBSET Node]
  BY <1>1, <1>2, <1>3 DEF IInv, TypeOK, LinksAreUp
<1>6. \A a \in Node : \A b \in fulfilled'[a] \ fulfilled[a] : a = n /\ b = m /\ Asks(n)
  BY <1>1, <1>2 DEF TypeOK
<1> QED
  BY <1>1, <1>3, <1>4, <1>5, <1>6, TalkInv

LEMMA SyncAsksInv ==
  ASSUME IInv, NEW n \in Node, NEW m \in Node, SyncAsks(n, m)
  PROVE  IInv'
<1> DEFINE q == GetSporks(n, m)
<1>1. /\ Linked(n, m) /\ syncAsked[n] < SyncPeers /\ syncAsked' = [syncAsked EXCEPT ![n] = @ + 1]
      /\ fulfilled' = [fulfilled EXCEPT ![n] = @ \cup {m}] /\ wire' = wire \cup {q}
      /\ UNCHANGED <<clock, up, active, writing, db, disk, requested, link, updates, faults, calm>>
  BY DEF SyncAsks, SyncOpen
<1>2. TypeOK
  BY DEF IInv
<1>3. q \in PacketType /\ q.from = n /\ q.to = m /\ q.kind = "getsporks" /\ q \in wire'
  BY <1>1, GetSporksHolds
<1>4. Linked(n, m)'
  BY <1>1 DEF Linked
<1>5. q = GetSporks(n, m)
  OBVIOUS
<1> HIDE DEF q
<1>6. syncAsked' \in [Node -> 0 .. SyncPeers]
  <2>1. syncAsked[n] \in 0 .. SyncPeers /\ SyncPeers \in Nat
    BY <1>2, SporkAssumption DEF TypeOK
  <2>2. syncAsked[n] + 1 \in 0 .. SyncPeers
    BY <2>1, <1>1
  <2> QED
    BY <2>2, <1>1, <1>2 DEF TypeOK
<1>7. /\ requested' \subseteq Node /\ link' \subseteq up \X up /\ wire' \subseteq PacketType
      /\ fulfilled' \in [Node -> SUBSET Node]
  BY <1>1, <1>2, <1>3 DEF IInv, TypeOK, LinksAreUp
<1>8. \A a \in Node : \A b \in fulfilled'[a] \ fulfilled[a] : a = n /\ b = m
  BY <1>1, <1>2 DEF TypeOK
<1> QED
  BY <1>1, <1>3, <1>4, <1>5, <1>6, <1>7, <1>8, TalkInv

-----------------------------------------------------------------------------
(* Faults: what is lost on a connection is lost together with the memory   *)
(* of having asked.                                                        *)

LEMMA DisconnectInv ==
  ASSUME IInv, NEW n \in Node, NEW m \in Node, Disconnect(n, m)
  PROVE  IInv'
<1>1. /\ link' = link \ {<<n, m>>} /\ faults < MaxFaults /\ faults' = faults + 1
      /\ wire' = {p \in wire : ~Between(p, n, m)}
      /\ fulfilled' = [fulfilled EXCEPT ![n] = @ \ {m}, ![m] = @ \ {n}]
      /\ UNCHANGED <<clock, up, active, writing, db, disk, requested, syncAsked, updates, calm>>
  BY DEF Disconnect
<1>2. TypeOK
  BY DEF IInv
<1>3. TypeOK'
  BY <1>1, <1>2, SporkAssumption DEF TypeOK
<1>4. LinksAreUp' /\ ClockIsLast' /\ Stored'
  BY <1>1 DEF IInv, LinksAreUp, ClockIsLast, Stored, AsNew
<1>5. ASSUME NEW a \in Node, NEW b \in Node, {a, b} # {n, m}, Linked(a, b)  PROVE Linked(a, b)'
  BY <1>1, <1>5 DEF Linked
<1>6. \A a \in Node : \A b \in fulfilled'[a] : b \in fulfilled[a] /\ b \in Node /\ {a, b} # {n, m}
  <2> SUFFICES ASSUME NEW a \in Node, NEW b \in fulfilled'[a]
               PROVE  b \in fulfilled[a] /\ b \in Node /\ {a, b} # {n, m}
    OBVIOUS
  <2>1. b \in fulfilled[a] /\ (a = n => b # m) /\ (a = m => b # n)
    BY <1>1, <1>2 DEF TypeOK
  <2>2. b \in Node
    BY <2>1, <1>2 DEF TypeOK
  <2>3. {a, b} # {n, m}
    <3> SUFFICES ASSUME {a, b} = {n, m}  PROVE FALSE
      OBVIOUS
    <3>1. a \in {n, m} /\ b \in {n, m} /\ n \in {a, b} /\ m \in {a, b}
      OBVIOUS
    <3> QED
      BY <3>1, <2>1
  <2> QED
    BY <2>1, <2>2, <2>3
<1>7. AskedOverLinks'
  BY <1>5, <1>6 DEF IInv, AskedOverLinks, Peers
<1>8. SentOverLinks' /\ SendersAreAsNew'
  <2> SUFFICES ASSUME NEW p \in wire'
               PROVE  Linked(p.from, p.to)' /\ (p.kind = "spork" => NotNewer(p.from, p.msg)')
    BY DEF SentOverLinks, SendersAreAsNew
  <2>1. p \in wire /\ {p.from, p.to} # {n, m} /\ p.from \in Node /\ p.to \in Node
    BY <1>1, <1>2, PacketHolds DEF Between
  <2> QED
    BY <2>1, <1>1, <1>5 DEF IInv, SentOverLinks, SendersAreAsNew, NotNewer
<1>9. NothingMissed'
  <2> SUFFICES ASSUME NEW a \in Node, NEW b \in fulfilled'[a], active[b] # None
               PROVE  \/ NotNewer(a, active[b])
                      \/ GetSporks(a, b) \in wire' \/ Packet(b, a, active[b]) \in wire'
    BY <1>1 DEF NothingMissed, NotNewer
  <2>1. b \in fulfilled[a] /\ b \in Node /\ {a, b} # {n, m} /\ {b, a} # {n, m} /\ active[b] \in Message
    <3>1. b \in fulfilled[a] /\ b \in Node /\ {a, b} # {n, m}
      BY <1>6
    <3>2. {b, a} = {a, b}
      OBVIOUS
    <3>3. active[b] \in Message
      BY <1>2, <3>1 DEF TypeOK
    <3> QED
      BY <3>1, <3>2, <3>3
  <2>2. NotNewer(a, active[b]) \/ GetSporks(a, b) \in wire \/ Packet(b, a, active[b]) \in wire
    BY <2>1 DEF IInv, NothingMissed
  <2>3. ~Between(GetSporks(a, b), n, m)
    BY <2>1, GetSporksHolds DEF Between
  <2>4. ~Between(Packet(b, a, active[b]), n, m)
    <3>1. Packet(b, a, active[b]).from = b /\ Packet(b, a, active[b]).to = a
      BY <2>1, MadePackets
    <3> QED BY <2>1, <3>1 DEF Between
  <2> QED
    BY <2>2, <2>3, <2>4, <1>1
<1> QED
  BY <1>3, <1>4, <1>7, <1>8, <1>9 DEF IInv

LEMMA CrashInv ==
  ASSUME IInv, NEW n \in Node, Crash(n)
  PROVE  IInv'
<1>1. /\ n \in up /\ up' = up \ {n} /\ faults < MaxFaults /\ faults' = faults + 1
      /\ link' = {l \in link : n \notin {l[1], l[2]}}
      /\ wire' = {p \in wire : n \notin {p.from, p.to}}
      /\ fulfilled' = [m \in Node |-> IF m = n THEN {} ELSE fulfilled[m] \ {n}]
      /\ active' = [active EXCEPT ![n] = None]
      /\ writing' = [writing EXCEPT ![n] = None]
      /\ db' = db \/ db' = [db EXCEPT ![n] = disk[n]]
      /\ requested' = requested \ {n} /\ syncAsked' = [syncAsked EXCEPT ![n] = 0]
      /\ UNCHANGED <<clock, disk, updates, calm>>
  BY DEF Crash
<1>2. TypeOK
  BY DEF IInv
<1>3. \A a \in Node : /\ active'[a] = IF a = n THEN None ELSE active[a]
                      /\ writing'[a] = IF a = n THEN None ELSE writing[a]
                      /\ db'[a] \in (IF a = n THEN {db[n], disk[n]} ELSE {db[a]})
  BY <1>1, <1>2 DEF TypeOK
<1>4. TypeOK'
  <2>1. 0 \in 0 .. SyncPeers /\ faults' \in 0 .. MaxFaults
    BY <1>1, <1>2, SporkAssumption DEF TypeOK
  <2> QED
    BY <2>1, <1>1, <1>2 DEF TypeOK
<1>5. LinksAreUp'
  BY <1>1 DEF IInv, LinksAreUp
<1>6. ASSUME NEW a \in Node \ {n}, NEW b \in Node \ {n}, Linked(a, b)  PROVE Linked(a, b)'
  BY <1>1, <1>6 DEF Linked
<1>7. \A a \in Node : \A b \in fulfilled'[a] : a # n /\ b # n /\ b \in fulfilled[a] /\ b \in Node
  BY <1>1, <1>2 DEF TypeOK
<1>8. AskedOverLinks'
  BY <1>6, <1>7 DEF IInv, AskedOverLinks, Peers
<1>9. SentOverLinks' /\ SendersAreAsNew'
  <2> SUFFICES ASSUME NEW p \in wire'
               PROVE  Linked(p.from, p.to)' /\ (p.kind = "spork" => NotNewer(p.from, p.msg)')
    BY DEF SentOverLinks, SendersAreAsNew
  <2>1. p \in wire /\ p.from # n /\ p.to # n /\ p.from \in Node /\ p.to \in Node
    BY <1>1, <1>2, PacketHolds
  <2> QED
    BY <2>1, <1>3, <1>6 DEF IInv, SentOverLinks, SendersAreAsNew, NotNewer
<1>10. ClockIsLast' /\ Stored'
  <2>1. \A a \in Node : /\ active'[a] \in {active[a], None} /\ writing'[a] \in {writing[a], None}
                        /\ db'[a] \in {db[a], disk[a]} /\ disk'[a] = disk[a]
    BY <1>1, <1>3
  <2>2. ClockIsLast'
    BY <2>1, <1>1 DEF IInv, ClockIsLast
  <2>3. \A a \in Node : AsNew(disk[a], disk[a])
    BY <1>2, MessageHolds DEF AsNew, TypeOK
  <2>4. ASSUME NEW a \in Node \ {Signer}
        PROVE  /\ AsNew(db'[a], disk[a])
               /\ a \in up' => AsNew(active'[a], db'[a])
               /\ writing'[a] # None => a \in up' /\ writing'[a] = active'[a]
    <3>1. AsNew(db[a], disk[a]) /\ (a \in up => AsNew(active[a], db[a]))
          /\ (writing[a] # None => a \in up /\ writing[a] = active[a])
      BY DEF IInv, Stored
    <3>2. CASE a = n
      BY <3>1, <3>2, <1>1, <1>3, <2>3
    <3>3. CASE a # n
      <4>1. active'[a] = active[a] /\ writing'[a] = writing[a] /\ db'[a] = db[a]
        BY <3>3, <1>3
      <4>2. a \in up <=> a \in up'
        BY <3>3, <1>1
      <4> QED
        BY <3>1, <4>1, <4>2
    <3> QED
      BY <3>2, <3>3
  <2>5. Stored'
    BY <2>4, <1>1 DEF Stored, AsNew
  <2> QED
    BY <2>2, <2>5
<1>11. NothingMissed'
  <2> SUFFICES ASSUME NEW a \in Node, NEW b \in fulfilled'[a], active'[b] # None
               PROVE  \/ NotNewer(a, active[b])'
                      \/ GetSporks(a, b) \in wire' \/ Packet(b, a, active'[b]) \in wire'
    BY DEF NothingMissed
  <2>1. /\ a # n /\ b # n /\ b \in fulfilled[a] /\ b \in Node
        /\ active'[a] = active[a] /\ active'[b] = active[b] /\ active[b] \in Message
    BY <1>2, <1>3, <1>7 DEF TypeOK
  <2>2. NotNewer(a, active[b]) \/ GetSporks(a, b) \in wire \/ Packet(b, a, active[b]) \in wire
    BY <2>1 DEF IInv, NothingMissed
  <2>3. n \notin {GetSporks(a, b).from, GetSporks(a, b).to}
    BY <2>1, GetSporksHolds
  <2>4. n \notin {Packet(b, a, active[b]).from, Packet(b, a, active[b]).to}
    BY <2>1, MadePackets
  <2> QED
    BY <2>1, <2>2, <2>3, <2>4, <1>1 DEF NotNewer
<1> QED
  BY <1>4, <1>5, <1>8, <1>9, <1>10, <1>11 DEF IInv

\* A node that is down has no connection, so nobody waits for what it reads from the database.
LEMMA RestartInv ==
  ASSUME IInv, NEW n \in Node, Restart(n)
  PROVE  IInv'
<1>1. /\ n \notin up /\ up' = up \cup {n} /\ active' = [active EXCEPT ![n] = db[n]]
      /\ UNCHANGED <<clock, writing, db, disk, requested, link, fulfilled, syncAsked, wire, updates,
                     faults, calm>>
  BY DEF Restart
<1>2. TypeOK
  BY DEF IInv
<1>3. \A a \in Node : active'[a] = IF a = n THEN db[n] ELSE active[a]
  BY <1>1, <1>2 DEF TypeOK
<1>4. TypeOK' /\ LinksAreUp' /\ AskedOverLinks' /\ SentOverLinks'
  BY <1>1, <1>2
  DEF IInv, TypeOK, LinksAreUp, AskedOverLinks, SentOverLinks, Peers, Linked
<1>5. ClockIsLast' /\ Stored'
  <2>1. ClockIsLast'
    BY <1>1, <1>3 DEF IInv, ClockIsLast
  <2>2. AsNew(db[n], db[n])
    BY <1>2, MessageHolds DEF AsNew, TypeOK
  <2>3. Stored'
    BY <1>1, <1>3, <2>2 DEF IInv, Stored, AsNew
  <2> QED
    BY <2>1, <2>3
<1>6. \A a, b \in Node : Linked(a, b) => a # n /\ b # n
  BY <1>1 DEF IInv, LinksAreUp, Linked
<1>7. SendersAreAsNew'
  <2> SUFFICES ASSUME NEW p \in wire, p.kind = "spork"  PROVE NotNewer(p.from, p.msg)'
    BY <1>1 DEF SendersAreAsNew
  <2>1. p.from # n /\ p.from \in Node /\ NotNewer(p.from, p.msg)
    BY <1>2, <1>6, PacketHolds DEF IInv, SentOverLinks, SendersAreAsNew
  <2> QED
    BY <2>1, <1>3 DEF NotNewer
<1>8. NothingMissed'
  <2> SUFFICES ASSUME NEW a \in Node, NEW b \in fulfilled[a], active'[b] # None
               PROVE  \/ NotNewer(a, active[b])'
                      \/ GetSporks(a, b) \in wire \/ Packet(b, a, active'[b]) \in wire
    BY <1>1 DEF NothingMissed
  <2>1. a # n /\ b # n /\ b \in Node
    BY <1>2, <1>6 DEF IInv, AskedOverLinks, Peers, TypeOK
  <2>2. active'[a] = active[a] /\ active'[b] = active[b]
    BY <2>1, <1>3
  <2> QED
    BY <2>2 DEF IInv, NothingMissed, NotNewer
<1> QED
  BY <1>4, <1>5, <1>7, <1>8 DEF IInv

-----------------------------------------------------------------------------
\* One case per action.
LEMMA NextInv == IInv /\ [Next]_vars => IInv'
<1> SUFFICES ASSUME IInv, [Next]_vars  PROVE IInv'
  OBVIOUS
<1>1. CASE UNCHANGED vars
  BY <1>1
  DEF vars, IInv, TypeOK, LinksAreUp, AskedOverLinks, SentOverLinks, SendersAreAsNew, ClockIsLast,
      Stored, AsNew, NothingMissed, NotNewer, Peers, Linked
<1> QED
  BY <1>1, UpdateSporkInv, ReceiveSporkInv, ReceiveGetSporksInv, ConnectInv, SyncAsksInv,
     WriteSporkInv, DisconnectInv, CrashInv, RestartInv DEF Next

LEMMA InvariantHolds == Spec => []IInv
BY InitInv, NextInv, PTL DEF Spec

\* The switches, the databases, the requests and the packets stay within their types.
THEOREM TypeCorrect == Spec => []TypeOK
<1>1. IInv => TypeOK
  BY DEF IInv
<1> QED
  BY <1>1, InvariantHolds, PTL

\* For any network and any faults: who has asked a peer over a connection that is open is as
\* new as that peer, or a packet that will make it so is on its way.
THEOREM NothingIsMissed == Spec => []NothingMissed
<1>1. IInv => NothingMissed
  BY DEF IInv
<1> QED
  BY <1>1, InvariantHolds, PTL

\* A node takes newer messages only, puts what it took last, and so neither the database nor the
\* disk is ever ahead of it or goes back, whenever the put fails or the node stops.
LEMMA NoStepGoesBack ==
  ASSUME IInv, [Next]_vars, NEW n \in Node \ {Signer}
  PROVE  /\ n \in up \cap up' => AsNew(active'[n], active[n])
         /\ n \in up' \ up => AsNew(active'[n], disk[n])
         /\ AsNew(disk'[n], disk[n])
<1>1. /\ TypeOK /\ active[n] \in Message \cup {None} /\ disk[n] \in Message \cup {None}
      /\ AsNew(db[n], disk[n]) /\ (n \in up => AsNew(active[n], db[n]))
      /\ (writing[n] # None => n \in up /\ writing[n] = active[n])
  BY DEF IInv, Stored, TypeOK
<1>2. AsNew(active[n], active[n]) /\ AsNew(disk[n], disk[n])
  BY <1>1, MessageHolds DEF AsNew
<1>3. CASE up' = up /\ active'[n] = active[n] /\ disk' = disk
  BY <1>2, <1>3
<1>4. ASSUME NEW time \in Time, UpdateSpork(time)  PROVE up' = up /\ active'[n] = active[n] /\ disk' = disk
  BY <1>1, <1>4 DEF UpdateSpork, TypeOK
<1>5. ASSUME NEW p \in wire, ReceiveSpork(p), active' # active
      PROVE  up' = up /\ AsNew(active'[n], active[n]) /\ disk' = disk
  <2>1. /\ p.kind = "spork" /\ ~NotNewer(p.to, p.msg) /\ active' = [active EXCEPT ![p.to] = p.msg]
        /\ UNCHANGED <<up, disk>>
    BY <1>5 DEF ReceiveSpork, Accept
  <2>2. p.to \in Node /\ p.msg \in Message /\ p.msg # None /\ p.msg.time \in Nat
    BY <1>1, <2>1, PacketHolds, MessageHolds
  <2>3. active'[n] = IF n = p.to THEN p.msg ELSE active[n]
    BY <1>1, <2>1, <2>2 DEF TypeOK
  <2> QED
    BY <1>1, <1>2, <2>1, <2>2, <2>3, MessageHolds DEF AsNew, NotNewer
<1>6. ASSUME NEW k \in Node, WriteSpork(k)
      PROVE  up' = up /\ active' = active /\ AsNew(disk'[n], disk[n])
  <2>1. /\ writing[k] # None /\ UNCHANGED <<up, active>>
        /\ disk' = disk \/ disk' = [disk EXCEPT ![k] = writing[k]]
    BY <1>6 DEF WriteSpork
  <2>2. CASE disk'[n] = disk[n]
    BY <1>2, <2>1, <2>2
  <2>3. CASE disk'[n] # disk[n]
    <3>1. n = k /\ disk'[n] = writing[n]
      BY <1>1, <2>1, <2>3 DEF TypeOK
    <3>2. disk'[n] = active[n] /\ n \in up /\ active[n] \in Message /\ db[n] \in Message \cup {None}
      BY <1>1, <2>1, <3>1 DEF TypeOK
    <3> QED
      BY <1>1, <2>1, <3>2, MessageHolds DEF AsNew
  <2> QED
    BY <2>2, <2>3
<1>7. ASSUME NEW k \in Node, Crash(k)
      PROVE  n \notin up' \ up /\ (n \in up' => active'[n] = active[n]) /\ disk' = disk
  BY <1>1, <1>7 DEF Crash, TypeOK
<1>8. ASSUME NEW k \in Node, Restart(k)
      PROVE  /\ n \in up => active'[n] = active[n]
             /\ n \in up' \ up => AsNew(active'[n], disk[n])
             /\ disk' = disk
  <2>1. k \notin up /\ up' = up \cup {k} /\ disk' = disk /\ active'[n] = IF n = k THEN db[k] ELSE active[n]
    BY <1>1, <1>8 DEF Restart, TypeOK
  <2> QED
    BY <1>1, <2>1
<1>9. ASSUME NEW p \in wire, ReceiveGetSporks(p) \/ (ReceiveSpork(p) /\ active' = active)
      PROVE  up' = up /\ active'[n] = active[n] /\ disk' = disk
  BY <1>9 DEF ReceiveGetSporks, ReceiveSpork
<1>10. ASSUME NEW a \in Node, NEW b \in Node, Connect(a, b) \/ SyncAsks(a, b) \/ Disconnect(a, b)
       PROVE  up' = up /\ active'[n] = active[n] /\ disk' = disk
  BY <1>10 DEF Connect, SyncAsks, Disconnect
<1>11. CASE UNCHANGED vars
  BY <1>3, <1>11 DEF vars
<1> QED
  <2>1. CASE \E p \in wire : ReceiveSpork(p) /\ active' # active
    BY <2>1, <1>2, <1>5
  <2>2. CASE \E k \in Node : WriteSpork(k)
    BY <2>2, <1>2, <1>6
  <2>3. CASE \E k \in Node : Crash(k) \/ Restart(k)
    BY <2>3, <1>2, <1>7, <1>8
  <2> QED
    BY <2>1, <2>2, <2>3, <1>3, <1>4, <1>9, <1>10, <1>11 DEF Next

\* No node but the signer falls back while it runs, and a restart takes it back no further than
\* what has reached the disk, in whatever order messages come, whichever puts fail or are lost
\* and however often the node is stopped.
THEOREM SwitchesNeverFallBack == Spec => NeverOlder
<1>1. ASSUME IInv, [Next]_vars
      PROVE  [\A n \in Node \ {Signer} :
                /\ n \in up \cap up' => AsNew(active'[n], active[n])
                /\ n \in up' \ up => AsNew(active'[n], disk[n])
                /\ AsNew(disk'[n], disk[n])]_vars
  BY <1>1, NoStepGoesBack
<1> QED
  BY <1>1, InvariantHolds, PTL DEF Spec, NeverOlder

-----------------------------------------------------------------------------
(* An update made once nothing fails any more.                             *)

\* The nodes that lack the last such update.
Behind == {n \in Node : ~NotNewer(n, calm)}

Coming(n) == \E p \in wire : p.kind = "spork" /\ p.to = n /\ p.msg.time >= calm.time

\* A node that is behind has the update, or a newer one, on its way to it or to a peer that
\* will relay it, as it is behind as well.
Reaching == \A n \in Behind : Coming(n) \/ \E m \in Peers(n) \cap Behind : Coming(m)

Calmed == calm # None => faults = MaxFaults /\ up = Node /\ Signer \notin Behind /\ Reaching

(* As long as a node lacks the update, a packet is on its way that one of  *)
(* the nodes that lack it will take.                                       *)
OnItsWay == calm # None /\ Behind # {} => \E n \in Behind : Coming(n)

(* No node falls behind again, and one that gets such a packet is not.     *)
CatchesUp ==
    calm # None /\ calm' = calm =>
        /\ Behind' \subseteq Behind
        /\ \A p \in wire : ReceiveSpork(p) /\ p.msg.time >= calm.time => p.to \notin Behind'

\* What a node is as new as, it stays as new as, where nothing is forgotten.
LEMMA StaysAsNew ==
  ASSUME IInv, [Next]_vars, faults = MaxFaults, up = Node,
         NEW n \in Node, NEW msg \in Message, NotNewer(n, msg)
  PROVE  NotNewer(n, msg)'
<1>1. TypeOK /\ msg.time \in Nat /\ active[n] \in Message /\ active[n].time \in Nat
      /\ active[n].time >= msg.time /\ active[n].time <= clock /\ clock \in Nat /\ MaxFaults \in Nat
  <2>1. TypeOK /\ active[n] # None /\ active[n].time <= clock
    BY DEF IInv, ClockIsLast, NotNewer
  <2>2. active[n] \in Message
    BY <2>1 DEF TypeOK
  <2> QED
    BY <2>1, <2>2, MessageHolds, SporkAssumption DEF TypeOK, Time, NotNewer
<1>2. CASE active' = active
  BY <1>2 DEF NotNewer
<1>3. ASSUME NEW time \in Time, UpdateSpork(time)  PROVE NotNewer(n, msg)'
  <2> DEFINE new == [value |-> updates + 1, time |-> time]
  <2>1. active' = [active EXCEPT ![Signer] = new] /\ new.time = time /\ time >= clock /\ time \in Nat
        /\ updates < MaxUpdates
    BY <1>3 DEF UpdateSpork, Time
  <2>2. new \in Message /\ new # None
    <3>1. updates + 1 \in 1 .. MaxUpdates
      BY <1>1, <2>1, SporkAssumption DEF TypeOK
    <3> QED BY <3>1, <1>3, MessageHolds DEF Message
  <2> HIDE DEF new
  <2>3. active'[n] = IF n = Signer THEN new ELSE active[n]
    BY <1>1, <2>1 DEF TypeOK
  <2> QED
    BY <1>1, <2>1, <2>2, <2>3 DEF NotNewer
<1>4. ASSUME NEW p \in wire, ReceiveSpork(p), active' # active  PROVE NotNewer(n, msg)'
  <2>1. p.kind = "spork" /\ ~NotNewer(p.to, p.msg) /\ active' = [active EXCEPT ![p.to] = p.msg]
    BY <1>4 DEF ReceiveSpork, Accept
  <2>2. p.to \in Node /\ p.msg \in Message /\ p.msg # None /\ p.msg.time \in Nat
    BY <1>1, <2>1, PacketHolds, MessageHolds
  <2>3. active'[n] = IF n = p.to THEN p.msg ELSE active[n]
    BY <1>1, <2>1, <2>2 DEF TypeOK
  <2>4. n = p.to => p.msg.time >= msg.time
    BY <1>1, <2>1, <2>2, MessageHolds DEF NotNewer
  <2> QED
    BY <1>1, <2>2, <2>3, <2>4, MessageHolds DEF NotNewer
<1>5. ASSUME NEW a \in Node, Crash(a) \/ Restart(a)  PROVE FALSE
  BY <1>1, <1>5 DEF Crash, Restart
<1>6. ASSUME NEW p \in wire, ReceiveGetSporks(p)  PROVE active' = active
  BY <1>6 DEF ReceiveGetSporks
<1>7. ASSUME NEW a \in Node, NEW b \in Node, Connect(a, b) \/ SyncAsks(a, b) \/ Disconnect(a, b)
      PROVE  active' = active
  BY <1>7 DEF Connect, SyncAsks, Disconnect
<1>8. ASSUME NEW a \in Node, WriteSpork(a)  PROVE active' = active
  BY <1>8 DEF WriteSpork
<1>9. CASE UNCHANGED vars
  BY <1>2, <1>9 DEF vars
<1> QED
  BY <1>2, <1>3, <1>4, <1>5, <1>6, <1>7, <1>8, <1>9 DEF Next

\* The update itself: all peers of the signer are told, and everyone else has one of them.
LEMMA UpdateCalms ==
  ASSUME IInv, NEW time \in Time, UpdateSpork(time), Calm(time)
  PROVE  Calmed'
<1>1. PICK msg : msg = [value |-> updates + 1, time |-> time]
  OBVIOUS
<1>2. /\ active' = [active EXCEPT ![Signer] = msg] /\ wire' = wire \cup Relay(Signer, msg, {})
      /\ calm' = msg /\ msg.time = time /\ time \in Nat /\ TypeOK
      /\ UNCHANGED <<up, link, faults>>
      /\ msg \in Message /\ msg # None /\ Signer \in Node
  <2>1. updates < MaxUpdates /\ TypeOK /\ time \in Nat
    BY DEF UpdateSpork, Time, IInv
  <2>2. updates + 1 \in 1 .. MaxUpdates
    BY <2>1, SporkAssumption DEF TypeOK
  <2>3. msg \in Message
    BY <1>1, <2>2 DEF Message
  <2>4. msg # None /\ Signer \in Node
    BY <2>3, MessageHolds, SporkAssumption
  <2>5. /\ active' = [active EXCEPT ![Signer] = msg] /\ wire' = wire \cup Relay(Signer, msg, {})
        /\ calm' = msg /\ msg.time = time /\ UNCHANGED <<up, link, faults>>
    BY <1>1 DEF UpdateSpork
  <2> QED BY <2>1, <2>3, <2>4, <2>5
<1>3. \A n \in Node : Linked(n, Signer) => Coming(n)'
  <2> SUFFICES ASSUME NEW n \in Node, Linked(n, Signer)  PROVE Coming(n)'
    OBVIOUS
  <2>1. Packet(Signer, n, msg) \in wire'
    BY <1>2, Relayed DEF Linked
  <2>2. PICK p : p = Packet(Signer, n, msg)
    OBVIOUS
  <2>3. p \in wire' /\ p.kind = "spork" /\ p.to = n /\ p.msg = msg
    BY <1>2, <2>1, <2>2, MadePackets
  <2> QED
    BY <1>2, <2>3 DEF Coming
<1>4. NotNewer(Signer, msg)'
  BY <1>2 DEF NotNewer, TypeOK
<1>5. \A n \in Node \ {Signer} : n \in Behind'
  <2> SUFFICES ASSUME NEW n \in Node \ {Signer}, NotNewer(n, msg)'  PROVE FALSE
    BY <1>2 DEF Behind, NotNewer
  <2>1. active'[n] = active[n]
    BY <1>2 DEF TypeOK
  <2>2. active[n] # None /\ active[n] \in Message /\ active[n].time >= time
    BY <1>2, <2>1 DEF NotNewer, TypeOK
  <2> QED
    BY <1>2, <2>2, MessageHolds DEF Calm
<1>6. Reaching'
  <2> SUFFICES ASSUME NEW n \in Node \ {Signer}
               PROVE  Coming(n)' \/ \E m \in (Peers(n) \cap Behind)' : Coming(m)'
    BY <1>2, <1>4 DEF Reaching, Behind, NotNewer
  <2>1. CASE Linked(n, Signer)
    BY <1>3, <2>1
  <2>2. ASSUME NEW m \in Peers(n), Linked(m, Signer)
        PROVE  Coming(n)' \/ \E k \in (Peers(n) \cap Behind)' : Coming(k)'
    <3>1. m \in Node /\ Linked(n, m) /\ Coming(m)' /\ m \in Peers(n)'
      BY <1>2, <1>3, <2>2 DEF Peers, Linked
    <3>2. CASE m = Signer
      BY <1>3, <3>1, <3>2
    <3>3. CASE m # Signer
      BY <1>5, <3>1, <3>3
    <3> QED BY <3>2, <3>3
  <2> QED
    BY <2>1, <2>2 DEF Calm
<1> QED
  BY <1>2, <1>4, <1>6 DEF Calm, Calmed, Behind, NotNewer

\* A packet that matters to a node that is behind is taken, and relayed to the others.
LEMMA ReceiveCalms ==
  ASSUME IInv, Calmed, calm # None, NEW p \in wire, ReceiveSpork(p)
  PROVE  Calmed' /\ (p.msg.time >= calm.time => p.to \notin Behind')
<1>1. /\ TypeOK /\ calm \in Message /\ calm' = calm /\ faults = MaxFaults /\ up = Node /\ Reaching
      /\ UNCHANGED <<up, link, faults>> /\ p.kind = "spork" /\ calm.time \in Nat
  BY MessageHolds DEF IInv, TypeOK, Calmed, ReceiveSpork
<1>2. /\ p.to \in Node /\ p.from \in Node /\ p.msg \in Message /\ p.msg # None /\ p.msg.time \in Nat
      /\ NotNewer(p.from, p.msg)
  BY <1>1, PacketHolds, MessageHolds DEF IInv, SendersAreAsNew
<1>3. \A n \in Node : active[n] # None => active[n].time \in Nat
  BY <1>1, MessageHolds DEF TypeOK
<1>4. \A n \in Node : NotNewer(n, calm) => NotNewer(n, calm)'
  <2>1. ASSUME NEW n \in Node, NEW msg \in Message, NotNewer(n, msg)  PROVE NotNewer(n, msg)'
    BY <1>1, <2>1, StaysAsNew DEF Next
  <2>2. \A n \in Node : NotNewer(n, calm) => active'[n] # None /\ active'[n].time >= calm.time
    BY <1>1, <2>1 DEF NotNewer
  <2> QED BY <1>1, <2>2 DEF NotNewer
<1>5. Behind' \subseteq Behind
  BY <1>4 DEF Behind
<1>6. p.msg.time >= calm.time => NotNewer(p.from, calm)
  BY <1>1, <1>2, <1>3 DEF NotNewer
<1>7. p.msg.time >= calm.time => p.to \notin Behind'
  <2>1. CASE NotNewer(p.to, p.msg)
    <3>1. active' = active
      BY <2>1 DEF ReceiveSpork
    <3> QED BY <1>1, <1>2, <1>3, <2>1, <3>1 DEF NotNewer, Behind
  <2>2. CASE ~NotNewer(p.to, p.msg)
    <3>1. active' = [active EXCEPT ![p.to] = p.msg]
      BY <2>2 DEF ReceiveSpork, Accept
    <3> QED BY <1>1, <1>2, <3>1 DEF NotNewer, Behind, TypeOK
  <2> QED BY <2>1, <2>2
<1>8. \A q \in wire : q # p => q \in wire'
  BY DEF ReceiveSpork, Accept
\* Only the packet that was taken is gone, and its receiver is not behind any more.
<1>9. ASSUME NEW n \in Behind, Coming(n), ~Coming(n)'  PROVE p.to = n /\ p.msg.time >= calm.time
  <2>1. PICK q \in wire : q.kind = "spork" /\ q.to = n /\ q.msg.time >= calm.time
    BY <1>9 DEF Coming
  <2>2. q = p
    BY <1>1, <1>8, <1>9, <2>1 DEF Coming
  <2> QED BY <2>1, <2>2
<1>10. Reaching'
  <2> SUFFICES ASSUME NEW n \in Behind'
               PROVE  Coming(n)' \/ \E m \in (Peers(n) \cap Behind)' : Coming(m)'
    BY DEF Reaching
  <2>1. n \in Behind /\ n \in Node
    BY <1>5 DEF Behind
  <2>2. CASE Coming(n)
    BY <1>7, <1>9, <2>1, <2>2
  <2>3. CASE \E m \in Peers(n) \cap Behind : Coming(m)
    <3>1. PICK m \in Peers(n) \cap Behind : Coming(m)
      BY <2>3
    <3>2. m \in Node /\ Linked(n, m) /\ m \in Peers(n)'
      BY <1>1, <3>1 DEF Peers, Linked
    <3>3. CASE m \in Behind'
      BY <1>7, <1>9, <3>1, <3>2, <3>3
    <3>4. CASE m \notin Behind'
      <4>1. NotNewer(m, calm)' /\ ~NotNewer(m, calm)
        BY <3>1, <3>2, <3>4 DEF Behind
      <4>2. active' # active
        BY <1>1, <4>1 DEF NotNewer
      <4>3. ~NotNewer(p.to, p.msg) /\ Accept(p.to, p)
        BY <4>2 DEF ReceiveSpork
      <4>4. active' = [active EXCEPT ![p.to] = p.msg] /\ wire' = (wire \ {p}) \cup Relay(p.to, p.msg, {p.from})
        BY <4>3 DEF Accept
      <4>5. m = p.to /\ p.msg.time >= calm.time
        <5>1. m = p.to
          BY <1>1, <3>2, <4>1, <4>4 DEF NotNewer, TypeOK
        <5>2. active'[m] = p.msg
          BY <1>1, <3>2, <4>4, <5>1 DEF TypeOK
        <5> QED BY <1>1, <4>1, <5>1, <5>2 DEF NotNewer
      <4>6. n # p.from
        BY <1>6, <2>1, <4>5 DEF Behind
      <4>7. Packet(m, n, p.msg) \in wire'
        BY <1>2, <2>1, <3>2, <4>4, <4>5, <4>6, Relayed DEF Linked
      <4>8. PICK q : q = Packet(m, n, p.msg)
        OBVIOUS
      <4>9. q \in wire' /\ q.kind = "spork" /\ q.to = n /\ q.msg = p.msg
        BY <1>2, <2>1, <3>2, <4>7, <4>8, MadePackets
      <4> QED BY <1>1, <4>5, <4>9 DEF Coming
    <3> QED BY <3>3, <3>4
  <2> QED BY <2>1, <2>2, <2>3, <1>1 DEF Reaching
<1> QED
  BY <1>1, <1>5, <1>7, <1>10 DEF Calmed

\* Where no packet with a switch is lost and no connection closed, it stays on its way.
LEMMA TalkCalms ==
  ASSUME IInv, Calmed, UNCHANGED <<up, active, faults, calm>>, link \subseteq link',
         \A p \in wire : p.kind = "spork" => p \in wire'
  PROVE  Calmed'
<1> SUFFICES ASSUME calm # None  PROVE Calmed'
  BY DEF Calmed
<1>1. Reaching /\ faults = MaxFaults /\ up = Node /\ Signer \notin Behind
  BY DEF Calmed
<1>2. Behind' = Behind
  BY DEF Behind, NotNewer
<1>3. \A n : Coming(n) => Coming(n)'
  BY DEF Coming
<1>4. \A n \in Node : Peers(n) \subseteq Peers(n)'
  BY DEF Peers, Linked
<1>5. Reaching'
  BY <1>1, <1>2, <1>3, <1>4 DEF Reaching, Behind
<1> QED
  BY <1>1, <1>2, <1>5 DEF Calmed

\* An update that comes in the second of the last one changes nothing for those that are behind.
LEMMA AgainCalms ==
  ASSUME IInv, Calmed, calm # None, NEW time \in Time, UpdateSpork(time), ~Calm(time)
  PROVE  Calmed'
<1>1. /\ TypeOK /\ calm \in Message /\ calm' = calm /\ faults = MaxFaults /\ up = Node /\ Reaching
      /\ UNCHANGED <<up, link, faults>> /\ wire \subseteq wire'
  BY DEF IInv, TypeOK, Calmed, UpdateSpork
<1>2. \A n \in Node : NotNewer(n, calm) => NotNewer(n, calm)'
  <2>1. ASSUME NEW n \in Node, NEW msg \in Message, NotNewer(n, msg)  PROVE NotNewer(n, msg)'
    BY <1>1, <2>1, StaysAsNew DEF Next
  <2>2. \A n \in Node : NotNewer(n, calm) => active'[n] # None /\ active'[n].time >= calm.time
    BY <1>1, <2>1 DEF NotNewer
  <2> QED BY <1>1, <2>2 DEF NotNewer
<1>3. Signer \notin Behind /\ \A n \in Node : n # Signer => active'[n] = active[n]
  BY <1>1 DEF Calmed, UpdateSpork, TypeOK
<1>4. Behind' = Behind
  <2>1. Behind' \subseteq Behind
    BY <1>2 DEF Behind
  <2>2. ASSUME NEW n \in Behind  PROVE n \in Behind'
    <3>1. n \in Node /\ n # Signer /\ active'[n] = active[n]
      BY <1>3, <2>2 DEF Behind
    <3> QED BY <1>1, <2>2, <3>1 DEF Behind, NotNewer
  <2> QED BY <2>1, <2>2
<1>5. \A n : Coming(n) => Coming(n)'
  BY <1>1 DEF Coming
<1>6. \A n : Peers(n)' = Peers(n)
  BY <1>1 DEF Peers, Linked
<1>7. Reaching'
  BY <1>1, <1>4, <1>5, <1>6 DEF Reaching
<1> QED
  BY <1>1, <1>3, <1>4, <1>7 DEF Calmed

LEMMA CalmedStep == IInv /\ Calmed /\ [Next]_vars => Calmed'
<1> SUFFICES ASSUME IInv, Calmed, [Next]_vars  PROVE Calmed'
  OBVIOUS
<1>1. CASE UNCHANGED vars
  BY <1>1, TalkCalms DEF vars
<1>2. ASSUME NEW time \in Time, UpdateSpork(time)  PROVE Calmed'
  <2>1. CASE Calm(time)
    BY <1>2, <2>1, UpdateCalms
  <2>2. CASE ~Calm(time) /\ calm # None
    BY <1>2, <2>2, AgainCalms
  <2>3. CASE ~Calm(time) /\ calm = None
    BY <1>2, <2>3 DEF UpdateSpork, Calmed
  <2> QED BY <2>1, <2>2, <2>3
<1>3. ASSUME NEW p \in wire, ReceiveSpork(p)  PROVE Calmed'
  <2>1. CASE calm # None
    BY <1>3, <2>1, ReceiveCalms
  <2>2. CASE calm = None
    BY <1>3, <2>2 DEF ReceiveSpork, Calmed
  <2> QED BY <2>1, <2>2
<1>4. ASSUME NEW p \in wire, ReceiveGetSporks(p)  PROVE Calmed'
  <2>1. /\ UNCHANGED <<up, active, faults, calm>> /\ link \subseteq link'
        /\ \A q \in wire : q.kind = "spork" => q \in wire'
    BY <1>4 DEF ReceiveGetSporks
  <2> QED BY <2>1, TalkCalms
<1>5. ASSUME NEW n \in Node, NEW m \in Node, Connect(n, m) \/ SyncAsks(n, m)  PROVE Calmed'
  <2>1. /\ UNCHANGED <<up, active, faults, calm>> /\ link \subseteq link' /\ wire \subseteq wire'
    BY <1>5 DEF Connect, SyncAsks
  <2> QED BY <2>1, TalkCalms
<1>6. ASSUME NEW n \in Node, NEW m \in Node, Disconnect(n, m) \/ Crash(n) \/ Restart(n)  PROVE Calmed'
  <2>1. calm' = calm /\ (calm # None => faults = MaxFaults /\ up = Node) /\ MaxFaults \in Nat
    BY <1>6, SporkAssumption DEF Calmed, Disconnect, Crash, Restart
  <2> QED BY <1>6, <2>1 DEF Calmed, Disconnect, Crash, Restart
<1>7. ASSUME NEW n \in Node, WriteSpork(n)  PROVE Calmed'
  <2>1. /\ UNCHANGED <<up, active, link, wire, calm>>
        /\ faults' = faults \/ faults < MaxFaults
    BY <1>7 DEF WriteSpork
  <2>2. CASE calm = None
    BY <2>1, <2>2 DEF Calmed
  <2>3. CASE calm # None
    <3>1. faults = MaxFaults /\ MaxFaults \in Nat
      BY <2>3, SporkAssumption DEF Calmed
    <3>2. faults' = faults
      BY <2>1, <3>1
    <3> QED BY <2>1, <3>2, TalkCalms
  <2> QED BY <2>2, <2>3
<1> QED
  BY <1>1, <1>2, <1>3, <1>4, <1>5, <1>6, <1>7 DEF Next

LEMMA CalmedHolds == Spec => [](IInv /\ Calmed)
<1>1. Init => Calmed
  BY DEF Init, Calmed
<1> QED
  BY <1>1, InitInv, NextInv, CalmedStep, PTL DEF Spec

\* An update made once nothing fails any more, where every node is a peer of the signer or of
\* one of its peers, is never lost for a node that lacks it: as long as there is one, a packet
\* with the update or a newer one is on its way to such a node (Relay reaches all peers but
\* the sender, and a message is dropped by those only that have one as new).
THEOREM UpdatesAreOnTheirWay == Spec => []OnItsWay
<1>1. IInv /\ Calmed => OnItsWay
  BY DEF Calmed, OnItsWay, Reaching
<1> QED
  BY <1>1, CalmedHolds, PTL

\* Every packet of OnItsWay brings one more node up to date, and none falls back (ProcessSpork
\* takes what is newer than mapSporksActive only).
THEOREM NodesCatchUp == Spec => [][CatchesUp]_vars
<1>1. ASSUME IInv, Calmed, [Next]_vars  PROVE [CatchesUp]_vars
  <2> SUFFICES ASSUME Next, calm # None, calm' = calm
               PROVE  /\ Behind' \subseteq Behind
                      /\ \A p \in wire : ReceiveSpork(p) /\ p.msg.time >= calm.time => p.to \notin Behind'
    BY <1>1 DEF CatchesUp
  <2>1. calm \in Message /\ faults = MaxFaults /\ up = Node
    BY <1>1 DEF IInv, TypeOK, Calmed
  <2>2. ASSUME NEW n \in Node, NotNewer(n, calm)  PROVE NotNewer(n, calm)'
    <3>1. ASSUME NEW msg \in Message, NotNewer(n, msg)  PROVE NotNewer(n, msg)'
      BY <1>1, <2>1, <3>1, StaysAsNew
    <3>2. active'[n] # None /\ active'[n].time >= calm.time
      BY <2>1, <2>2, <3>1 DEF NotNewer
    <3> QED BY <3>2 DEF NotNewer
  <2>3. Behind' \subseteq Behind
    BY <2>2 DEF Behind
  <2>4. \A p \in wire : ReceiveSpork(p) /\ p.msg.time >= calm.time => p.to \notin Behind'
    BY <1>1, ReceiveCalms
  <2> QED BY <2>3, <2>4
<1> QED
  BY <1>1, CalmedHolds, PTL DEF Spec
=============================================================================
