------------------------- MODULE SockDumpInvariant --------------------------
(***************************************************************************)
(* What sockdump keeps true from step to step: the invariant follows a     *)
(* record from the slot of its CPU, which one run of the BPF program at a  *)
(* time writes, through the ring to the output.  Here it is stated; the    *)
(* start, main, a send and the filling of a slot are shown to keep it; and *)
(* what parse_event makes of a filled slot is shown to be true.            *)
(***************************************************************************)
EXTENDS SockFilterProofs

(* Types of what the program and main handle. *)
Wire == Byte \cup {"PAD"}
Pids == {NoPid} \cup {m.pid : m \in Msgs} \cup {m.peer_pid : m \in Msgs}
Ident == [id : Nat, i : Nat]
Packet == [pid : Pids, peer_pid : Pids, path : Seq(Byte), len : Nat, err : BOOLEAN,
           data : Seq(Byte)]
Record == [x : Ident, pid : Pids, path : Seq(Byte), len : Nat, err : BOOLEAN, raw : Seq(Wire)]
Event == [x : Ident, pid : Pids, path : Seq(Byte), len : Nat, err : BOOLEAN, data : Seq(Wire)]

DumpTypes ==
  /\ arg \in Args
  /\ phase \in DOMAIN After \cup {"monitor", "stopped"}
  /\ sends \in Seq([msg : Msgs, cpu : Cpus, probed : BOOLEAN])
  /\ probe \in [Cpus -> [id : Nat, i : Nat, pc : {"none", "fill", "submit"}]]
  /\ packet \in [Slots -> Packet]
  /\ \A n \in Slots : Len(packet[n].data) = arg.seg_size
  /\ ring \in [Cpus -> Seq(Record)]
  /\ \A c \in Cpus : Len(ring[c]) <= RING
  /\ out \in Seq(Event)
  /\ lost \subseteq Ident

(* The program given a is about the message of a send, and how many records *)
(* it makes of it.                                                           *)
About(send, a) ==
  /\ send.probed /\ send.cpu \in Slots
  /\ a.pid = NoPid \/ a.pid \in {send.msg.pid, send.msg.peer_pid}
  /\ Matched(a.sock, send.msg.own, send.msg.peer) # {}
Due(send, a) == IF About(send, a) THEN Records(send.msg) ELSE 0

(* A run of the program is about a message of its own CPU. *)
Running(p, c) ==
  /\ p.pc \in {"fill", "submit"}
  /\ p.id \in DOMAIN sends
  /\ sends[p.id].cpu = c
  /\ About(sends[p.id], arg)
  /\ p.i \in 1 .. Records(sends[p.id].msg)
ProbeInv == \A c \in Cpus : probe[c] = None \/ Running(probe[c], c)

(* What the head of a packet says of message m, and what its data says of a  *)
(* segment.                                                                  *)
HeadOf(p, m, a) ==
  /\ p.pid = m.pid
  /\ \E adr \in Matched(a.sock, m.own, m.peer) : p.path = Bytes(Memory(adr), UNIX_PATH_MAX)
Captured(data, seg, a) ==
  LET n == Least(Len(seg), a.seg_size)
  IN  SubSeq(data, 1, n) \in {SubSeq(seg, 1, n), Bytes(<<>>, n)}
Filled(p, m, i, a) ==
  /\ p.err <=> Unreadable(m)
  /\ p.err => p.len = m.len
  /\ ~p.err => p.len = Len(m.segs[i]) /\ Captured(p.data, m.segs[i], a)

(* The slot of a CPU holds what the run there has put into it. *)
SlotInv ==
  \A c \in Cpus : probe[c] # None =>
    /\ HeadOf(packet[c], sends[probe[c].id].msg, arg)
    /\ probe[c].pc = "submit" => Filled(packet[c], sends[probe[c].id].msg, probe[c].i, arg)

(* An event is about a segment of message m. *)
Truthful(r, m, a) ==
  /\ HeadOf(r, m, a)
  /\ Filled(r, m, r.x.i, a)
  /\ r.err => r.data = <<>>
  /\ ~r.err =>
       LET seg == m.segs[r.x.i]
       IN  Len(seg) <= a.seg_size \/ a.seg_size % ALIGN = 0 =>
             Len(r.data) = Least(Len(seg), a.seg_size)
RecordInv ==
  /\ \A c \in Cpus : \A k \in DOMAIN ring[c] :
       /\ ring[c][k].x.id \in DOMAIN sends
       /\ Truthful(parse_event(ring[c][k]), sends[ring[c][k].x.id].msg, arg)
  /\ \A k \in DOMAIN out :
       /\ out[k].x.id \in DOMAIN sends
       /\ Truthful(out[k], sends[out[k].x.id].msg, arg)

(* A record is in one place only, ... *)
UniqueInv ==
  /\ \A c, d \in Cpus : \A k \in DOMAIN ring[c], l \in DOMAIN ring[d] :
       ring[c][k].x = ring[d][l].x => c = d /\ k = l
  /\ \A k, l \in DOMAIN out : out[k].x = out[l].x => k = l
  /\ \A c \in Cpus : \A k \in DOMAIN ring[c] :
       /\ ring[c][k].x \notin lost
       /\ \A l \in DOMAIN out : ring[c][k].x # out[l].x
  /\ \A l \in DOMAIN out : out[l].x \notin lost

(* ... and is in one exactly if the program has made it. *)
Somewhere(x) ==
  \/ \E c \in Cpus : \E k \in DOMAIN ring[c] : ring[c][k].x = x
  \/ \E l \in DOMAIN out : out[l].x = x
  \/ x \in lost
Made(x) ==
  /\ x.id \in DOMAIN sends /\ x.i >= 1
  /\ LET c == sends[x.id].cpu
     IN  IF probe[c].id = x.id THEN x.i < probe[c].i ELSE x.i <= Due(sends[x.id], arg)
MadeInv == \A x \in Ident : Somewhere(x) <=> Made(x)

DumpInv == DumpTypes /\ ProbeInv /\ SlotInv /\ RecordInv /\ UniqueInv /\ MadeInv

-----------------------------------------------------------------------------
USE DEF None, NoPid, Slot

(* The lesser of two numbers. *)
LEMMA LeastIs ==
  ASSUME NEW x \in Nat, NEW y \in Nat
  PROVE  Least(x, y) = IF x <= y THEN x ELSE y
<1> DEFINE z == CHOOSE v \in {x, y} : \A w \in {x, y} : v <= w
<1>1. \E v \in {x, y} : \A w \in {x, y} : v <= w
  OBVIOUS
<1>2. z \in {x, y} /\ \A w \in {x, y} : z <= w
  BY <1>1
<1>3. Least(x, y) = z
  BY DEF Least, Min
<1> HIDE DEF z
<1> QED
  BY <1>2, <1>3

(* Messages, and the records the program makes of them. *)
LEMMA MessageFacts ==
  ASSUME NEW m \in Msgs
  PROVE  /\ m.own \in Address /\ m.peer \in Address
         /\ m.segs \in Seq(Seq(Byte)) /\ Len(m.segs) \in Nat
         /\ Records(m) \in Nat
         /\ ~Unreadable(m) => Records(m) <= Len(m.segs)
         /\ m.len \in Nat
         /\ m.iter = "ubuf" => Len(m.segs) = 1 /\ m.len = Len(m.segs[1])
         /\ m.pid \in Pids /\ m.peer_pid \in Pids
<1>1. m.own \in Address /\ m.peer \in Address /\ m.segs \in Seq(Seq(Byte))
  BY SockDumpAssumption DEF Address
<1>2. Len(m.segs) \in Nat
  BY <1>1
<1>3. Least(Len(m.segs), SEGS_PER_MSG) = IF Len(m.segs) <= SEGS_PER_MSG THEN Len(m.segs) ELSE SEGS_PER_MSG
  BY <1>2, LeastIs, SockDumpAssumption
<1>4. m.len \in Nat /\ (m.iter = "ubuf" => Len(m.segs) = 1 /\ m.len = Len(m.segs[1]))
  BY SockDumpAssumption
<1>5. Records(m) \in Nat /\ (~Unreadable(m) => Records(m) <= Len(m.segs))
  BY <1>2, <1>3, <1>4, SockDumpAssumption DEF Records, Unreadable
<1>6. m.pid \in Pids /\ m.peer_pid \in Pids
  BY DEF Pids
<1> QED
  BY <1>1, <1>2, <1>4, <1>5, <1>6

-----------------------------------------------------------------------------
(* The invariant holds when sockdump starts. *)
LEMMA DumpInit == Init => DumpInv
<1> SUFFICES ASSUME Init PROVE DumpInv
  OBVIOUS
<1> USE DEF Init
<1>1. DumpTypes
  <2>1. arg.seg_size \in Nat /\ <<>> \in Seq(Byte)
    BY ArgFacts
  <2>2. Bytes(<<>>, arg.seg_size) \in Seq(Byte) /\ Len(Bytes(<<>>, arg.seg_size)) = arg.seg_size
    BY <2>1, BytesIs, Zenon
  <2>3. Empty \in Packet /\ Empty.data = Bytes(<<>>, arg.seg_size)
    BY <2>1, <2>2 DEF Empty, Packet, Pids
  <2>4. packet \in [Slots -> Packet] /\ \A n \in Slots : Len(packet[n].data) = arg.seg_size
    <3> HIDE DEF Empty
    <3> QED BY <2>2, <2>3
  <2>5. \A c \in Cpus : ring[c] = <<>> /\ Len(ring[c]) <= RING
    BY SockDumpAssumption
  <2>6. ring \in [Cpus -> Seq(Record)] /\ out \in Seq(Event) /\ lost \subseteq Ident
    OBVIOUS
  <2>7. /\ probe \in [Cpus -> [id : Nat, i : Nat, pc : {"none", "fill", "submit"}]]
        /\ phase \in DOMAIN After
        /\ sends \in Seq([msg : Msgs, cpu : Cpus, probed : BOOLEAN])
    BY DEF After
  <2> QED
    BY <2>4, <2>5, <2>6, <2>7 DEF DumpTypes
<1>2. ProbeInv /\ SlotInv
  BY DEF ProbeInv, SlotInv
<1>3. \A c \in Cpus : DOMAIN ring[c] = {}
  OBVIOUS
<1>4. RecordInv /\ UniqueInv
  BY <1>3 DEF RecordInv, UniqueInv
<1>5. MadeInv
  BY <1>3 DEF MadeInv, Somewhere, Made
<1> QED
  BY <1>1, <1>2, <1>4, <1>5 DEF DumpInv

(* A step that changes only the phase keeps the invariant. *)
LEMMA MainKeeps ==
  ASSUME DumpInv, phase' \in DOMAIN After \cup {"monitor", "stopped"},
         UNCHANGED <<arg, sends, probe, packet, ring, lost, out>>
  PROVE  DumpInv'
<1> USE DEF DumpInv
<1>1. DumpTypes'
  BY DEF DumpTypes
<1>2. ProbeInv' /\ SlotInv'
  BY DEF ProbeInv, Running, SlotInv
<1>3. RecordInv'
  BY DEF RecordInv
<1>4. UniqueInv'
  BY DEF UniqueInv
<1>5. MadeInv'
  BY DEF MadeInv, Somewhere, Made
<1> QED
  BY <1>1, <1>2, <1>3, <1>4, <1>5

(* The steps of main and the signal. *)
LEMMA MainStep ==
  ASSUME DumpInv, Main \/ Signal
  PROVE  DumpInv'
<1>1. phase' \in DOMAIN After \cup {"monitor", "stopped"}
  BY DEF Main, Signal, After
<1> QED
  BY <1>1, MainKeeps DEF Main, Signal

-----------------------------------------------------------------------------
(* What was sent, by whom. *)
LEMMA SentFacts ==
  ASSUME DumpInv, NEW id \in DOMAIN sends
  PROVE  /\ sends[id].msg \in Msgs /\ sends[id].cpu \in Cpus
         /\ Len(sends) \in Nat /\ DOMAIN sends = 1 .. Len(sends) /\ id # 0
<1> DEFINE S == [msg : Msgs, cpu : Cpus, probed : BOOLEAN]
<1>1. sends \in Seq(S)
  BY DEF DumpInv, DumpTypes
<1>2. sends[id] \in S /\ Len(sends) \in Nat /\ DOMAIN sends = 1 .. Len(sends)
  <2> HIDE DEF S
  <2> QED BY <1>1
<1> QED
  BY <1>2

(* A message is added behind those sent before. *)
LEMMA SendAppends ==
  ASSUME DumpInv, NEW c \in Cpus, NEW m \in Msgs, Send(c, m)
  PROVE  /\ Len(sends) \in Nat /\ DOMAIN sends = 1 .. Len(sends)
         /\ sends' \in Seq([msg : Msgs, cpu : Cpus, probed : BOOLEAN])
         /\ Len(sends') = Len(sends) + 1 /\ DOMAIN sends' = 1 .. Len(sends) + 1
         /\ \A id \in DOMAIN sends : sends'[id] = sends[id] /\ id \in DOMAIN sends'
         /\ sends'[Len(sends) + 1] = [msg |-> m, cpu |-> c, probed |-> Attached(m)]
         /\ Len(sends) + 1 \in DOMAIN sends'
<1> DEFINE e == [msg |-> m, cpu |-> c, probed |-> Attached(m)]
           S == [msg : Msgs, cpu : Cpus, probed : BOOLEAN]
<1>1. Attached(m) \in BOOLEAN
  BY DEF Attached
<1>2. e \in S /\ sends \in Seq(S)
  BY <1>1 DEF DumpInv, DumpTypes
<1>3. sends' = Append(sends, e)
  BY DEF Send
<1> HIDE DEF e, S
<1>4. /\ Len(sends) \in Nat /\ DOMAIN sends = 1 .. Len(sends) /\ sends' \in Seq(S)
      /\ Len(sends') = Len(sends) + 1 /\ DOMAIN sends' = 1 .. Len(sends) + 1
      /\ \A id \in 1 .. Len(sends) : sends'[id] = sends[id]
      /\ sends'[Len(sends) + 1] = e
  BY <1>2, <1>3
<1> QED
  BY <1>4 DEF e, S

(* The slot after the head of the packet was written. *)
LEMMA SendPacket ==
  ASSUME DumpInv, NEW c \in Cpus, NEW m \in Msgs, Send(c, m)
  PROVE  /\ packet' \in [Slots -> Packet]
         /\ \A n \in Slots : packet'[n].data = packet[n].data
         /\ \A n \in Slots : n # c => packet'[n] = packet[n]
         /\ Attached(m) /\ Matched(arg.sock, m.own, m.peer) # {} /\ c \in Slots =>
              HeadOf(packet'[c], m, arg)
<1> DEFINE found == Matched(arg.sock, m.own, m.peer)
           taken == Attached(m) /\ found # {} /\ c \in Slots
           adr == CHOOSE a \in found : TRUE
           path == Bytes(Memory(adr), UNIX_PATH_MAX)
<1>1. packet \in [Slots -> Packet]
  BY DEF DumpInv, DumpTypes
<1>2. packet' = IF ~taken THEN packet ELSE
        [packet EXCEPT ![c].pid = m.pid, ![c].peer_pid = m.peer_pid, ![c].path = path]
  BY DEF Send
<1>3. ASSUME taken PROVE adr \in found /\ path \in Seq(Byte)
  <2>1. adr \in found
    BY <1>3
  <2>2. Memory(adr) \in Seq(Byte)
    <3> HIDE DEF adr
    <3> QED BY <2>1, MessageFacts, MatchedFacts
  <2> QED
    BY <2>1, <2>2, BytesIs, FilterAssumption
<1> HIDE DEF path, adr
<1>4. CASE ~taken
  BY <1>1, <1>2, <1>4
<1>5. CASE taken
  <2>1. m.pid \in Pids /\ m.peer_pid \in Pids /\ path \in Seq(Byte) /\ c \in Slots
    BY <1>3, <1>5, MessageFacts
  <2>2. packet' = [packet EXCEPT ![c].pid = m.pid, ![c].peer_pid = m.peer_pid, ![c].path = path]
    BY <1>2, <1>5
  <2> HIDE DEF found
  <2>3. /\ packet' \in [Slots -> Packet]
        /\ \A n \in Slots : packet'[n].data = packet[n].data
        /\ \A n \in Slots : n # c => packet'[n] = packet[n]
        /\ packet'[c].pid = m.pid /\ packet'[c].path = path
    BY <1>1, <2>1, <2>2, Zenon DEF Packet
  <2>4. HeadOf(packet'[c], m, arg)
    BY <1>3, <1>5, <2>3 DEF HeadOf, path, found
  <2> QED
    BY <2>3, <2>4
<1> QED
  BY <1>4, <1>5

(* The run of the program that a send starts, if any. *)
LEMMA SendProbe ==
  ASSUME DumpInv, NEW c \in Cpus, NEW m \in Msgs, Send(c, m)
  PROVE  LET e == [msg |-> m, cpu |-> c, probed |-> Attached(m)]
         IN  /\ probe[c] = None
             /\ \A d \in Cpus : d # c => probe'[d] = probe[d]
             /\ \/ probe'[c] = None /\ Due(e, arg) = 0
                \/ /\ probe'[c] = [id |-> Len(sends) + 1, i |-> 1, pc |-> "fill"]
                   /\ About(e, arg) /\ Records(m) > 0
<1> DEFINE e == [msg |-> m, cpu |-> c, probed |-> Attached(m)]
           go == /\ Attached(m) /\ Matched(arg.sock, m.own, m.peer) # {} /\ c \in Slots
                 /\ PidAllows(m)
           new == [id |-> Len(sends) + 1, i |-> 1, pc |-> "fill"]
<1>1. probe' = IF go /\ Records(m) > 0 THEN [probe EXCEPT ![c] = new] ELSE probe
  BY SendAppends, Zenon DEF Send
<1>2. go <=> About(e, arg)
  BY DEF About, PidAllows
<1>3. probe[c] = None /\ DOMAIN probe = Cpus
  BY DEF Send, DumpInv, DumpTypes
<1>4. Records(m) \in Nat
  BY MessageFacts
<1>5. Due(e, arg) = IF About(e, arg) THEN Records(m) ELSE 0
  BY DEF Due
<1> HIDE DEF e, go, new
<1>6. \A d \in Cpus : d # c => probe'[d] = probe[d]
  BY <1>1, <1>3
<1>7. CASE go /\ Records(m) > 0
  <2>1. probe'[c] = new
    BY <1>1, <1>3, <1>7
  <2> QED
    BY <1>2, <1>3, <1>6, <1>7, <2>1 DEF e, new
<1>8. CASE ~(go /\ Records(m) > 0)
  <2>1. probe'[c] = None /\ Due(e, arg) = 0
    BY <1>1, <1>2, <1>3, <1>4, <1>5, <1>8
  <2> QED
    BY <1>3, <1>6, <2>1 DEF e
<1> QED
  BY <1>7, <1>8

(* A send keeps the invariant: its slot is its own CPU's, and it is new.     *)
LEMMA SendStep ==
  ASSUME DumpInv, NEW c \in Cpus, NEW m \in Msgs, Send(c, m)
  PROVE  DumpInv'
<1> DEFINE e == [msg |-> m, cpu |-> c, probed |-> Attached(m)]
           new == Len(sends) + 1
<1>1. /\ Len(sends) \in Nat /\ DOMAIN sends = 1 .. Len(sends)
      /\ sends' \in Seq([msg : Msgs, cpu : Cpus, probed : BOOLEAN])
      /\ DOMAIN sends' = 1 .. new
      /\ \A id \in DOMAIN sends : sends'[id] = sends[id] /\ id \in DOMAIN sends'
      /\ sends'[new] = e /\ new \in DOMAIN sends'
  BY SendAppends, Zenon
<1>2. /\ packet' \in [Slots -> Packet]
      /\ \A n \in Slots : packet'[n].data = packet[n].data
      /\ \A n \in Slots : n # c => packet'[n] = packet[n]
      /\ Attached(m) /\ Matched(arg.sock, m.own, m.peer) # {} /\ c \in Slots =>
           HeadOf(packet'[c], m, arg)
  BY SendPacket
<1>3. /\ probe[c] = None
      /\ \A d \in Cpus : d # c => probe'[d] = probe[d]
      /\ \/ probe'[c] = None /\ Due(e, arg) = 0
         \/ /\ probe'[c] = [id |-> new, i |-> 1, pc |-> "fill"]
            /\ About(e, arg) /\ Records(m) > 0
  BY SendProbe
<1>4. UNCHANGED <<arg, phase, ring, lost, out>>
  BY DEF Send
<1>5. e.msg = m /\ e.cpu = c /\ e.probed = Attached(m)
  OBVIOUS
<1> HIDE DEF e
<1>6. new \in Nat /\ new \notin DOMAIN sends /\ new # 0
  BY <1>1
<1> HIDE DEF new
<1>7. DumpTypes'
  <2>1. DOMAIN probe' = Cpus
    BY DEF Send, DumpInv, DumpTypes
  <2>2. \A d \in Cpus : probe'[d] \in [id : Nat, i : Nat, pc : {"none", "fill", "submit"}]
    <3>1. \A d \in Cpus : probe[d] \in [id : Nat, i : Nat, pc : {"none", "fill", "submit"}]
      BY DEF DumpInv, DumpTypes
    <3>2. probe'[c] \in [id : Nat, i : Nat, pc : {"none", "fill", "submit"}]
      BY <1>3, <1>6
    <3> QED BY <1>3, <3>1, <3>2
  <2>3. probe' \in [Cpus -> [id : Nat, i : Nat, pc : {"none", "fill", "submit"}]]
    <3>1. probe' = [d \in Cpus |-> probe'[d]]
      BY <2>1, Zenon DEF Send, DumpInv, DumpTypes
    <3> QED
      BY <2>2, <3>1
  <2>4. \A n \in Slots : Len(packet'[n].data) = arg'.seg_size
    BY <1>2, <1>4, Zenon DEF DumpInv, DumpTypes
  <2> QED
    BY <1>1, <1>2, <1>4, <2>3, <2>4, Zenon DEF DumpInv, DumpTypes
<1>8. ASSUME NEW d \in Cpus, d # c, probe[d] # None
      PROVE  /\ probe'[d] = probe[d] /\ d \in Slots /\ packet'[d] = packet[d]
             /\ probe[d].id \in DOMAIN sends /\ sends'[probe[d].id] = sends[probe[d].id]
             /\ probe[d].id \in DOMAIN sends'
  <2>1. Running(probe[d], d)
    BY <1>8 DEF DumpInv, ProbeInv
  <2>2. probe[d].id \in DOMAIN sends /\ d \in Slots
    BY <2>1 DEF Running, About
  <2> QED
    BY <1>1, <1>2, <1>3, <1>8, <2>2
<1>9. ProbeInv'
  <2> SUFFICES ASSUME NEW d \in Cpus PROVE (probe[d] = None \/ Running(probe[d], d))'
    BY DEF ProbeInv
  <2>1. CASE d # c
    <3>1. CASE probe[d] = None
      BY <1>3, <2>1, <3>1
    <3>2. CASE probe[d] # None
      <4>1. Running(probe[d], d)
        BY <3>2 DEF DumpInv, ProbeInv
      <4> QED
        BY <1>4, <1>8, <2>1, <3>2, <4>1 DEF Running
    <3> QED BY <3>1, <3>2
  <2>2. CASE d = c
    <3>1. CASE probe'[c] = None
      BY <2>2, <3>1
    <3>2. CASE probe'[c] # None
      <4>1. Records(m) \in Nat
        BY MessageFacts
      <4>2. probe'[c] = [id |-> new, i |-> 1, pc |-> "fill"] /\ About(e, arg) /\ Records(m) > 0
        BY <1>3, <3>2
      <4> QED
        BY <1>1, <1>4, <1>5, <2>2, <4>1, <4>2 DEF Running
    <3> QED BY <3>1, <3>2
  <2> QED BY <2>1, <2>2
<1>10. SlotInv'
  <2> SUFFICES ASSUME NEW d \in Cpus, probe'[d] # None
               PROVE  /\ HeadOf(packet'[d], sends'[probe'[d].id].msg, arg')
                      /\ probe'[d].pc = "submit" =>
                           Filled(packet'[d], sends'[probe'[d].id].msg, probe'[d].i, arg')
    BY DEF SlotInv
  <2>1. CASE d # c
    <3>1. probe[d] # None
      BY <1>3, <2>1
    <3> QED
      BY <1>4, <1>8, <2>1, <3>1 DEF DumpInv, SlotInv
  <2>2. CASE d = c
    <3>1. probe'[c] = [id |-> new, i |-> 1, pc |-> "fill"] /\ About(e, arg)
      BY <1>3, <2>2
    <3>2. Attached(m) /\ Matched(arg.sock, m.own, m.peer) # {} /\ c \in Slots
      BY <1>5, <3>1 DEF About
    <3> QED
      BY <1>1, <1>2, <1>4, <1>5, <2>2, <3>1, <3>2
  <2> QED BY <2>1, <2>2
<1>11. RecordInv'
  BY <1>1, <1>4 DEF DumpInv, RecordInv
<1>12. UniqueInv'
  BY <1>4 DEF DumpInv, UniqueInv
<1>13. MadeInv'
  <2> SUFFICES ASSUME NEW x \in Ident PROVE Somewhere(x)' <=> Made(x)'
    BY DEF MadeInv
  <2>1. Somewhere(x)' <=> Somewhere(x)
    BY <1>4 DEF Somewhere
  <2>2. Somewhere(x) <=> Made(x)
    BY DEF DumpInv, MadeInv
  <2>3. x.id \in Nat /\ x.i \in Nat
    BY DEF Ident
  <2>4. CASE x.id \in DOMAIN sends
    <3> DEFINE d == sends[x.id].cpu
    <3>0. d \in Cpus
      BY <2>4, SentFacts
    <3>1. d \in Cpus /\ sends'[x.id] = sends[x.id] /\ x.id \in DOMAIN sends'
      BY <1>1, <2>4, <3>0
    <3>2. x.id # 0 /\ x.id # new
      BY <1>1, <1>6, <2>4
    <3>3. probe'[d].id = x.id <=> probe[d].id = x.id
      <4> HIDE DEF d
      <4> QED BY <1>3, <3>1, <3>2
    <3>4. probe[d].id = x.id => probe'[d] = probe[d]
      <4> HIDE DEF d
      <4> QED BY <1>3, <3>1, <3>2
    <3>5. Made(x) <=> x.i >= 1 /\ IF probe[d].id = x.id THEN x.i < probe[d].i
                                   ELSE x.i <= Due(sends[x.id], arg)
      BY <2>4 DEF Made
    <3>6. Made(x)' <=> x.i >= 1 /\ IF probe'[d].id = x.id THEN x.i < probe'[d].i
                                    ELSE x.i <= Due(sends[x.id], arg)
      BY <1>4, <3>1 DEF Made
    <3> HIDE DEF d
    <3> QED
      BY <2>1, <2>2, <3>3, <3>4, <3>5, <3>6
  <2>5. CASE x.id = new
    <3>1. ~Made(x)
      BY <1>6, <2>5 DEF Made
    <3>2. ~Made(x)'
      BY <1>1, <1>3, <1>4, <1>5, <1>6, <2>3, <2>5 DEF Made
    <3> QED
      BY <2>1, <2>2, <3>1, <3>2
  <2>6. CASE x.id \notin DOMAIN sends /\ x.id # new
    <3>1. x.id \notin DOMAIN sends'
      BY <1>1, <2>3, <2>6 DEF new
    <3> QED
      BY <2>1, <2>2, <2>6, <3>1 DEF Made
  <2> QED BY <2>4, <2>5, <2>6
<1> QED
  BY <1>7, <1>9, <1>10, <1>11, <1>12, <1>13 DEF DumpInv

-----------------------------------------------------------------------------
(* Two sequences that agree up to n have the same start. *)
LEMMA SameStart ==
  ASSUME NEW S, NEW s \in Seq(S), NEW t \in Seq(S), NEW n \in Nat,
         n <= Len(s), n = Len(t), \A k \in 1 .. n : s[k] = t[k]
  PROVE  SubSeq(s, 1, n) = t
<1> DEFINE u == SubSeq(s, 1, n)
<1>1. n \in 0 .. Len(s)
  OBVIOUS
<1>2. u \in Seq(S) /\ Len(u) = n /\ \A k \in 1 .. n : u[k] = s[k]
  BY <1>1, Start, Zenon
<1> HIDE DEF u
<1>3. Len(u) = Len(t) /\ \A k \in 1 .. Len(u) : u[k] = t[k]
  BY <1>2
<1>4. u = t
  BY <1>2, <1>3, SeqEqual
<1> QED
  BY <1>4 DEF u

(* bpf_probe_read into data[]: it keeps its size, and starts with the first  *)
(* bytes of the segment or, after a fault, with zeros.                       *)
LEMMA ReadsFacts ==
  ASSUME NEW data \in Seq(Byte), NEW seg \in Seq(Byte), NEW d \in Reads(data, seg),
         NEW n, n = Least(Len(seg), Len(data))
  PROVE  /\ d \in Seq(Byte) /\ Len(d) = Len(data)
         /\ SubSeq(d, 1, n) \in {SubSeq(seg, 1, n), Bytes(<<>>, n)}
<1>1. /\ Len(seg) \in Nat /\ Len(data) \in Nat
      /\ n \in Nat /\ n <= Len(seg) /\ n <= Len(data)
  BY LeastIs
<1>2. PICK b \in {seg, <<>>} : d = Bytes(b, n) \o SubSeq(data, n + 1, Len(data))
  BY Zenon DEF Reads
<1> DEFINE src == Bytes(b, n)
<1>3. b \in Seq(Byte)
  <2>1. <<>> \in Seq(Byte)
    OBVIOUS
  <2> QED BY <2>1, Zenon
<1>4. src \in Seq(Byte) /\ Len(src) = n /\ \A k \in 1 .. n : src[k] = ByteAt(b, k)
  BY <1>1, <1>3, BytesIs
<1>5. d = Over(src, data)
  BY <1>2, <1>4, Zenon DEF Over
<1> HIDE DEF src
<1>6. /\ d \in Seq(Byte) /\ Len(d) = Len(data)
      /\ \A k \in 1 .. Len(data) : d[k] = IF k <= Len(src) THEN src[k] ELSE data[k]
  BY <1>1, <1>4, <1>5, OverIs
<1>7. \A k \in 1 .. n : d[k] = src[k]
  BY <1>1, <1>4, <1>6
<1>8. SubSeq(d, 1, n) = src
  BY <1>1, <1>4, <1>6, <1>7, SameStart
<1>9. b = seg => SubSeq(seg, 1, n) = src
  <2> SUFFICES ASSUME b = seg PROVE SubSeq(seg, 1, n) = src
    OBVIOUS
  <2>1. \A k \in 1 .. n : seg[k] = src[k]
    BY <1>1, <1>4 DEF ByteAt
  <2> QED
    BY <1>1, <1>4, <2>1, SameStart
<1> QED
  BY <1>6, <1>8, <1>9, Zenon DEF src

(* The run of a CPU that is not idle. *)
LEMMA RunFacts ==
  ASSUME DumpInv, NEW c \in Cpus, probe[c] # None
  PROVE  /\ Running(probe[c], c) /\ c \in Slots /\ packet[c] \in Packet
         /\ probe[c].id \in DOMAIN sends /\ Message(c) \in Msgs
         /\ Message(c) = sends[probe[c].id].msg
         /\ probe[c].i \in 1 .. Records(Message(c))
         /\ ~Unreadable(Message(c)) => Message(c).segs[probe[c].i] \in Seq(Byte)
         /\ Message(c).iter = "ubuf" => Message(c).len = Len(Message(c).segs[probe[c].i])
         /\ arg.seg_size \in Nat /\ Len(packet[c].data) = arg.seg_size
<1>1. Running(probe[c], c)
  BY DEF DumpInv, ProbeInv
<1>2. c \in Slots /\ probe[c].id \in DOMAIN sends
  BY <1>1 DEF Running, About
<1>3. Message(c) = sends[probe[c].id].msg /\ Message(c) \in Msgs
  BY <1>2, SentFacts DEF Message
<1>4. probe[c].i \in 1 .. Records(Message(c))
  BY <1>1, <1>3 DEF Running
<1>5. /\ packet[c] \in Packet /\ Len(packet[c].data) = arg.seg_size
      /\ arg.seg_size \in Nat
  BY <1>2, ArgFacts DEF DumpInv, DumpTypes
<1>6. ~Unreadable(Message(c)) => Message(c).segs[probe[c].i] \in Seq(Byte)
  <2> DEFINE m == Message(c)
  <2>1. m.segs \in Seq(Seq(Byte)) /\ Records(m) \in Nat /\ (~Unreadable(m) => Records(m) <= Len(m.segs))
    BY <1>3, MessageFacts
  <2> HIDE DEF m
  <2>2. ASSUME ~Unreadable(m), NEW i \in 1 .. Records(m) PROVE m.segs[i] \in Seq(Byte)
    BY <2>1, <2>2
  <2> QED
    BY <1>4, <2>2 DEF m
<1>7. Message(c).iter = "ubuf" => Message(c).len = Len(Message(c).segs[probe[c].i])
  <2> DEFINE m == Message(c)
  <2>1. /\ m.iter = "ubuf" => Len(m.segs) = 1 /\ m.len = Len(m.segs[1])
        /\ Records(m) \in Nat /\ (~Unreadable(m) => Records(m) <= Len(m.segs))
    BY <1>3, MessageFacts
  <2>2. m.iter = "ubuf" => ~Unreadable(m)
    BY DEF Unreadable
  <2> HIDE DEF m
  <2>3. m.iter = "ubuf" => Records(m) \in Nat /\ Records(m) <= 1
    BY <2>1, <2>2, Zenon
  <2> DEFINE n == Records(m)
  <2> HIDE DEF n
  <2>4. ASSUME n \in Nat, n <= 1, NEW i \in 1 .. n PROVE i = 1
    BY <2>4
  <2>5. m.iter = "ubuf" => probe[c].i = 1
    BY <1>4, <2>3, <2>4 DEF m, n
  <2> QED
    BY <2>1, <2>5 DEF m
<1> QED
  BY <1>1, <1>2, <1>3, <1>4, <1>5, <1>6, <1>7

(* Filling a slot keeps its types, and makes it hold the segment. *)
LEMMA FillPacket ==
  ASSUME DumpInv, NEW c \in Cpus, Fill(c)
  PROVE  /\ probe[c] # None /\ packet' \in [Slots -> Packet]
         /\ \A n \in Slots : n # c => packet'[n] = packet[n]
         /\ Len(packet'[c].data) = arg.seg_size
         /\ packet'[c].pid = packet[c].pid /\ packet'[c].path = packet[c].path
         /\ Filled(packet'[c], Message(c), probe[c].i, arg)
<1> DEFINE m == Message(c)
           seg == m.segs[probe[c].i]
           len == IF m.iter = "iovec" THEN Len(seg) ELSE m.len
           data == packet[c].data
<1>1. probe[c] # None
  BY DEF Fill
<1>2. /\ c \in Slots /\ packet[c] \in Packet /\ m \in Msgs
      /\ ~Unreadable(m) => seg \in Seq(Byte)
      /\ m.iter = "ubuf" => m.len = Len(seg)
      /\ Len(data) = arg.seg_size
  BY <1>1, RunFacts
<1>3. packet \in [Slots -> Packet] /\ data \in Seq(Byte)
  BY <1>2 DEF DumpInv, DumpTypes, Packet
<1>4. PICK d \in IF Unreadable(m) THEN {data} ELSE Reads(data, seg) :
        packet' = [packet EXCEPT ![c].data = d, ![c].err = Unreadable(m), ![c].len = len]
  BY Zenon DEF Fill
<1>5. len \in Nat /\ Unreadable(m) \in BOOLEAN
  <2>1. m.len \in Nat
    BY <1>2, MessageFacts
  <2> HIDE DEF m, seg
  <2> QED BY <1>2, <2>1 DEF Unreadable
<1>6. /\ d \in Seq(Byte) /\ Len(d) = Len(data)
      /\ ~Unreadable(m) => Captured(d, seg, arg)
  <2>1. CASE Unreadable(m)
    BY <1>3, <1>4, <2>1
  <2>2. CASE ~Unreadable(m)
    <3> DEFINE n == Least(Len(seg), Len(data))
    <3>1. d \in Reads(data, seg) /\ seg \in Seq(Byte)
      BY <1>2, <1>4, <2>2
    <3> HIDE DEF n, m, seg, data
    <3>2. /\ d \in Seq(Byte) /\ Len(d) = Len(data)
          /\ SubSeq(d, 1, n) \in {SubSeq(seg, 1, n), Bytes(<<>>, n)}
      BY <1>3, <3>1, ReadsFacts, Zenon DEF n
    <3>3. n = Least(Len(seg), arg.seg_size)
      BY <1>2 DEF n
    <3> QED
      BY <3>2, <3>3, Zenon DEF Captured
  <2> QED BY <2>1, <2>2
<1> HIDE DEF m, seg, len, data
<1>7. /\ packet' \in [Slots -> Packet]
      /\ \A n \in Slots : n # c => packet'[n] = packet[n]
      /\ packet'[c].data = d /\ packet'[c].err = Unreadable(m) /\ packet'[c].len = len
      /\ packet'[c].pid = packet[c].pid /\ packet'[c].path = packet[c].path
  BY <1>2, <1>3, <1>4, <1>5, <1>6, Zenon DEF Packet
<1>8. /\ Unreadable(m) => len = m.len
      /\ ~Unreadable(m) => len = Len(seg)
  BY <1>2 DEF Unreadable, len
<1>9. Filled(packet'[c], m, probe[c].i, arg)
  BY <1>6, <1>7, <1>8 DEF Filled, seg
<1> QED
  BY <1>1, <1>2, <1>6, <1>7, <1>9 DEF m

(* Filling a slot keeps the invariant. *)
LEMMA FillStep ==
  ASSUME DumpInv, NEW c \in Cpus, Fill(c)
  PROVE  DumpInv'
<1>1. /\ probe[c] # None /\ packet' \in [Slots -> Packet]
      /\ \A n \in Slots : n # c => packet'[n] = packet[n]
      /\ Len(packet'[c].data) = arg.seg_size
      /\ packet'[c].pid = packet[c].pid /\ packet'[c].path = packet[c].path
      /\ Filled(packet'[c], Message(c), probe[c].i, arg)
  BY FillPacket
<1>2. /\ c \in Slots /\ Message(c) = sends[probe[c].id].msg
      /\ \A d \in Cpus : probe[d] # None => d \in Slots
  BY <1>1, RunFacts
<1>3. UNCHANGED <<arg, phase, sends, ring, lost, out>>
  BY DEF Fill
<1>4. /\ probe' \in [Cpus -> [id : Nat, i : Nat, pc : {"none", "fill", "submit"}]]
      /\ \A d \in Cpus : d # c => probe'[d] = probe[d]
      /\ probe'[c].id = probe[c].id /\ probe'[c].i = probe[c].i /\ probe'[c].pc = "submit"
  BY Zenon DEF Fill, DumpInv, DumpTypes
<1>5. DumpTypes'
  <2>1. \A n \in Slots : Len(packet'[n].data) = arg'.seg_size
    BY <1>1, <1>3, Zenon DEF DumpInv, DumpTypes
  <2> QED
    BY <1>1, <1>3, <1>4, <2>1 DEF DumpInv, DumpTypes
<1>6. ProbeInv'
  <2> SUFFICES ASSUME NEW d \in Cpus PROVE (probe[d] = None \/ Running(probe[d], d))'
    BY DEF ProbeInv
  <2>1. CASE d # c
    BY <1>3, <1>4, <2>1 DEF DumpInv, ProbeInv, Running
  <2>2. CASE d = c
    <3>1. Running(probe[c], c)
      BY <1>1 DEF DumpInv, ProbeInv
    <3> QED
      BY <1>3, <1>4, <2>2, <3>1 DEF Running
  <2> QED BY <2>1, <2>2
<1>7. SlotInv'
  <2> SUFFICES ASSUME NEW d \in Cpus, probe'[d] # None
               PROVE  /\ HeadOf(packet'[d], sends'[probe'[d].id].msg, arg')
                      /\ probe'[d].pc = "submit" =>
                           Filled(packet'[d], sends'[probe'[d].id].msg, probe'[d].i, arg')
    BY DEF SlotInv
  <2>1. CASE d # c
    <3>1. probe'[d] = probe[d] /\ packet'[d] = packet[d] /\ probe[d] # None
      BY <1>1, <1>2, <1>4, <2>1
    <3> QED
      BY <1>3, <3>1 DEF DumpInv, SlotInv
  <2>2. CASE d = c
    <3>1. HeadOf(packet[c], Message(c), arg)
      BY <1>1, <1>2 DEF DumpInv, SlotInv
    <3>2. HeadOf(packet'[c], Message(c), arg)
      BY <1>1, <3>1 DEF HeadOf
    <3> QED
      BY <1>1, <1>2, <1>3, <1>4, <2>2, <3>2
  <2> QED BY <2>1, <2>2
<1>8. RecordInv' /\ UniqueInv'
  BY <1>3 DEF DumpInv, RecordInv, UniqueInv
<1>9. MadeInv'
  <2>1. \A d \in Cpus : probe'[d].id = probe[d].id /\ probe'[d].i = probe[d].i
    BY <1>4
  <2> SUFFICES ASSUME NEW x \in Ident PROVE Somewhere(x)' <=> Made(x)'
    BY DEF MadeInv
  <2>2. Somewhere(x)' <=> Made(x)
    BY <1>3 DEF DumpInv, MadeInv, Somewhere
  <2>3. x.id \in DOMAIN sends => sends[x.id].cpu \in Cpus
    BY SentFacts
  <2>4. Made(x)' <=> Made(x)
    BY <1>3, <2>1, <2>3 DEF Made
  <2> QED BY <2>2, <2>4
<1> QED
  BY <1>5, <1>6, <1>7, <1>8, <1>9 DEF DumpInv

-----------------------------------------------------------------------------
(* The data of a record: n captured bytes and padding. *)
Pack(data, n, pad) == SubSeq(data, 1, n) \o pad
LEMMA PackIs ==
  ASSUME NEW data \in Seq(Byte), NEW n \in Nat, n <= Len(data), NEW pad \in Seq(Wire)
  PROVE  /\ Pack(data, n, pad) \in Seq(Wire)
         /\ Len(Pack(data, n, pad)) = n + Len(pad) /\ Len(pad) \in Nat
         /\ \A k \in 1 .. n : Pack(data, n, pad)[k] = data[k]
<1> DEFINE s == SubSeq(data, 1, n)
           raw == Pack(data, n, pad)
<1>1. s \in Seq(Byte) /\ Len(s) = n /\ \A k \in 1 .. n : s[k] = data[k]
  <2>1. n \in 0 .. Len(data)
    OBVIOUS
  <2> QED BY <2>1, Start, Zenon
<1>2. s \in Seq(Wire)
  <2>1. Byte \subseteq Wire
    BY DEF Wire
  <2> HIDE DEF s
  <2> QED BY <1>1, <2>1
<1>3. raw = s \o pad
  BY DEF Pack
<1> HIDE DEF s, raw
<1>4. /\ raw \in Seq(Wire) /\ Len(raw) = Len(s) + Len(pad)
      /\ \A k \in 1 .. Len(s) + Len(pad) :
           raw[k] = IF k <= Len(s) THEN s[k] ELSE pad[k - Len(s)]
  BY <1>2, <1>3, ConcatProperties
<1>5. Len(pad) \in Nat
  OBVIOUS
<1> QED
  BY <1>1, <1>4, <1>5 DEF raw

(* What parse_event keeps of it, given the length of the segment. *)
Unpack(raw, len) == SubSeq(raw, 1, Least(len, Len(raw)))
LEMMA UnpackIs ==
  ASSUME NEW raw \in Seq(Wire), NEW len \in Nat
  PROVE  /\ Unpack(raw, len) \in Seq(Wire)
         /\ Len(raw) \in Nat
         /\ Len(Unpack(raw, len)) = IF len <= Len(raw) THEN len ELSE Len(raw)
         /\ \A k \in 1 .. Len(Unpack(raw, len)) : Unpack(raw, len)[k] = raw[k]
<1> DEFINE l == Least(len, Len(raw))
           res == Unpack(raw, len)
<1>1. Len(raw) \in Nat
  OBVIOUS
<1>2. l = IF len <= Len(raw) THEN len ELSE Len(raw)
  BY <1>1, LeastIs
<1>3. l \in 0 .. Len(raw)
  BY <1>1, <1>2
<1>4. res = SubSeq(raw, 1, l)
  BY DEF Unpack
<1> HIDE DEF l
<1>5. /\ SubSeq(raw, 1, l) \in Seq(Wire) /\ Len(SubSeq(raw, 1, l)) = l
      /\ \A k \in 1 .. l : SubSeq(raw, 1, l)[k] = raw[k]
  BY <1>3, Start, Zenon
<1>6. res \in Seq(Wire) /\ Len(res) = l /\ \A k \in 1 .. l : res[k] = raw[k]
  BY <1>4, <1>5, Zenon
<1> HIDE DEF res
<1> QED
  BY <1>1, <1>2, <1>6 DEF res

(* The captured bytes come through. *)
LEMMA Parsing ==
  ASSUME NEW data \in Seq(Byte), NEW n \in Nat, n <= Len(data), NEW len \in Nat,
         NEW pad \in Seq(Wire), n <= len
  PROVE  SubSeq(Unpack(Pack(data, n, pad), len), 1, n) = SubSeq(data, 1, n)
<1> DEFINE raw == Pack(data, n, pad)
           res == Unpack(raw, len)
           s == SubSeq(data, 1, n)
<1>1. /\ raw \in Seq(Wire) /\ Len(raw) = n + Len(pad) /\ Len(pad) \in Nat
      /\ \A k \in 1 .. n : raw[k] = data[k]
  BY PackIs
<1> HIDE DEF raw
<1>2. /\ res \in Seq(Wire) /\ Len(res) = (IF len <= Len(raw) THEN len ELSE Len(raw))
      /\ \A k \in 1 .. Len(res) : res[k] = raw[k]
  BY <1>1, UnpackIs
<1>3. s \in Seq(Byte) /\ Len(s) = n /\ \A k \in 1 .. n : s[k] = data[k]
  <2>1. n \in 0 .. Len(data)
    OBVIOUS
  <2> QED BY <2>1, Start, Zenon
<1> HIDE DEF s, res
<1>4. s \in Seq(Wire)
  BY <1>3 DEF Wire
<1>5. n <= Len(res) /\ \A k \in 1 .. n : res[k] = s[k]
  <2>1. Len(raw) \in Nat /\ n <= Len(raw)
    BY <1>1
  <2>2. Len(res) \in Nat /\ n <= Len(res)
    BY <1>2, <2>1
  <2>3. ASSUME NEW k \in 1 .. n PROVE k \in 1 .. Len(res)
    BY <2>2
  <2> QED
    BY <1>1, <1>2, <1>3, <2>2, <2>3, Zenon
<1>6. SubSeq(res, 1, n) = s
  BY <1>2, <1>3, <1>4, <1>5, SameStart
<1> QED
  BY <1>6 DEF res, raw, s

(* The padding of the perf ring. *)
Padding(n) == [k \in 1 .. (ALIGN - (n % ALIGN)) % ALIGN |-> "PAD"]
LEMMA PaddingIs ==
  ASSUME NEW n \in Nat
  PROVE  Padding(n) \in Seq(Wire) /\ (n % ALIGN = 0 => Len(Padding(n)) = 0)
<1> DEFINE z == (ALIGN - (n % ALIGN)) % ALIGN
<1>1. z \in Nat /\ (n % ALIGN = 0 => z = 0)
  <2>1. ALIGN \in Nat \ {0}
    BY SockDumpAssumption
  <2>2. n % ALIGN \in 0 .. ALIGN - 1
    BY <2>1
  <2> DEFINE y == ALIGN - (n % ALIGN)
  <2>3. y \in Nat /\ (n % ALIGN = 0 => y = ALIGN)
    BY <2>1, <2>2
  <2> HIDE DEF y
  <2>4. y % ALIGN \in Nat /\ ALIGN % ALIGN = 0
    BY <2>1, <2>3
  <2> QED
    BY <2>3, <2>4 DEF y
<1>2. Padding(n) = [k \in 1 .. z |-> "PAD"] /\ "PAD" \in Wire
  BY DEF Padding, Wire
<1> HIDE DEF z
<1>3. Padding(n) \in Seq(Wire) /\ Len(Padding(n)) = z
  BY <1>1, <1>2
<1> QED
  BY <1>1, <1>3

(* The record that a run submits. *)
RecordOf(p, x, a) ==
  [x |-> x, pid |-> p.pid, path |-> p.path, len |-> p.len, err |-> p.err,
   raw |-> Pack(p.data, IF p.err THEN 0 ELSE Least(p.len, a.seg_size),
                Padding(IF p.err THEN 0 ELSE Least(p.len, a.seg_size)))]

(* A record of a slot that holds a segment says the truth about it. *)
LEMMA RecordTruthful ==
  ASSUME arg \in Args, NEW p \in Packet, Len(p.data) = arg.seg_size,
         NEW x \in Ident, NEW m, HeadOf(p, m, arg), Filled(p, m, x.i, arg)
  PROVE  /\ RecordOf(p, x, arg) \in Record
         /\ parse_event(RecordOf(p, x, arg)) \in Event
         /\ Truthful(parse_event(RecordOf(p, x, arg)), m, arg)
<1> DEFINE n == IF p.err THEN 0 ELSE Least(p.len, arg.seg_size)
           pad == Padding(n)
           raw == Pack(p.data, n, pad)
           data == Unpack(raw, p.len)
           seg == m.segs[x.i]
           rec == RecordOf(p, x, arg)
           r == parse_event(rec)
<1>1. /\ p.data \in Seq(Byte) /\ p.len \in Nat /\ p.err \in BOOLEAN /\ arg.seg_size \in Nat
      /\ p.pid \in Pids /\ p.path \in Seq(Byte)
  BY ArgFacts DEF Packet
<1>2. ~p.err => n = IF p.len <= arg.seg_size THEN p.len ELSE arg.seg_size
  BY <1>1, LeastIs
<1>3. p.err => n = 0
  OBVIOUS
<1>4. rec = [x |-> x, pid |-> p.pid, path |-> p.path, len |-> p.len, err |-> p.err, raw |-> raw]
  BY DEF RecordOf
<1>5. ~p.err => n = Least(p.len, arg.seg_size)
  OBVIOUS
<1> HIDE DEF n
<1>6. n \in Nat /\ n <= Len(p.data) /\ n <= p.len
  BY <1>1, <1>2, <1>3
<1>7. pad \in Seq(Wire) /\ Len(pad) \in Nat /\ (n % ALIGN = 0 => Len(pad) = 0)
  <2>1. pad \in Seq(Wire) /\ (n % ALIGN = 0 => Len(pad) = 0)
    BY <1>6, PaddingIs
  <2> HIDE DEF pad
  <2> QED BY <2>1
<1> HIDE DEF pad
<1>8. raw \in Seq(Wire) /\ Len(raw) = n + Len(pad)
  BY <1>1, <1>6, <1>7, PackIs, Zenon
<1>9. SubSeq(data, 1, n) = SubSeq(p.data, 1, n)
  BY <1>1, <1>6, <1>7, Parsing
<1> HIDE DEF raw
<1>10. data \in Seq(Wire) /\ Len(data) = IF p.len <= Len(raw) THEN p.len ELSE Len(raw)
  BY <1>1, <1>8, UnpackIs
<1>11. /\ r.x = x /\ r.pid = p.pid /\ r.path = p.path /\ r.len = p.len /\ r.err = p.err
       /\ r.data = data
  <2>1. r = [x |-> x, pid |-> p.pid, path |-> p.path, len |-> p.len, err |-> p.err, data |-> data]
    BY <1>4 DEF parse_event, Unpack
  <2> HIDE DEF data, r
  <2> QED BY <2>1
<1>12. rec \in Record
  BY <1>1, <1>4, <1>8 DEF Record
<1>13. r \in Event
  <2>1. r = [x |-> x, pid |-> p.pid, path |-> p.path, len |-> p.len, err |-> p.err, data |-> data]
    BY <1>4 DEF parse_event, Unpack
  <2> HIDE DEF data, r
  <2> QED BY <1>1, <1>10, <2>1 DEF Event
<1> HIDE DEF data, r
<1>14. HeadOf(r, m, arg)
  BY <1>11 DEF HeadOf
<1>15. ASSUME ~p.err
       PROVE  /\ p.len = Len(seg) /\ Captured(p.data, seg, arg)
              /\ n = Least(Len(seg), arg.seg_size)
  BY <1>5, <1>15 DEF Filled
<1>16. Filled(r, m, r.x.i, arg)
  <2>1. (p.err <=> Unreadable(m)) /\ (p.err => p.len = m.len)
    BY DEF Filled
  <2>2. ASSUME ~p.err PROVE Captured(r.data, seg, arg)
    <3> HIDE DEF seg
    <3>1. SubSeq(p.data, 1, n) \in {SubSeq(seg, 1, n), Bytes(<<>>, n)}
      BY <1>15, <2>2, Zenon DEF Captured
    <3>2. SubSeq(r.data, 1, n) \in {SubSeq(seg, 1, n), Bytes(<<>>, n)}
      BY <1>9, <1>11, <3>1, Zenon
    <3> QED
      BY <1>15, <2>2, <3>2, Zenon DEF Captured
  <2> QED
    BY <1>11, <1>15, <2>1, <2>2 DEF Filled
<1>17. r.err => r.data = <<>>
  <2> SUFFICES ASSUME p.err PROVE data = <<>>
    BY <1>11
  <2>1. n = 0 /\ 0 % ALIGN = 0
    BY <1>3, SockDumpAssumption
  <2>2. Len(data) = 0
    BY <1>1, <1>7, <1>8, <1>10, <2>1
  <2> QED
    BY <1>10, <2>2
<1>18. ASSUME ~p.err, Len(seg) <= arg.seg_size \/ arg.seg_size % ALIGN = 0
       PROVE  Len(r.data) = Least(Len(seg), arg.seg_size)
  <2>1. p.len = Len(seg) /\ n = Least(Len(seg), arg.seg_size)
    BY <1>15, <1>18
  <2> HIDE DEF seg
  <2>2. CASE p.len <= arg.seg_size
    BY <1>1, <1>2, <1>6, <1>7, <1>8, <1>10, <1>11, <1>18, <2>1, <2>2
  <2>3. CASE ~(p.len <= arg.seg_size)
    <3>1. n = arg.seg_size /\ n % ALIGN = 0
      BY <1>2, <1>18, <2>1, <2>3
    <3> QED
      BY <1>1, <1>6, <1>7, <1>8, <1>10, <1>11, <2>1, <2>3, <3>1
  <2> QED BY <2>2, <2>3
<1>19. Truthful(r, m, arg)
  BY <1>11, <1>14, <1>16, <1>17, <1>18 DEF Truthful
<1> QED
  BY <1>12, <1>13, <1>19 DEF r
=============================================================================
