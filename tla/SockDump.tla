------------------------------ MODULE SockDump ------------------------------
(***************************************************************************)
(* sockdump (src/dump-tool/sockdump.py): main attaches the BPF program to  *)
(* the two sendmsg functions of the kernel, opens one perf ring per CPU    *)
(* and polls the rings.  The program runs on every CPU on which a process  *)
(* sends; it assembles a record in the slot of its CPU and submits it,     *)
(* segment by segment.  Steps of different CPUs and of main interleave.    *)
(***************************************************************************)
EXTENDS SockFilter, FiniteSets

CONSTANTS
  Cpus,           \* ids of the online CPUs
  Addrs,          \* addresses of sockets
  Args,           \* command lines: [sock, seg_size, pid, format]
  Msgs,           \* messages: [type, pid, peer_pid, own, peer, iter, segs, len]
  SEGS_PER_MSG,   \* SS_MAX_SEGS_PER_MSG
  RING,           \* records a perf ring holds
  ALIGN,          \* the perf ring pads a record to a multiple of this
  MaxSends        \* bound on the messages sent

ASSUME SockDumpAssumption ==
  /\ Cpus \subseteq Nat /\ IsFiniteSet(Cpus) /\ SEGS_PER_MSG \in Nat /\ MaxSends \in Nat
  /\ RING \in Nat \ {0} /\ ALIGN \in Nat \ {0}
  /\ Addrs \subseteq {Unbound} \cup Pathnames \cup AbstractNames
  /\ \A a \in Args : a.sock \in Text \ {<<>>, <<"*">>} /\ a.seg_size \in Nat
  /\ \A m \in Msgs : /\ m.own \in Addrs /\ m.peer \in Addrs
                     /\ m.segs \in Seq(Seq(Byte))
                     /\ m.iter = "ubuf" => Len(m.segs) = 1 /\ m.len = Len(m.segs[1])
                     /\ m.len \in Nat

VARIABLES
  arg,      \* the command line
  phase,    \* the call of main that is next
  sends,    \* history: the messages sent, [msg, cpu, probed]
  probe,    \* per CPU, the run of the BPF program: none or [id, i, pc]
  packet,   \* packet_array: one slot per CPU counted at start-up
  ring,     \* per CPU, the records submitted and not yet read
  lost,     \* history: <<id, i>> of the records the ring did not take
  out       \* the records parse_event has returned to the output function

vars == <<arg, phase, sends, probe, packet, ring, lost, out>>

None == [id |-> 0, i |-> 0, pc |-> "none"]
NUM_CPUS == Cardinality(Cpus)     \* multiprocessing.cpu_count()
Slots == 0 .. NUM_CPUS - 1
NoPid == 0
Empty == [pid |-> NoPid, peer_pid |-> NoPid, path |-> <<>>, len |-> 0,
          err |-> FALSE, data |-> Bytes(<<>>, arg.seg_size)]

Least(x, y) == Min({x, y})

\* packet_array.lookup(&n), and its mutant with one slot for all CPUs.
SlotShared(c) == 0
Slot(c) == c

\* The program is attached to the function that sends the message.
Attached(m) == \/ phase \in {"dgram", "ring", "output", "monitor"} /\ m.type = "stream"
               \/ phase \in {"ring", "output", "monitor"} /\ m.type = "dgram"
RingOpen == phase \in {"output", "monitor"}

\* __PID_FILTER__
PidAllows(m) == arg.pid = NoPid \/ arg.pid \in {m.pid, m.peer_pid}

\* iov_iter is not one that the program can read.
Unreadable(m) == m.iter \notin {"ubuf", "iovec"}

\* Mutant of Records: the loop leaves out the last segment it may capture.
RecordsOneLess(m) ==
  IF m.iter = "iovec" THEN Least(Len(m.segs), SEGS_PER_MSG - 1) ELSE 1
\* Records a message makes: one for each segment, one for a buffer or an error.
Records(m) == IF m.iter = "iovec" THEN Least(Len(m.segs), SEGS_PER_MSG) ELSE 1

Message(c) == sends[probe[c].id].msg

Init ==
  /\ arg \in Args
  /\ phase = "load"
  /\ sends = <<>>
  /\ probe = [c \in Cpus |-> None]
  /\ packet = [n \in Slots |-> Empty]
  /\ ring = [c \in Cpus |-> <<>>]
  /\ lost = {}
  /\ out = <<>>

-----------------------------------------------------------------------------
\* main: render_text and BPF(), the two attach_kprobe, open_perf_buffer, the
\* output file, whose pcap header is written to a file object without
\* .buffer and ends the program, then the loop.
After == [load |-> "stream", stream |-> "dgram", dgram |-> "ring",
          ring |-> "output", output |-> "monitor"]
Main ==
  /\ phase \in DOMAIN After
  /\ phase' = IF \/ phase = "load" /\ InvalidPath(arg.sock)
                 \/ phase = "output" /\ arg.format = "pcap"
              THEN "stopped" ELSE After[phase]
  /\ UNCHANGED <<arg, sends, probe, packet, ring, lost, out>>

\* sig_handler, or the signal's default before it is installed.
Signal ==
  /\ phase # "stopped"
  /\ phase' = "stopped"
  /\ UNCHANGED <<arg, sends, probe, packet, ring, lost, out>>

\* A process sends m on CPU c: the address filter, the slot of the CPU, the
\* head of the packet and the pid filter, each of which may end the program.
Send(c, m) ==
  LET found == Matched(arg.sock, m.own, m.peer)
      taken == Attached(m) /\ found # {} /\ Slot(c) \in Slots
  IN  /\ phase # "stopped" /\ probe[c] = None /\ Len(sends) < MaxSends
      /\ sends' = Append(sends, [msg |-> m, cpu |-> c, probed |-> Attached(m)])
      /\ packet' = IF ~taken THEN packet ELSE
           [packet EXCEPT ![Slot(c)].pid = m.pid, ![Slot(c)].peer_pid = m.peer_pid,
              ![Slot(c)].path = Bytes(Memory(CHOOSE a \in found : TRUE), UNIX_PATH_MAX)]
      /\ probe' = IF taken /\ PidAllows(m) /\ Records(m) > 0
                  THEN [probe EXCEPT ![c] = [id |-> Len(sends'), i |-> 1, pc |-> "fill"]]
                  ELSE probe
      /\ UNCHANGED <<arg, phase, ring, lost, out>>

\* data[] after n bytes of src were read into it; a read that faults zeroes
\* them. The mutant forgets that data[] has seg_size bytes.
ReadsUnbounded(data, src) ==
  LET n == Len(src)
  IN  {Bytes(b, n) \o SubSeq(data, n + 1, Len(data)) : b \in {src, <<>>}}
Reads(data, src) ==
  LET n == Least(Len(src), Len(data))
  IN  {Bytes(b, n) \o SubSeq(data, n + 1, Len(data)) : b \in {src, <<>>}}

\* packet->len, packet->flags and packet->data of segment i, or of an error.
Fill(c) ==
  LET m == Message(c)
      s == Slot(c)
      seg == m.segs[probe[c].i]
  IN  /\ phase # "stopped" /\ probe[c].pc = "fill"
      /\ \E d \in IF Unreadable(m) THEN {packet[s].data} ELSE Reads(packet[s].data, seg) :
           packet' = [packet EXCEPT ![s].data = d, ![s].err = Unreadable(m),
                        ![s].len = IF m.iter = "iovec" THEN Len(seg) ELSE m.len]
      /\ probe' = [probe EXCEPT ![c].pc = "submit"]
      /\ UNCHANGED <<arg, phase, sends, ring, lost, out>>

\* perf_submit of the head and the bytes read, padded by the ring; the record
\* is dropped if the ring is full or not open yet.
Submit(c) ==
  LET p == packet[Slot(c)]
      n == IF p.err THEN 0 ELSE Least(p.len, arg.seg_size)
      x == [id |-> probe[c].id, i |-> probe[c].i]
      rec == [x |-> x, pid |-> p.pid, path |-> p.path, len |-> p.len, err |-> p.err,
              raw |-> SubSeq(p.data, 1, n) \o [k \in 1 .. (ALIGN - (n % ALIGN)) % ALIGN |-> "PAD"]]
      full == ~RingOpen \/ Len(ring[c]) = RING
  IN  /\ phase # "stopped" /\ probe[c].pc = "submit"
      /\ ring' = IF full THEN ring ELSE [ring EXCEPT ![c] = Append(@, rec)]
      /\ lost' = IF full THEN lost \cup {x} ELSE lost
      /\ probe' = [probe EXCEPT ![c] = IF x.i < Records(Message(c))
                     THEN [@ EXCEPT !.i = x.i + 1, !.pc = "fill"] ELSE None]
      /\ UNCHANGED <<arg, phase, sends, packet, out>>

\* parse_event: packet_count, which is Len(out), and the data of the packet.
parse_event(rec) ==
  [x |-> rec.x, pid |-> rec.pid, path |-> rec.path, len |-> rec.len, err |-> rec.err,
   data |-> SubSeq(rec.raw, 1, Least(rec.len, Len(rec.raw)))]

\* Mutant of Poll: perf_buffer_poll reads the ring of one CPU only.
PollOne(c) ==
  /\ phase = "monitor" /\ ring[c] # <<>> /\ c = 0
  /\ out' = Append(out, parse_event(Head(ring[c])))
  /\ ring' = [ring EXCEPT ![c] = Tail(@)]
  /\ UNCHANGED <<arg, phase, sends, probe, packet, lost>>
\* perf_buffer_poll hands a record of one of the rings to the output function.
Poll(c) ==
  /\ phase = "monitor" /\ ring[c] # <<>>
  /\ out' = Append(out, parse_event(Head(ring[c])))
  /\ ring' = [ring EXCEPT ![c] = Tail(@)]
  /\ UNCHANGED <<arg, phase, sends, probe, packet, lost>>

Next == \/ Main \/ Signal
        \/ \E c \in Cpus : \/ \E m \in Msgs : Send(c, m)
                           \/ Fill(c) \/ Submit(c) \/ Poll(c)

\* main runs on by itself, and perf_buffer_poll serves every ring.
Fairness == WF_vars(Main) /\ \A c \in Cpus : WF_vars(Poll(c))
Spec == Init /\ [][Next]_vars
FairSpec == Spec /\ Fairness

-----------------------------------------------------------------------------
\* Types; every slot holds a whole struct packet of seg_size data bytes, so no
\* bpf_probe_read wrote past data[], and no ring exceeds its pages.
TypeOK ==
  /\ arg \in Args
  /\ phase \in DOMAIN After \cup {"monitor", "stopped"}
  /\ sends \in Seq([msg : Msgs, cpu : Cpus, probed : BOOLEAN])
  /\ \A c \in Cpus : \/ probe[c] = None
                     \/ /\ probe[c].id \in DOMAIN sends
                        /\ probe[c].i \in 1 .. Records(Message(c))
                        /\ probe[c].pc \in {"fill", "submit"}
  /\ \A n \in Slots : Len(packet[n].data) = arg.seg_size /\ packet[n].len \in Nat
  /\ \A c \in Cpus : Len(ring[c]) <= RING

Waiting == {w \in Cpus \X (1 .. RING) : w[2] <= Len(ring[w[1]])}
Parsed == {parse_event(ring[w[1]][w[2]]) : w \in Waiting} \cup Range(out)

\* With an argument without '@', build_filter and the probe select each
\* pathname asked for and no other, whatever address the other socket has.
PathsSelected ==
  phase = "load" =>
    \A own, peer \in Addrs : SelectsPaths(arg.sock, own, peer)

\* An abstract socket is caught by '@' and its name: always as the sender, and
\* as the peer unless the sender's own pathname left a byte in path[].
AbstractCaught ==
  phase = "load" =>
    \A own, peer \in Addrs : CatchesAbstract(arg.sock, own, peer)

\* Whatever other CPUs send meanwhile, a record is about one segment of one
\* message: pid and path are those of that message, and its data the first
\* bytes of that segment (zeros if the read faulted), cut at seg_size and
\* followed by nothing where seg_size suits the ring's alignment.
Faithful ==
  \A r \in Parsed :
    LET m   == sends[r.x.id].msg
        seg == m.segs[r.x.i]
        n   == Least(Len(seg), arg.seg_size)
    IN  /\ r.pid = m.pid
        /\ \E a \in Matched(arg.sock, m.own, m.peer) :
             r.path = Bytes(Memory(a), UNIX_PATH_MAX)
        /\ r.err <=> Unreadable(m)
        /\ r.err => r.data = <<>> /\ r.len = m.len
        /\ ~r.err =>
             /\ r.len = Len(seg)
             /\ SubSeq(r.data, 1, n) \in {SubSeq(seg, 1, n), Bytes(<<>>, n)}
             /\ Len(seg) <= arg.seg_size \/ arg.seg_size % ALIGN = 0 => Len(r.data) = n

\* No record is made twice and none disappears unnoticed: once the program has
\* run for a message it is about, each segment of the message, up to the limit
\* of segments, is waiting in one ring, was output once, or was dropped by the
\* ring; a message it is not about leaves nothing.
Accounted ==
  \A id \in DOMAIN sends :
    LET s   == sends[id]
        m   == s.msg
        due == IF ~( /\ s.probed /\ s.cpu < NUM_CPUS /\ PidAllows(m)
                     /\ Matched(arg.sock, m.own, m.peer) # {}) THEN 0
               ELSE IF m.iter = "iovec" THEN Least(Len(m.segs), SEGS_PER_MSG)
               ELSE 1
        copies(x) == Cardinality({w \in Waiting : ring[w[1]][w[2]].x = x})
                     + Cardinality({k \in DOMAIN out : out[k].x = x})
                     + Cardinality({x} \cap lost)
    IN  (\A c \in Cpus : probe[c].id # id) =>
          \A i \in 1 .. Max({Len(m.segs), 1}) :
            copies([id |-> id, i |-> i]) = IF i <= due THEN 1 ELSE 0

\* What a ring took is output, on whichever CPU it was sent, unless sockdump is
\* stopped first (the loop around perf_buffer_poll).
Delivered ==
  \A id \in 1 .. MaxSends :
    LET waiting == \E w \in Waiting : ring[w[1]][w[2]].x.id = id
    IN  waiting ~> (~waiting \/ phase = "stopped")
=============================================================================
