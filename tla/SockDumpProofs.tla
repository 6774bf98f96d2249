--------------------------- MODULE SockDumpProofs ---------------------------
(***************************************************************************)
(* The safety properties of sockdump, proved for any number of CPUs,       *)
(* messages and command lines: what a record says is true of one segment   *)
(* of one message, and each segment is accounted for once.  The inductive  *)
(* invariant follows a record from the slot of its CPU, which one run of   *)
(* the BPF program at a time writes, through the ring to the output.       *)
(***************************************************************************)
EXTENDS SockDumpInvariant

USE DEF None, NoPid, Slot

-----------------------------------------------------------------------------
(* Where a submitted record goes, and how the run goes on. *)
XOf(c) == [id |-> probe[c].id, i |-> probe[c].i]
Grown(c, rec) ==
  /\ lost' = lost /\ ring' = [ring EXCEPT ![c] = Append(@, rec)]
  /\ Len(ring[c]) # RING
Dropped(c) == ring' = ring /\ lost' = lost \cup {XOf(c)}
LEMMA SubmitFacts ==
  ASSUME DumpInv, NEW c \in Cpus, Submit(c)
  PROVE  /\ probe[c] # None /\ probe[c].pc = "submit" /\ XOf(c) \in Ident
         /\ Dropped(c) \/ Grown(c, RecordOf(packet[c], XOf(c), arg))
         /\ \A d \in Cpus : d # c => probe'[d] = probe[d]
         /\ probe' \in [Cpus -> [id : Nat, i : Nat, pc : {"none", "fill", "submit"}]]
         /\ probe[c].i < Records(Message(c)) =>
              /\ probe'[c].id = probe[c].id /\ probe'[c].i = probe[c].i + 1
              /\ probe'[c].pc = "fill"
         /\ ~(probe[c].i < Records(Message(c))) => probe'[c] = None
         /\ UNCHANGED <<arg, phase, sends, packet, out>>
<1>1. probe[c] # None /\ probe[c].pc = "submit" /\ UNCHANGED <<arg, phase, sends, packet, out>>
  <2>1. probe[c].pc = "submit" /\ UNCHANGED <<arg, phase, sends, packet, out>>
    BY Zenon DEF Submit
  <2> QED BY <2>1
<1>2. probe \in [Cpus -> [id : Nat, i : Nat, pc : {"none", "fill", "submit"}]]
  BY DEF DumpInv, DumpTypes
<1>3. XOf(c) \in Ident
  BY <1>2 DEF XOf, Ident
<1>4. probe' = [probe EXCEPT ![c] = IF probe[c].i < Records(Message(c))
                  THEN [@ EXCEPT !.i = probe[c].i + 1, !.pc = "fill"] ELSE None]
  BY DEF Submit
<1> DEFINE full == ~RingOpen \/ Len(ring[c]) = RING
           rec == RecordOf(packet[c], XOf(c), arg)
<1>6. ring' = IF full THEN ring ELSE [ring EXCEPT ![c] = Append(@, rec)]
  BY DEF Submit, RecordOf, Pack, Padding, XOf
<1>7. lost' = IF full THEN lost \cup {XOf(c)} ELSE lost
  BY DEF Submit, XOf
<1>8. Dropped(c) \/ Grown(c, rec)
  <2> HIDE DEF rec
  <2> QED BY <1>6, <1>7 DEF Dropped, Grown
<1>9. /\ \A d \in Cpus : d # c => probe'[d] = probe[d]
      /\ probe' \in [Cpus -> [id : Nat, i : Nat, pc : {"none", "fill", "submit"}]]
      /\ probe[c].i < Records(Message(c)) =>
           /\ probe'[c].id = probe[c].id /\ probe'[c].i = probe[c].i + 1
           /\ probe'[c].pc = "fill"
      /\ ~(probe[c].i < Records(Message(c))) => probe'[c] = None
  <2> DEFINE P == [id : Nat, i : Nat, pc : {"none", "fill", "submit"}]
             next == IF probe[c].i < Records(Message(c))
                     THEN [probe[c] EXCEPT !.i = probe[c].i + 1, !.pc = "fill"] ELSE None
  <2>1. probe[c] \in P
    BY <1>2
  <2>2. /\ next \in P
        /\ probe[c].i < Records(Message(c)) =>
             next.id = probe[c].id /\ next.i = probe[c].i + 1 /\ next.pc = "fill"
        /\ ~(probe[c].i < Records(Message(c))) => next = None
    <3> DEFINE q == probe[c]
               j == q.i + 1
               up == [q EXCEPT !.i = j, !.pc = "fill"]
    <3>0. up \in P /\ up.id = q.id /\ up.i = q.i + 1 /\ up.pc = "fill"
      <4>1. q \in P
        BY <2>1
      <4> HIDE DEF q
      <4>2. j \in Nat
        BY <4>1
      <4>3. up.id = q.id /\ up.i = q.i + 1 /\ up.pc = "fill"
        BY <4>1
      <4> HIDE DEF j
      <4>4. up \in P
        BY <4>1, <4>2, Zenon
      <4> QED BY <4>3, <4>4
    <3>1. CASE probe[c].i < Records(Message(c))
      <4>1. next = up
        BY <3>1
      <4> HIDE DEF up, next, P
      <4> QED BY <3>0, <3>1, <4>1
    <3>2. CASE ~(probe[c].i < Records(Message(c)))
      BY <3>2
    <3> QED BY <3>1, <3>2
  <2>3. probe' = [probe EXCEPT ![c] = next]
    BY <1>4
  <2> HIDE DEF next, P
  <2>4. /\ \A d \in Cpus : d # c => probe'[d] = probe[d]
        /\ probe' \in [Cpus -> P] /\ probe'[c] = next
    BY <1>2, <2>2, <2>3 DEF P
  <2> QED
    BY <2>2, <2>4 DEF P
<1> QED
  BY <1>1, <1>3, <1>8, <1>9

(* A ring that grows has one more record, at its end. *)
LEMMA GrownFacts ==
  ASSUME DumpInv, NEW c \in Cpus, NEW rec \in Record, Grown(c, rec)
  PROVE  /\ ring' \in [Cpus -> Seq(Record)] /\ \A d \in Cpus : Len(ring'[d]) <= RING
         /\ \A d \in Cpus : d # c => ring'[d] = ring[d]
         /\ Len(ring[c]) \in Nat /\ DOMAIN ring[c] = 1 .. Len(ring[c])
         /\ DOMAIN ring'[c] = 1 .. Len(ring[c]) + 1
         /\ \A k \in DOMAIN ring[c] : ring'[c][k] = ring[c][k]
         /\ ring'[c][Len(ring[c]) + 1] = rec
         /\ \A d \in Cpus : DOMAIN ring[d] \subseteq DOMAIN ring'[d]
<1>1. ring \in [Cpus -> Seq(Record)] /\ \A d \in Cpus : Len(ring[d]) <= RING
  BY DEF DumpInv, DumpTypes
<1>2. /\ ring' \in [Cpus -> Seq(Record)] /\ ring'[c] = Append(ring[c], rec)
      /\ \A d \in Cpus : d # c => ring'[d] = ring[d]
  BY <1>1 DEF Grown
<1> DEFINE s == ring[c]
           t == ring'[c]
<1>3. s \in Seq(Record) /\ t = Append(s, rec) /\ Len(s) <= RING /\ Len(s) # RING /\ RING \in Nat
  BY <1>1, <1>2, SockDumpAssumption DEF Grown
<1> HIDE DEF s, t
<1>4. /\ Len(s) \in Nat /\ DOMAIN s = 1 .. Len(s) /\ Len(t) = Len(s) + 1
      /\ DOMAIN t = 1 .. Len(s) + 1
      /\ \A k \in 1 .. Len(s) : t[k] = s[k]
      /\ t[Len(s) + 1] = rec
  BY <1>3
<1>5. Len(t) <= RING /\ DOMAIN s \subseteq DOMAIN t
  <2>1. Len(s) \in Nat /\ RING \in Nat /\ Len(s) <= RING /\ Len(s) # RING
    BY <1>3, <1>4, Zenon
  <2>2. Len(s) + 1 <= RING
    BY <2>1
  <2> QED BY <1>4, <2>2
<1>6. \A d \in Cpus : Len(ring'[d]) <= RING
  BY <1>1, <1>2, <1>5, Zenon DEF t
<1>7. \A d \in Cpus : DOMAIN ring[d] \subseteq DOMAIN ring'[d]
  BY <1>2, <1>5 DEF s, t
<1> QED
  BY <1>2, <1>4, <1>6, <1>7 DEF s, t

(* The record submitted is new, and is the next one the run makes. *)
LEMMA SubmitMade ==
  ASSUME DumpInv, NEW c \in Cpus, Submit(c), NEW y \in Ident
  PROVE  /\ ~Somewhere(XOf(c))
         /\ Made(y)' <=> Made(y) \/ y = XOf(c)
<1> DEFINE x == XOf(c)
           m == Message(c)
<1>1. /\ probe[c] # None /\ x \in Ident
      /\ \A d \in Cpus : d # c => probe'[d] = probe[d]
      /\ probe[c].i < Records(m) => /\ probe'[c].id = probe[c].id
                                    /\ probe'[c].i = probe[c].i + 1
      /\ ~(probe[c].i < Records(m)) => probe'[c] = None
      /\ arg' = arg /\ sends' = sends
  BY SubmitFacts
<1>2. /\ Running(probe[c], c) /\ probe[c].id \in DOMAIN sends /\ m \in Msgs
      /\ m = sends[probe[c].id].msg
      /\ probe[c].i \in 1 .. Records(m)
  BY <1>1, RunFacts
<1>3. /\ probe[c].id # 0 /\ sends[probe[c].id].cpu = c
      /\ Due(sends[probe[c].id], arg) = Records(m)
  BY <1>2, SentFacts DEF Running, Due
<1>4. Records(m) \in Nat
  BY <1>2, MessageFacts
<1>5. x.id = probe[c].id /\ x.i = probe[c].i /\ y.id \in Nat /\ y.i \in Nat
  BY DEF XOf, Ident
<1>6. y = x <=> y.id = x.id /\ y.i = x.i
  BY <1>1 DEF Ident
<1> HIDE DEF x, m
<1>7. ~Made(x)
  BY <1>2, <1>3, <1>4, <1>5 DEF Made
<1>8. Made(y)' <=> Made(y) \/ y = x
  <2>1. CASE y.id \notin DOMAIN sends
    BY <1>1, <1>2, <1>5, <1>6, <2>1 DEF Made
  <2>2. CASE y.id = x.id
    <3>1. Made(y) <=> y.i >= 1 /\ y.i < probe[c].i
      BY <1>2, <1>3, <1>5, <2>2 DEF Made
    <3>2. CASE probe[c].i < Records(m)
      <4>1. Made(y)' <=> y.i >= 1 /\ y.i < probe[c].i + 1
        BY <1>1, <1>2, <1>3, <1>5, <2>2, <3>2 DEF Made
      <4> QED
        BY <1>2, <1>4, <1>5, <1>6, <2>2, <3>1, <4>1
    <3>3. CASE ~(probe[c].i < Records(m))
      <4>1. probe'[c].id = 0
        BY <1>1, <3>3
      <4>2. Made(y)' <=> y.i >= 1 /\ y.i <= Records(m)
        BY <1>1, <1>2, <1>3, <1>5, <2>2, <4>1 DEF Made
      <4> QED
        BY <1>2, <1>4, <1>5, <1>6, <2>2, <3>1, <3>3, <4>2
    <3> QED BY <3>2, <3>3
  <2>3. CASE y.id \in DOMAIN sends /\ y.id # x.id
    <3> DEFINE d == sends[y.id].cpu
    <3>1. d \in Cpus /\ y.id # 0
      BY <2>3, SentFacts
    <3>2. probe'[c].id # y.id /\ probe[c].id # y.id
      BY <1>1, <1>5, <2>3, <3>1
    <3>3. Made(y) <=> y.i >= 1 /\ IF probe[d].id = y.id THEN y.i < probe[d].i
                                   ELSE y.i <= Due(sends[y.id], arg)
      BY <2>3 DEF Made
    <3>4. Made(y)' <=> y.i >= 1 /\ IF probe'[d].id = y.id THEN y.i < probe'[d].i
                                    ELSE y.i <= Due(sends[y.id], arg)
      BY <1>1, <2>3 DEF Made
    <3> HIDE DEF d
    <3>5. Made(y)' <=> Made(y)
      <4>1. CASE d = c
        BY <3>2, <3>3, <3>4, <4>1
      <4>2. CASE d # c
        BY <1>1, <3>1, <3>3, <3>4, <4>2
      <4> QED BY <4>1, <4>2
    <3> QED
      BY <1>6, <2>3, <3>5
  <2> QED BY <2>1, <2>2, <2>3
<1>9. Somewhere(x) <=> Made(x)
  BY <1>1 DEF DumpInv, MadeInv
<1> QED
  BY <1>7, <1>8, <1>9 DEF x

(* A new record in one more place is in no second one. *)
LEMMA SubmitUnique ==
  ASSUME DumpInv, NEW c \in Cpus, out' = out, ~Somewhere(XOf(c)),
         NEW rec \in Record, rec.x = XOf(c), Dropped(c) \/ Grown(c, rec)
  PROVE  /\ UniqueInv'
         /\ \A y \in Ident : Somewhere(y)' <=> Somewhere(y) \/ y = XOf(c)
<1> DEFINE x == XOf(c)
<1>1. /\ \A d \in Cpus : \A k \in DOMAIN ring[d] : ring[d][k].x # x
      /\ \A l \in DOMAIN out : out[l].x # x
      /\ x \notin lost
  BY DEF Somewhere
<1>2. UniqueInv
  BY DEF DumpInv
<1> HIDE DEF x
<1>3. CASE Dropped(c)
  <2>1. ring' = ring /\ lost' = lost \cup {x}
    BY <1>3 DEF Dropped, x
  <2>2. UniqueInv'
    BY <1>1, <1>2, <2>1 DEF UniqueInv
  <2>3. \A y \in Ident : Somewhere(y)' <=> Somewhere(y) \/ y = x
    BY <2>1 DEF Somewhere
  <2> QED BY <2>2, <2>3 DEF x
<1>4. CASE Grown(c, rec)
  <2> DEFINE e == Len(ring[c]) + 1
  <2>1. /\ \A d \in Cpus : d # c => ring'[d] = ring[d]
        /\ Len(ring[c]) \in Nat /\ DOMAIN ring[c] = 1 .. Len(ring[c])
        /\ DOMAIN ring'[c] = 1 .. e
        /\ \A k \in DOMAIN ring[c] : ring'[c][k] = ring[c][k]
        /\ ring'[c][e] = rec
        /\ \A d \in Cpus : DOMAIN ring[d] \subseteq DOMAIN ring'[d]
    BY <1>4, GrownFacts
  <2>2. lost' = lost /\ rec.x = x
    BY <1>4 DEF Grown, x
  <2>3. e \in DOMAIN ring'[c] /\ e \notin DOMAIN ring[c]
        /\ \A k \in DOMAIN ring'[c] : k \in DOMAIN ring[c] \/ k = e
    BY <2>1
  <2> HIDE DEF e
  <2>4. \A d \in Cpus : \A k \in DOMAIN ring'[d] :
          \/ k \in DOMAIN ring[d] /\ ring'[d][k] = ring[d][k] /\ ring'[d][k].x # x
          \/ d = c /\ k = e /\ ring'[d][k].x = x
    <3> SUFFICES ASSUME NEW d \in Cpus, NEW k \in DOMAIN ring'[d]
                 PROVE  \/ k \in DOMAIN ring[d] /\ ring'[d][k] = ring[d][k] /\ ring'[d][k].x # x
                        \/ d = c /\ k = e /\ ring'[d][k].x = x
      OBVIOUS
    <3>1. CASE d # c
      BY <1>1, <2>1, <3>1
    <3>2. CASE d = c /\ k \in DOMAIN ring[c]
      BY <1>1, <2>1, <3>2
    <3>3. CASE d = c /\ k = e
      BY <2>1, <2>2, <3>3
    <3> QED BY <2>3, <3>1, <3>2, <3>3
  <2>5. UniqueInv'
    <3>1. ASSUME NEW a \in Cpus, NEW b \in Cpus, NEW k \in DOMAIN ring'[a],
                 NEW l \in DOMAIN ring'[b], ring'[a][k].x = ring'[b][l].x
          PROVE  a = b /\ k = l
      BY <1>2, <2>4, <3>1 DEF UniqueInv
    <3>2. \A k, l \in DOMAIN out' : out'[k].x = out'[l].x => k = l
      BY <1>2 DEF UniqueInv
    <3>3. ASSUME NEW a \in Cpus, NEW k \in DOMAIN ring'[a]
          PROVE  ring'[a][k].x \notin lost' /\ \A l \in DOMAIN out' : ring'[a][k].x # out'[l].x
      BY <1>1, <1>2, <2>2, <2>4 DEF UniqueInv
    <3>4. \A l \in DOMAIN out' : out'[l].x \notin lost'
      BY <1>2, <2>2 DEF UniqueInv
    <3> QED BY <3>1, <3>2, <3>3, <3>4 DEF UniqueInv
  <2>6. ASSUME NEW y \in Ident PROVE Somewhere(y)' <=> Somewhere(y) \/ y = x
    <3>1. (\E d \in Cpus : \E k \in DOMAIN ring'[d] : ring'[d][k].x = y)
            <=> (\E d \in Cpus : \E k \in DOMAIN ring[d] : ring[d][k].x = y) \/ y = x
      BY <2>1, <2>2, <2>3, <2>4
    <3> QED
      BY <2>2, <3>1 DEF Somewhere
  <2> QED BY <2>5, <2>6 DEF x
<1> QED BY <1>3, <1>4

(* A submission keeps the invariant. *)
LEMMA SubmitStep ==
  ASSUME DumpInv, NEW c \in Cpus, Submit(c)
  PROVE  DumpInv'
<1> DEFINE x == XOf(c)
           m == Message(c)
           rec == RecordOf(packet[c], x, arg)
<1>1. /\ probe[c] # None /\ probe[c].pc = "submit" /\ x \in Ident
      /\ Dropped(c) \/ Grown(c, rec)
      /\ \A d \in Cpus : d # c => probe'[d] = probe[d]
      /\ probe' \in [Cpus -> [id : Nat, i : Nat, pc : {"none", "fill", "submit"}]]
      /\ probe[c].i < Records(m) => /\ probe'[c].id = probe[c].id
                                    /\ probe'[c].i = probe[c].i + 1
                                    /\ probe'[c].pc = "fill"
      /\ ~(probe[c].i < Records(m)) => probe'[c] = None
      /\ UNCHANGED <<arg, phase, sends, packet, out>>
  BY SubmitFacts
<1>2. /\ Running(probe[c], c) /\ c \in Slots /\ packet[c] \in Packet
      /\ probe[c].id \in DOMAIN sends /\ m \in Msgs
      /\ m = sends[probe[c].id].msg
      /\ probe[c].i \in 1 .. Records(m)
      /\ Len(packet[c].data) = arg.seg_size
  BY <1>1, RunFacts
<1>3. x.id = probe[c].id /\ x.i = probe[c].i
  BY DEF XOf
<1>4. HeadOf(packet[c], m, arg) /\ Filled(packet[c], m, x.i, arg) /\ arg \in Args
  BY <1>1, <1>2, <1>3, Zenon DEF DumpInv, SlotInv, DumpTypes
<1>5. rec \in Record /\ Truthful(parse_event(rec), m, arg)
  <2> HIDE DEF m, x
  <2> QED BY <1>1, <1>2, <1>4, RecordTruthful, SMTT(30)
<1>6. rec.x = x
  BY DEF RecordOf
<1> HIDE DEF rec, m
<1>7. ~Somewhere(x) /\ \A y \in Ident : Made(y)' <=> Made(y) \/ y = x
  BY <1>1, SubmitMade
<1>8. UniqueInv' /\ \A y \in Ident : Somewhere(y)' <=> Somewhere(y) \/ y = x
  BY <1>1, <1>5, <1>6, <1>7, SubmitUnique
<1>9. MadeInv'
  <2> SUFFICES ASSUME NEW y \in Ident PROVE Somewhere(y)' <=> Made(y)'
    BY DEF MadeInv
  <2>1. Somewhere(y) <=> Made(y)
    BY DEF DumpInv, MadeInv
  <2> QED BY <1>7, <1>8, <2>1
<1>10. DumpTypes'
  <2>1. /\ ring' \in [Cpus -> Seq(Record)] /\ \A d \in Cpus : Len(ring'[d]) <= RING
        /\ lost' \subseteq Ident
    <3>1. CASE Dropped(c)
      BY <1>1, <3>1 DEF Dropped, DumpInv, DumpTypes
    <3>2. CASE Grown(c, rec)
      BY <1>5, <3>2, GrownFacts, Zenon DEF Grown, DumpInv, DumpTypes
    <3> QED BY <1>1, <3>1, <3>2
  <2> QED
    BY <1>1, <2>1 DEF DumpInv, DumpTypes
<1>11. ProbeInv'
  <2> SUFFICES ASSUME NEW d \in Cpus PROVE (probe[d] = None \/ Running(probe[d], d))'
    BY DEF ProbeInv
  <2>1. CASE d # c
    BY <1>1, <2>1 DEF DumpInv, ProbeInv, Running
  <2>2. CASE d = c /\ probe[c].i < Records(m)
    <3>1. Records(m) \in Nat
      BY <1>2, MessageFacts
    <3>2. probe[c].i + 1 \in 1 .. Records(m)
      BY <1>2, <2>2, <3>1
    <3> QED
      BY <1>1, <1>2, <2>2, <3>2 DEF Running
  <2>3. CASE d = c /\ ~(probe[c].i < Records(m))
    BY <1>1, <2>3
  <2> QED BY <2>1, <2>2, <2>3
<1>12. SlotInv'
  <2> SUFFICES ASSUME NEW d \in Cpus, probe'[d] # None
               PROVE  /\ HeadOf(packet'[d], sends'[probe'[d].id].msg, arg')
                      /\ probe'[d].pc = "submit" =>
                           Filled(packet'[d], sends'[probe'[d].id].msg, probe'[d].i, arg')
    BY DEF SlotInv
  <2>1. CASE d # c
    <3>1. probe'[d] = probe[d] /\ probe[d] # None
      BY <1>1, <2>1
    <3> QED
      BY <1>1, <3>1 DEF DumpInv, SlotInv
  <2>2. CASE d = c
    <3>1. probe'[c].id = probe[c].id /\ probe'[c].pc = "fill"
      BY <1>1, <2>2
    <3> QED
      BY <1>1, <1>2, <1>4, <2>2, <3>1
  <2> QED BY <2>1, <2>2
<1>13. RecordInv'
  <2>1. CASE Dropped(c)
    BY <1>1, <2>1 DEF DumpInv, RecordInv, Dropped
  <2>2. CASE Grown(c, rec)
    <3> DEFINE e == Len(ring[c]) + 1
    <3>1. /\ \A d \in Cpus : d # c => ring'[d] = ring[d]
          /\ Len(ring[c]) \in Nat /\ DOMAIN ring[c] = 1 .. Len(ring[c])
          /\ DOMAIN ring'[c] = 1 .. e
          /\ \A k \in DOMAIN ring[c] : ring'[c][k] = ring[c][k]
          /\ ring'[c][e] = rec
      BY <1>5, <2>2, GrownFacts
    <3>2. \A k \in DOMAIN ring'[c] : k \in DOMAIN ring[c] \/ k = e
      BY <3>1
    <3> HIDE DEF e
    <3>3. ASSUME NEW d \in Cpus, NEW k \in DOMAIN ring'[d]
          PROVE  /\ ring'[d][k].x.id \in DOMAIN sends
                 /\ Truthful(parse_event(ring'[d][k]), sends[ring'[d][k].x.id].msg, arg)
      <4>1. CASE d # c
        BY <3>1, <4>1 DEF DumpInv, RecordInv
      <4>2. CASE d = c /\ k \in DOMAIN ring[c]
        BY <3>1, <4>2 DEF DumpInv, RecordInv
      <4>3. CASE d = c /\ k = e
        <5> HIDE DEF x
        <5> QED BY <1>2, <1>3, <1>5, <1>6, <3>1, <4>3
      <4> QED BY <3>2, <4>1, <4>2, <4>3
    <3> QED
      BY <1>1, <3>3 DEF DumpInv, RecordInv
  <2> QED BY <1>1, <2>1, <2>2
<1> QED
  BY <1>8, <1>9, <1>10, <1>11, <1>12, <1>13 DEF DumpInv

-----------------------------------------------------------------------------
(* parse_event makes an event of a record, about the same segment. *)
LEMMA ParseType ==
  ASSUME NEW rec \in Record
  PROVE  parse_event(rec) \in Event /\ parse_event(rec).x = rec.x
<1> DEFINE data == Unpack(rec.raw, rec.len)
           r == parse_event(rec)
<1>1. /\ rec.x \in Ident /\ rec.pid \in Pids /\ rec.path \in Seq(Byte)
      /\ rec.len \in Nat /\ rec.err \in BOOLEAN /\ rec.raw \in Seq(Wire)
  BY DEF Record
<1>2. data \in Seq(Wire)
  BY <1>1, UnpackIs
<1>3. r = [x |-> rec.x, pid |-> rec.pid, path |-> rec.path, len |-> rec.len,
           err |-> rec.err, data |-> data]
  BY DEF parse_event, Unpack
<1> HIDE DEF data, r
<1>4. r \in Event /\ r.x = rec.x
  BY <1>1, <1>2, <1>3 DEF Event
<1> QED
  BY <1>4 DEF r

(* The first record of a ring moves to the end of the output. *)
LEMMA PollFacts ==
  ASSUME DumpInv, NEW c \in Cpus, Poll(c)
  PROVE  /\ UNCHANGED <<arg, phase, sends, probe, packet, lost>>
         /\ ring' \in [Cpus -> Seq(Record)] /\ \A d \in Cpus : Len(ring'[d]) <= RING
         /\ \A d \in Cpus : d # c => ring'[d] = ring[d]
         /\ Len(ring[c]) \in Nat /\ DOMAIN ring[c] = 1 .. Len(ring[c]) /\ Len(ring[c]) > 0
         /\ DOMAIN ring'[c] = 1 .. Len(ring[c]) - 1
         /\ \A k \in DOMAIN ring'[c] : ring'[c][k] = ring[c][k + 1]
         /\ out' \in Seq(Event) /\ Len(out) \in Nat /\ DOMAIN out = 1 .. Len(out)
         /\ DOMAIN out' = 1 .. Len(out) + 1
         /\ \A k \in DOMAIN out : out'[k] = out[k]
         /\ out'[Len(out) + 1] = parse_event(ring[c][1])
         /\ ring[c][1] \in Record
<1> DEFINE s == ring[c]
           t == ring'[c]
           e == parse_event(s[1])
<1>1. /\ UNCHANGED <<arg, phase, sends, probe, packet, lost>>
      /\ s # <<>> /\ out' = Append(out, parse_event(Head(s)))
      /\ ring' = [ring EXCEPT ![c] = Tail(s)]
  BY DEF Poll
<1>2. ring \in [Cpus -> Seq(Record)] /\ out \in Seq(Event) /\ \A d \in Cpus : Len(ring[d]) <= RING
  BY DEF DumpInv, DumpTypes
<1>3. s \in Seq(Record) /\ Len(s) <= RING /\ RING \in Nat
  BY <1>2, SockDumpAssumption
<1> HIDE DEF s
<1>4. /\ Len(s) \in Nat /\ DOMAIN s = 1 .. Len(s) /\ Len(s) > 0
      /\ Head(s) = s[1] /\ s[1] \in Record
      /\ Tail(s) \in Seq(Record) /\ Len(Tail(s)) = Len(s) - 1
      /\ \A k \in 1 .. Len(s) - 1 : Tail(s)[k] = s[k + 1]
  BY <1>1, <1>3
<1>5. /\ ring' \in [Cpus -> Seq(Record)] /\ t = Tail(s)
      /\ \A d \in Cpus : d # c => ring'[d] = ring[d]
  BY <1>1, <1>2, <1>4
<1> HIDE DEF t
<1>6. /\ DOMAIN t = 1 .. Len(s) - 1 /\ Len(t) <= RING
      /\ \A k \in 1 .. Len(s) - 1 : t[k] = s[k + 1]
  <2> DEFINE u == Tail(s)
  <2>1. u \in Seq(Record) /\ Len(u) = Len(s) - 1 /\ \A k \in 1 .. Len(s) - 1 : u[k] = s[k + 1]
    BY <1>4
  <2>2. t = u
    BY <1>5
  <2> HIDE DEF u
  <2>3. DOMAIN u = 1 .. Len(u)
    BY <2>1
  <2> QED BY <1>3, <1>4, <2>1, <2>2, <2>3
<1>7. \A d \in Cpus : Len(ring'[d]) <= RING
  BY <1>2, <1>5, <1>6, Zenon DEF t
<1>8. e \in Event /\ out' = Append(out, e)
  BY <1>1, <1>4, ParseType
<1> HIDE DEF e
<1>9. /\ out' \in Seq(Event) /\ Len(out) \in Nat /\ DOMAIN out = 1 .. Len(out)
      /\ DOMAIN out' = 1 .. Len(out) + 1
      /\ \A k \in 1 .. Len(out) : out'[k] = out[k]
      /\ out'[Len(out) + 1] = e
  BY <1>2, <1>8
<1> QED
  BY <1>1, <1>4, <1>5, <1>6, <1>7, <1>9 DEF s, t, e

(* Reading a ring keeps the invariant: every record has one place before and *)
(* after, and an event says what its record said.                            *)
LEMMA PollStep ==
  ASSUME DumpInv, NEW c \in Cpus, Poll(c)
  PROVE  DumpInv'
<1> DEFINE o == Len(out) + 1
           h == ring[c][1]
<1>1. /\ UNCHANGED <<arg, phase, sends, probe, packet, lost>>
      /\ ring' \in [Cpus -> Seq(Record)] /\ \A d \in Cpus : Len(ring'[d]) <= RING
      /\ \A d \in Cpus : d # c => ring'[d] = ring[d]
      /\ Len(ring[c]) \in Nat /\ DOMAIN ring[c] = 1 .. Len(ring[c]) /\ Len(ring[c]) > 0
      /\ DOMAIN ring'[c] = 1 .. Len(ring[c]) - 1
      /\ \A k \in DOMAIN ring'[c] : ring'[c][k] = ring[c][k + 1]
      /\ out' \in Seq(Event) /\ Len(out) \in Nat /\ DOMAIN out = 1 .. Len(out)
      /\ DOMAIN out' = 1 .. o
      /\ \A k \in DOMAIN out : out'[k] = out[k]
      /\ out'[o] = parse_event(h) /\ h \in Record
  BY PollFacts
<1>2. parse_event(h).x = h.x
  BY <1>1, ParseType
<1>3. /\ 1 \in DOMAIN ring[c]
      /\ \A k \in DOMAIN ring'[c] : k + 1 \in DOMAIN ring[c] /\ k + 1 # 1
      /\ \A k \in DOMAIN ring[c] : k = 1 \/ (k - 1 \in DOMAIN ring'[c] /\ (k - 1) + 1 = k)
      /\ \A k, l \in DOMAIN ring'[c] : k + 1 = l + 1 => k = l
      /\ o \in DOMAIN out' /\ o \notin DOMAIN out
      /\ \A k \in DOMAIN out' : k \in DOMAIN out \/ k = o
      /\ \A k \in DOMAIN out : k \in DOMAIN out'
  BY <1>1, SMTT(30)
<1> HIDE DEF o, h
<1>4. h = ring[c][1]
  BY DEF h
<1>5. DumpTypes' /\ ProbeInv' /\ SlotInv'
  BY <1>1, Zenon DEF DumpInv, DumpTypes, ProbeInv, Running, SlotInv
(* Where a record of the next state was before. *)
<1>6. \A d \in Cpus : \A k \in DOMAIN ring'[d] :
        \E j \in DOMAIN ring[d] : /\ ring'[d][k] = ring[d][j]
                                  /\ j = IF d = c THEN k + 1 ELSE k
  BY <1>1, <1>3, Zenon
<1>7. RecordInv'
  <2>1. /\ h.x.id \in DOMAIN sends
        /\ Truthful(parse_event(h), sends[h.x.id].msg, arg)
    BY <1>3, <1>4 DEF DumpInv, RecordInv
  <2>2. ASSUME NEW k \in DOMAIN out'
        PROVE  /\ out'[k].x.id \in DOMAIN sends
               /\ Truthful(out'[k], sends[out'[k].x.id].msg, arg)
    <3>1. CASE k = o
      BY <1>1, <1>2, <2>1, <3>1
    <3>2. CASE k \in DOMAIN out
      BY <1>1, <3>2 DEF DumpInv, RecordInv
    <3> QED BY <1>3, <3>1, <3>2
  <2>3. ASSUME NEW d \in Cpus, NEW k \in DOMAIN ring'[d]
        PROVE  /\ ring'[d][k].x.id \in DOMAIN sends
               /\ Truthful(parse_event(ring'[d][k]), sends[ring'[d][k].x.id].msg, arg)
    BY <1>6 DEF DumpInv, RecordInv
  <2> QED
    BY <1>1, <2>2, <2>3 DEF RecordInv
<1>8. UniqueInv'
  <2> USE DEF DumpInv, UniqueInv
  <2>1. ASSUME NEW a \in Cpus, NEW b \in Cpus, NEW k \in DOMAIN ring'[a],
               NEW l \in DOMAIN ring'[b], ring'[a][k].x = ring'[b][l].x
        PROVE  a = b /\ k = l
    <3>1. PICK i \in DOMAIN ring[a] : ring'[a][k] = ring[a][i] /\ i = IF a = c THEN k + 1 ELSE k
      BY <1>6
    <3>2. PICK j \in DOMAIN ring[b] : ring'[b][l] = ring[b][j] /\ j = IF b = c THEN l + 1 ELSE l
      BY <1>6
    <3>3. a = b /\ i = j
      BY <2>1, <3>1, <3>2
    <3> QED
      BY <1>3, <3>1, <3>2, <3>3
  <2>2. ASSUME NEW d \in Cpus, NEW k \in DOMAIN ring'[d] PROVE ring'[d][k].x # h.x
    <3>1. PICK j \in DOMAIN ring[d] : ring'[d][k] = ring[d][j] /\ j = IF d = c THEN k + 1 ELSE k
      BY <1>6
    <3>2. d = c => j # 1
      BY <1>3, <3>1
    <3> QED
      BY <1>3, <1>4, <3>1, <3>2
  <2>3. ASSUME NEW k \in DOMAIN out PROVE out[k].x # h.x
    BY <1>3, <1>4
  <2>4. \A k, l \in DOMAIN out' : out'[k].x = out'[l].x => k = l
    BY <1>1, <1>2, <1>3, <2>3
  <2>5. ASSUME NEW d \in Cpus, NEW k \in DOMAIN ring'[d]
        PROVE  /\ ring'[d][k].x \notin lost'
               /\ \A l \in DOMAIN out' : ring'[d][k].x # out'[l].x
    <3>1. PICK j \in DOMAIN ring[d] : ring'[d][k] = ring[d][j]
      BY <1>6
    <3>2. ASSUME NEW l \in DOMAIN out' PROVE ring'[d][k].x # out'[l].x
      <4>1. CASE l = o
        BY <1>1, <1>2, <2>2, <4>1
      <4>2. CASE l \in DOMAIN out
        BY <1>1, <3>1, <4>2
      <4> QED BY <1>3, <4>1, <4>2
    <3> QED BY <1>1, <3>1, <3>2
  <2>6. \A l \in DOMAIN out' : out'[l].x \notin lost'
    BY <1>1, <1>2, <1>3, <1>4, SMTT(30)
  <2> QED
    BY <2>1, <2>4, <2>5, <2>6
<1>9. MadeInv'
  <2> SUFFICES ASSUME NEW x \in Ident PROVE Somewhere(x)' <=> Made(x)'
    BY DEF MadeInv
  <2>1. Made(x)' <=> Somewhere(x)
    BY <1>1, Zenon DEF DumpInv, MadeInv, Made
  <2>2. (\E l \in DOMAIN out' : out'[l].x = x) <=> (\E l \in DOMAIN out : out[l].x = x) \/ h.x = x
    <3>1. out'[o].x = h.x /\ \A l \in DOMAIN out : out'[l].x = out[l].x
      BY <1>1, <1>2, Zenon
    <3> QED BY <1>3, <3>1
  <2>3. (\E d \in Cpus : \E k \in DOMAIN ring[d] : ring[d][k].x = x)
          <=> (\E d \in Cpus : \E k \in DOMAIN ring'[d] : ring'[d][k].x = x) \/ h.x = x
    <3>1. ASSUME NEW d \in Cpus, NEW k \in DOMAIN ring[d], ring[d][k].x = x, h.x # x
          PROVE  \E j \in DOMAIN ring'[d] : ring'[d][j].x = x
      <4>1. CASE d # c
        BY <1>1, <3>1, <4>1, Zenon
      <4>2. CASE d = c
        <5>1. k # 1
          BY <1>4, <3>1, <4>2
        <5>2. k - 1 \in DOMAIN ring'[c] /\ (k - 1) + 1 = k
          BY <1>3, <4>2, <5>1
        <5>3. ring'[c][k - 1] = ring[c][k]
          BY <1>1, <5>2
        <5> QED BY <3>1, <4>2, <5>2, <5>3
      <4> QED BY <4>1, <4>2
    <3> QED
      BY <1>3, <1>4, <1>6, <3>1
  <2> QED
    BY <1>1, <2>1, <2>2, <2>3 DEF Somewhere
<1> QED
  BY <1>5, <1>7, <1>8, <1>9 DEF DumpInv

-----------------------------------------------------------------------------
(* The invariant is inductive. *)
LEMMA DumpStep == DumpInv /\ [Next]_vars => DumpInv'
<1> SUFFICES ASSUME DumpInv, [Next]_vars PROVE DumpInv'
  OBVIOUS
<1>1. CASE Main \/ Signal
  BY <1>1, MainStep
<1>2. ASSUME NEW c \in Cpus, NEW m \in Msgs, Send(c, m) PROVE DumpInv'
  BY <1>2, SendStep
<1>3. ASSUME NEW c \in Cpus, Fill(c) PROVE DumpInv'
  BY <1>3, FillStep
<1>4. ASSUME NEW c \in Cpus, Submit(c) PROVE DumpInv'
  BY <1>4, SubmitStep
<1>5. ASSUME NEW c \in Cpus, Poll(c) PROVE DumpInv'
  BY <1>5, PollStep
<1>6. CASE UNCHANGED vars
  <2>1. phase' \in DOMAIN After \cup {"monitor", "stopped"}
    BY <1>6 DEF vars, DumpInv, DumpTypes
  <2> QED
    BY <1>6, <2>1, MainKeeps DEF vars
<1> QED
  BY <1>1, <1>2, <1>3, <1>4, <1>5, <1>6 DEF Next

(* It holds in every state of sockdump. *)
LEMMA DumpAlways == Spec => []DumpInv
  BY DumpInit, DumpStep, PTL DEF Spec

(* Types: no bpf_probe_read writes past data[], whatever is sent; every run  *)
(* of the program is within the segments of its message; no ring exceeds its *)
(* pages (the clamps of the read and submit calls, the loop's bound).        *)
THEOREM DumpTypesOK == Spec => []TypeOK
<1>1. DumpInv => TypeOK
  <2> SUFFICES ASSUME DumpInv PROVE TypeOK
    OBVIOUS
  <2>1. ASSUME NEW c \in Cpus, probe[c] # None
        PROVE  /\ probe[c].id \in DOMAIN sends
               /\ probe[c].i \in 1 .. Records(Message(c))
               /\ probe[c].pc \in {"fill", "submit"}
    BY <2>1, RunFacts DEF Running
  <2>2. \A n \in Slots : Len(packet[n].data) = arg.seg_size /\ packet[n].len \in Nat
    BY DEF DumpInv, DumpTypes, Packet
  <2> QED
    BY <2>1, <2>2 DEF TypeOK, DumpInv, DumpTypes
<1> QED
  BY <1>1, DumpAlways, PTL

(* Whatever other CPUs send meanwhile, an event that parse_event returns, or *)
(* will return for a record in a ring, is about one segment of one message:  *)
(* its pid, its path, and its first bytes cut at seg_size.                   *)
THEOREM EventsFaithful == Spec => []Faithful
<1>1. DumpInv => Faithful
  <2> SUFFICES ASSUME DumpInv, NEW r \in Parsed
               PROVE  LET m   == sends[r.x.id].msg
                          seg == m.segs[r.x.i]
                          n   == Least(Len(seg), arg.seg_size)
                      IN  /\ r.pid = m.pid
                          /\ \E a \in Matched(arg.sock, m.own, m.peer) :
                               r.path = Bytes(Memory(a), UNIX_PATH_MAX)
                          /\ r.err <=> Unreadable(m)
                          /\ r.err => r.data = <<>> /\ r.len = m.len
                          /\ ~r.err =>
                               /\ r.len = Len(seg)
                               /\ SubSeq(r.data, 1, n) \in {SubSeq(seg, 1, n), Bytes(<<>>, n)}
                               /\ Len(seg) <= arg.seg_size \/ arg.seg_size % ALIGN = 0 =>
                                    Len(r.data) = n
    BY Zenon DEF Faithful
  <2>1. Truthful(r, sends[r.x.id].msg, arg)
    <3>1. CASE r \in Range(out)
      BY <3>1 DEF Range, DumpInv, RecordInv
    <3>2. ASSUME NEW w \in Waiting, r = parse_event(ring[w[1]][w[2]])
          PROVE  Truthful(r, sends[r.x.id].msg, arg)
      <4> DEFINE c == w[1]
                 k == w[2]
      <4>1. c \in Cpus /\ k \in 1 .. RING /\ k <= Len(ring[c])
        BY DEF Waiting
      <4> HIDE DEF c, k
      <4>2. ring[c] \in Seq(Record)
        BY <4>1 DEF DumpInv, DumpTypes
      <4>3. k \in DOMAIN ring[c] /\ ring[c][k] \in Record
        BY <4>1, <4>2, SockDumpAssumption
      <4>4. r = parse_event(ring[c][k])
        BY <3>2 DEF c, k
      <4>5. r.x = ring[c][k].x
        BY <4>3, <4>4, ParseType
      <4> QED
        BY <4>1, <4>3, <4>4, <4>5 DEF DumpInv, RecordInv
    <3> QED
      BY <3>1, <3>2 DEF Parsed
  <2> DEFINE m == sends[r.x.id].msg
             seg == m.segs[r.x.i]
  <2>2. HeadOf(r, m, arg) /\ Filled(r, m, r.x.i, arg) /\ (r.err => r.data = <<>>)
    BY <2>1, Zenon DEF Truthful
  <2>3. ~r.err /\ (Len(seg) <= arg.seg_size \/ arg.seg_size % ALIGN = 0) =>
          Len(r.data) = Least(Len(seg), arg.seg_size)
    BY <2>1, Zenon DEF Truthful
  <2>4. ~r.err => r.len = Len(seg) /\ Captured(r.data, seg, arg)
    BY <2>2, Zenon DEF Filled
  <2>5. (r.err <=> Unreadable(m)) /\ (r.err => r.len = m.len)
    BY <2>2 DEF Filled
  <2> QED
    BY <2>2, <2>3, <2>4, <2>5, Zenon DEF HeadOf, Captured
<1> QED
  BY <1>1, DumpAlways, PTL

-----------------------------------------------------------------------------
Finite == INSTANCE FiniteSetTheorems

(* Sets with no element and with one, and finite sets, counted. *)
LEMMA Counting ==
  /\ Cardinality({}) = 0
  /\ \A z : Cardinality({z}) = 1
  /\ \A S : IsFiniteSet(S) => Cardinality(S) \in Nat
<1>1. \A S : Finite!Cardinality(S) = Cardinality(S)
  BY Zenon DEF Finite!Cardinality, Cardinality
<1>2. \A S : Finite!IsFiniteSet(S) <=> IsFiniteSet(S)
  BY Zenon DEF Finite!IsFiniteSet, IsFiniteSet
<1>3. Cardinality({}) = 0 /\ \A z : Cardinality({z}) = 1
  BY <1>1, Finite!FS_EmptySet, Finite!FS_Singleton
<1>4. \A S : IsFiniteSet(S) => Cardinality(S) \in Nat
  BY <1>1, <1>2, Finite!FS_CardinalityType
<1> QED
  BY <1>3, <1>4, Zenon

(* The slots are numbered from 0. *)
LEMMA SlotsAre ==
  /\ NUM_CPUS \in Nat /\ Slots = 0 .. NUM_CPUS - 1
  /\ \A c \in Cpus : c \in Slots <=> c < NUM_CPUS
<1>1. NUM_CPUS \in Nat
  BY SockDumpAssumption, Counting DEF NUM_CPUS
<1> QED
  BY <1>1, SockDumpAssumption DEF Slots

(* A record's places, counted. *)
Copies(x) == Cardinality({w \in Waiting : ring[w[1]][w[2]].x = x})
             + Cardinality({k \in DOMAIN out : out[k].x = x})
             + Cardinality({x} \cap lost)
LEMMA CopiesAre ==
  ASSUME DumpInv, NEW x \in Ident
  PROVE  Copies(x) = IF Made(x) THEN 1 ELSE 0
<1> DEFINE W == {w \in Waiting : ring[w[1]][w[2]].x = x}
           O == {k \in DOMAIN out : out[k].x = x}
           L == {x} \cap lost
<1>1. Copies(x) = Cardinality(W) + Cardinality(O) + Cardinality(L)
  BY DEF Copies
<1>2. Cardinality({}) = 0 /\ \A z : Cardinality({z}) = 1
  BY Counting, Zenon
<1>3. Somewhere(x) <=> Made(x)
  BY DEF DumpInv, MadeInv
<1>4. ASSUME NEW w \in W
      PROVE  \E c \in Cpus : \E k \in DOMAIN ring[c] : w = <<c, k>> /\ ring[c][k].x = x
  <2> DEFINE c == w[1]
             k == w[2]
  <2>1. c \in Cpus /\ k \in 1 .. RING /\ k <= Len(ring[c]) /\ w = <<c, k>> /\ ring[c][k].x = x
    BY DEF Waiting
  <2> HIDE DEF c, k
  <2>2. ring[c] \in Seq(Record) /\ RING \in Nat
    BY <2>1, SockDumpAssumption DEF DumpInv, DumpTypes
  <2>3. k \in DOMAIN ring[c]
    BY <2>1, <2>2
  <2> QED BY <2>1, <2>3
<1>5. ASSUME NEW c \in Cpus, NEW k \in DOMAIN ring[c], ring[c][k].x = x
      PROVE  <<c, k>> \in W
  <2>1. ring[c] \in Seq(Record) /\ RING \in Nat /\ Len(ring[c]) <= RING
    BY SockDumpAssumption DEF DumpInv, DumpTypes
  <2>2. k \in 1 .. RING /\ k <= Len(ring[c])
    BY <2>1
  <2> QED BY <1>5, <2>2 DEF Waiting
<1> HIDE DEF W
<1>6. CASE ~Somewhere(x)
  <2>1. W = {} /\ O = {} /\ L = {}
    BY <1>4, <1>6 DEF Somewhere
  <2> HIDE DEF O, L
  <2> QED
    BY <1>1, <1>2, <1>3, <1>6, <2>1
<1>7. ASSUME NEW c \in Cpus, NEW k \in DOMAIN ring[c], ring[c][k].x = x
      PROVE  Copies(x) = 1
  <2>1. O = {} /\ L = {}
    BY <1>7 DEF DumpInv, UniqueInv
  <2>2. W = {<<c, k>>}
    <3>1. ASSUME NEW w \in W PROVE w = <<c, k>>
      <4>1. PICK d \in Cpus : \E l \in DOMAIN ring[d] : w = <<d, l>> /\ ring[d][l].x = x
        BY <1>4
      <4>2. PICK l \in DOMAIN ring[d] : w = <<d, l>> /\ ring[d][l].x = x
        BY <4>1
      <4>3. d = c /\ l = k
        BY <1>7, <4>2 DEF DumpInv, UniqueInv
      <4> QED BY <4>2, <4>3
    <3> QED BY <1>5, <1>7, <3>1
  <2>3. Cardinality({<<c, k>>}) = 1
    BY <1>2, Zenon
  <2> HIDE DEF O, L
  <2> QED
    BY <1>1, <1>2, <2>1, <2>2, <2>3
<1>8. ASSUME NEW l \in DOMAIN out, out[l].x = x PROVE Copies(x) = 1
  <2>1. L = {} /\ O = {l}
    BY <1>8 DEF DumpInv, UniqueInv
  <2>2. W = {}
    BY <1>4, <1>8 DEF DumpInv, UniqueInv
  <2>3. Cardinality({l}) = 1
    BY <1>2, Zenon
  <2> HIDE DEF O, L
  <2> QED
    BY <1>1, <1>2, <2>1, <2>2, <2>3
<1>9. ASSUME x \in lost PROVE Copies(x) = 1
  <2>1. L = {x} /\ O = {}
    BY <1>9 DEF DumpInv, UniqueInv
  <2>2. W = {}
    BY <1>4, <1>9 DEF DumpInv, UniqueInv
  <2>3. Cardinality({x}) = 1
    BY <1>2, Zenon
  <2> HIDE DEF O, L
  <2> QED
    BY <1>1, <1>2, <2>1, <2>2, <2>3
<1> QED
  BY <1>3, <1>6, <1>7, <1>8, <1>9 DEF Somewhere

(* No record is made twice and none disappears unnoticed: each segment of a  *)
(* message that the program was about, up to the limit of segments, is       *)
(* waiting in one ring, was output once, or was dropped by the ring; a       *)
(* message it was not about leaves nothing.                                  *)
THEOREM RecordsAccounted == Spec => []Accounted
<1>1. DumpInv => Accounted
  <2> SUFFICES ASSUME DumpInv, NEW id \in DOMAIN sends, \A c \in Cpus : probe[c].id # id,
                      NEW i \in 1 .. Max({Len(sends[id].msg.segs), 1})
               PROVE  Copies([id |-> id, i |-> i])
                        = IF i <= (IF ~( /\ sends[id].probed /\ sends[id].cpu < NUM_CPUS
                                         /\ PidAllows(sends[id].msg)
                                         /\ Matched(arg.sock, sends[id].msg.own, sends[id].msg.peer) # {})
                                   THEN 0
                                   ELSE IF sends[id].msg.iter = "iovec"
                                   THEN Least(Len(sends[id].msg.segs), SEGS_PER_MSG)
                                   ELSE 1)
                          THEN 1 ELSE 0
    BY Zenon DEF Accounted, Copies
  <2> DEFINE x == [id |-> id, i |-> i]
             m == sends[id].msg
             z == Max({Len(m.segs), 1})
  <2>1. m \in Msgs /\ sends[id].cpu \in Cpus /\ id \in Nat
    BY SentFacts
  <2>2. z \in Nat
    <3>1. Len(m.segs) \in Nat
      BY <2>1, MessageFacts
    <3> HIDE DEF m
    <3>2. \E v \in {Len(m.segs), 1} : \A w \in {Len(m.segs), 1} : v >= w
      BY <3>1
    <3>3. z \in {Len(m.segs), 1}
      BY <3>2 DEF Max
    <3> QED BY <3>1, <3>3
  <2>3. i \in Nat /\ i >= 1
    <3>1. i \in 1 .. z
      OBVIOUS
    <3> HIDE DEF z
    <3> QED BY <2>2, <3>1
  <2>4. x \in Ident /\ x.id = id /\ x.i = i
    BY <2>1, <2>3 DEF Ident
  <2>5. Made(x) <=> i <= Due(sends[id], arg)
    BY <2>1, <2>3, <2>4 DEF Made
  <2>6. Copies(x) = IF Made(x) THEN 1 ELSE 0
    BY <2>4, CopiesAre
  <2>7. sends[id].cpu < NUM_CPUS <=> sends[id].cpu \in Slots
    BY <2>1, SlotsAre
  <2> HIDE DEF x
  <2> QED
    BY <2>5, <2>6, <2>7, Zenon DEF Due, About, Records, PidAllows, x
<1> QED
  BY <1>1, DumpAlways, PTL
=============================================================================
