-------------------------- MODULE SockFilterProofs --------------------------
(***************************************************************************)
(* sockdump's filter compares words of bytes and selects names: proved for *)
(* every argument, every pair of addresses, every UNIX_PATH_MAX and every  *)
(* size of a word.  Two byte sequences are compared index by index.        *)
(***************************************************************************)
EXTENDS SockDump, SequenceTheorems, TLAPS

(* The first n elements of a sequence. *)
LEMMA Start ==
  ASSUME NEW S, NEW s \in Seq(S), NEW n \in 0 .. Len(s)
  PROVE  /\ SubSeq(s, 1, n) \in Seq(S)
         /\ Len(SubSeq(s, 1, n)) = n
         /\ \A k \in 1 .. n : SubSeq(s, 1, n)[k] = s[k]
<1>1. Len(s) \in Nat /\ \A k \in 1 .. n : s[k] \in S
  OBVIOUS
<1>2. /\ SubSeq(s, 1, n) \in Seq(S)
      /\ Len(SubSeq(s, 1, n)) = IF 1 <= n THEN n - 1 + 1 ELSE 0
      /\ \A k \in 1 .. n - 1 + 1 : SubSeq(s, 1, n)[k] = s[1 + k - 1]
  BY <1>1, SubSeqProperties
<1> DEFINE t == SubSeq(s, 1, n)
<1>3. SubSeq(s, 1, n) = t
  OBVIOUS
<1> HIDE DEF t
<1> QED
  BY <1>1, <1>2, <1>3

(* The elements of a sequence behind its first n. *)
LEMMA Rest ==
  ASSUME NEW S, NEW s \in Seq(S), NEW n \in 0 .. Len(s)
  PROVE  /\ SubSeq(s, n + 1, Len(s)) \in Seq(S)
         /\ Len(SubSeq(s, n + 1, Len(s))) = Len(s) - n
         /\ \A k \in 1 .. Len(s) - n : SubSeq(s, n + 1, Len(s))[k] = s[n + k]
<1>1. Len(s) \in Nat /\ \A k \in n + 1 .. Len(s) : s[k] \in S
  OBVIOUS
<1>2. /\ SubSeq(s, n + 1, Len(s)) \in Seq(S)
      /\ Len(SubSeq(s, n + 1, Len(s))) = IF n + 1 <= Len(s) THEN Len(s) - (n + 1) + 1 ELSE 0
      /\ \A k \in 1 .. Len(s) - (n + 1) + 1 : SubSeq(s, n + 1, Len(s))[k] = s[n + 1 + k - 1]
  BY <1>1, SubSeqProperties
<1> DEFINE t == SubSeq(s, n + 1, Len(s))
<1>3. SubSeq(s, n + 1, Len(s)) = t
  OBVIOUS
<1> HIDE DEF t
<1> QED
  BY <1>1, <1>2, <1>3

(* Byte k of memory, zero further out. *)
ByteAt(mem, k) == IF k <= Len(mem) THEN mem[k] ELSE NUL

(* Bytes reads a sequence of n bytes. *)
LEMMA BytesIs ==
  ASSUME NEW mem \in Seq(Byte), NEW n \in Nat
  PROVE  /\ Bytes(mem, n) \in Seq(Byte)
         /\ Len(Bytes(mem, n)) = n
         /\ \A k \in 1..n : Bytes(mem, n)[k] = ByteAt(mem, k)
<1>1. NUL \in Byte
  BY DEF Byte
<1>2. \A k \in 1..n : ByteAt(mem, k) \in Byte
  BY <1>1 DEF ByteAt
<1>3. Bytes(mem, n) = [k \in 1..n |-> ByteAt(mem, k)]
  BY DEF Bytes, ByteAt
<1> QED
  BY <1>2, <1>3

(* Bytes read over the front of a buffer leave the rest of it alone. *)
Over(src, buf) == src \o SubSeq(buf, Len(src) + 1, Len(buf))
LEMMA OverIs ==
  ASSUME NEW src \in Seq(Byte), NEW buf \in Seq(Byte), Len(src) <= Len(buf)
  PROVE  /\ Over(src, buf) \in Seq(Byte)
         /\ Len(Over(src, buf)) = Len(buf)
         /\ \A k \in 1 .. Len(buf) :
              Over(src, buf)[k] = IF k <= Len(src) THEN src[k] ELSE buf[k]
<1> DEFINE res == Over(src, buf)
<1>1. Len(src) \in 0 .. Len(buf) /\ Len(src) \in Nat /\ Len(buf) \in Nat
  OBVIOUS
<1> DEFINE t == SubSeq(buf, Len(src) + 1, Len(buf))
<1>2. /\ t \in Seq(Byte) /\ Len(t) = Len(buf) - Len(src)
      /\ \A k \in 1 .. Len(buf) - Len(src) : t[k] = buf[Len(src) + k]
  BY <1>1, Rest, Zenon
<1>3. res = src \o t
  BY DEF Over
<1> HIDE DEF t, res
<1>4. /\ res \in Seq(Byte) /\ Len(res) = Len(src) + Len(t)
      /\ \A k \in 1 .. Len(src) + Len(t) :
           res[k] = IF k <= Len(src) THEN src[k] ELSE t[k - Len(src)]
  BY <1>2, <1>3, ConcatProperties
<1>5. Len(res) = Len(buf)
  BY <1>1, <1>2, <1>4
<1>6. ASSUME NEW k \in 1 .. Len(buf)
      PROVE  res[k] = IF k <= Len(src) THEN src[k] ELSE buf[k]
  <2>1. CASE k <= Len(src)
    BY <1>1, <1>2, <1>4, <2>1
  <2>2. CASE ~(k <= Len(src))
    <3>1. k - Len(src) \in 1 .. Len(buf) - Len(src) /\ Len(src) + (k - Len(src)) = k
      BY <1>1, <2>2
    <3>2. t[k - Len(src)] = buf[k]
      BY <1>2, <3>1, SMTT(30)
    <3> QED
      BY <1>1, <1>2, <1>4, <2>2, <3>2
  <2> QED
    BY <2>1, <2>2
<1> QED
  BY <1>4, <1>5, <1>6 DEF res

(* The memory of a pathname starts with the name and its terminator. *)
LEMMA PathMemory ==
  ASSUME NEW addr \in Pathnames
  PROVE  /\ Memory(addr) \in Seq(Byte)
         /\ addr.name \in Seq(Byte) /\ Len(addr.name) > 0
         /\ \A k \in 1 .. Len(addr.name) : /\ addr.name[k] # NUL
                                           /\ ByteAt(Memory(addr), k) = addr.name[k]
         /\ ByteAt(Memory(addr), Len(addr.name) + 1) = NUL
         /\ Head(Memory(addr)) # NUL
<1> DEFINE name == addr.name
           tail == addr.tail
           mem == Memory(addr)
<1>1. /\ addr.kind = "path" /\ name \in Seq(Byte \ {NUL}) /\ name # <<>>
      /\ tail \in Seq(Byte) /\ NUL \in Byte
  BY DEF Pathnames, Text, Byte
<1>2. mem = name \o <<NUL>> \o tail
  BY <1>1 DEF Memory
<1> HIDE DEF name, tail, mem
<1>3. name \in Seq(Byte) /\ Len(name) \in Nat /\ Len(name) > 0 /\ <<NUL>> \in Seq(Byte)
  BY <1>1
<1> DEFINE front == name \o <<NUL>>
<1>4. /\ front \in Seq(Byte) /\ Len(front) = Len(name) + 1
      /\ \A k \in 1 .. Len(name) : front[k] = name[k]
      /\ front[Len(name) + 1] = NUL
  BY <1>1, <1>3
<1>5. mem = front \o tail
  BY <1>2
<1> HIDE DEF front
<1>6. /\ mem \in Seq(Byte) /\ Len(mem) = Len(front) + Len(tail)
      /\ \A k \in 1 .. Len(front) : mem[k] = front[k]
  <2>1. front \in Seq(Byte) /\ tail \in Seq(Byte) /\ Len(front) \in Nat /\ Len(tail) \in Nat
    BY <1>1, <1>4
  <2> QED
    BY <1>5, <2>1, ConcatProperties
<1>7. \A k \in 1 .. Len(name) : name[k] # NUL /\ ByteAt(mem, k) = name[k]
  BY <1>1, <1>3, <1>4, <1>6 DEF ByteAt
<1>8. ByteAt(mem, Len(name) + 1) = NUL
  BY <1>1, <1>3, <1>4, <1>6 DEF ByteAt
<1>9. Head(mem) # NUL
  <2>1. Head(mem) = mem[1]
    BY <1>3, <1>4, <1>6
  <2>2. mem[1] = name[1] /\ name[1] # NUL
    BY <1>1, <1>3, <1>4, <1>6, SMTT(30)
  <2> QED
    BY <2>1, <2>2
<1> QED
  BY <1>3, <1>6, <1>7, <1>8, <1>9 DEF name, mem

(* Behind the NUL of an abstract name lies the name. *)
LEMMA AbstractMemory ==
  ASSUME NEW addr \in AbstractNames
  PROVE  /\ Memory(addr) \in Seq(Byte)
         /\ Head(Memory(addr)) = NUL
         /\ Tail(Memory(addr)) \in Seq(Byte)
         /\ addr.name \in Seq(Byte)
         /\ \A k \in 1 .. Len(addr.name) : ByteAt(Tail(Memory(addr)), k) = addr.name[k]
<1> DEFINE name == addr.name
           tail == addr.tail
           mem == Memory(addr)
           all == name \o tail
<1>1. /\ addr.kind = "abstract" /\ name \in Seq(Byte) /\ tail \in Seq(Byte) /\ NUL \in Byte
  BY DEF AbstractNames, Byte
<1>2. mem = <<NUL>> \o name \o tail
  BY <1>1 DEF Memory
<1> HIDE DEF name, tail, mem
<1>3. /\ all \in Seq(Byte) /\ Len(all) = Len(name) + Len(tail)
      /\ \A k \in 1 .. Len(name) : all[k] = name[k]
  BY <1>1
<1>4. mem = <<NUL>> \o all
  BY <1>1, <1>2
<1> HIDE DEF all
<1>5. mem \in Seq(Byte) /\ Head(mem) = NUL /\ Tail(mem) = all
  BY <1>1, <1>3, <1>4
<1>6. \A k \in 1 .. Len(name) : ByteAt(all, k) = name[k]
  BY <1>1, <1>3 DEF ByteAt
<1> QED
  BY <1>1, <1>3, <1>5, <1>6, Zenon DEF name, mem

(* Addresses of sockets. *)
Address == {Unbound} \cup Pathnames \cup AbstractNames

(* The address that matches is one of the two, and has memory. *)
LEMMA MatchedFacts ==
  ASSUME NEW sock, NEW own \in Address, NEW peer \in Address,
         NEW a \in Matched(sock, own, peer)
  PROVE  a \in Address /\ Memory(a) \in Seq(Byte)
<1>1. a \in {own, peer}
  BY DEF Matched
<1>2. Memory(Unbound) \in Seq(Byte)
  <2>1. Memory(Unbound) = <<NUL>> \o <<>> \o <<>>
    BY DEF Memory, Unbound
  <2>2. NUL \in Byte
    BY DEF Byte
  <2> QED
    BY <2>1, <2>2
<1> QED
  BY <1>1, <1>2, PathMemory, AbstractMemory DEF Address

-----------------------------------------------------------------------------
(* The name that build_filter keeps of an argument, and the pathnames that    *)
(* its bytes spell.                                                          *)
Kept(sock) == IF IsPattern(sock) THEN SubSeq(sock, 1, Len(sock) - 1)
              ELSE IF IsAbstract(sock) THEN Tail(sock)
              ELSE sock
Spelt(sock, addr) ==
  /\ addr.kind = "path"
  /\ IF IsPattern(sock) THEN StartsWith(addr.name, Kept(sock))
                        ELSE addr.name = Kept(sock)

(* What build_filter makes of an argument. *)
LEMMA FilterIs ==
  ASSUME NEW sock \in Text \ {<<>>, <<"*">>}
  PROVE  /\ Kept(sock) \in Text
         /\ build_filter(sock) \in Seq(Byte)
         /\ IsPattern(sock) => /\ build_filter(sock) = Kept(sock)
                               /\ Len(Kept(sock)) > 0
         /\ ~IsPattern(sock) => build_filter(sock) = Append(Kept(sock), NUL)
<1>1. sock \in Seq(Byte \ {NUL}) /\ sock # <<>> /\ Len(sock) > 0 /\ Len(sock) \in Nat
  BY DEF Text
<1>2. NUL \in Byte /\ Text \subseteq Seq(Byte)
  BY DEF Byte, Text
<1>3. CASE IsPattern(sock)
  <2>1. Kept(sock) = SubSeq(sock, 1, Len(sock) - 1)
    BY <1>3 DEF Kept
  <2>2. Kept(sock) \in Text /\ Len(Kept(sock)) = Len(sock) - 1
    <3>1. Len(sock) - 1 \in 0 .. Len(sock)
      BY <1>1
    <3>2. /\ SubSeq(sock, 1, Len(sock) - 1) \in Seq(Byte \ {NUL})
          /\ Len(SubSeq(sock, 1, Len(sock) - 1)) = Len(sock) - 1
      BY <1>1, <3>1, Start, Zenon
    <3> QED
      BY <2>1, <3>2, Zenon DEF Text
  <2>3. Len(sock) # 1
    <3>1. ASSUME Len(sock) = 1 PROVE sock = <<"*">>
      <4>1. sock[1] = "*"
        BY <1>3, <3>1 DEF IsPattern
      <4> QED
        BY <1>1, <3>1, <4>1
    <3> QED
      BY <3>1
  <2>4. build_filter(sock) = Kept(sock)
    BY <1>3 DEF build_filter, Kept, IsPattern
  <2> QED
    BY <1>1, <1>2, <1>3, <2>2, <2>3, <2>4
<1>4. CASE ~IsPattern(sock)
  <2>1. Kept(sock) \in Text
    BY <1>1, <1>4 DEF Kept, Text
  <2>2. build_filter(sock) = Append(Kept(sock), NUL)
    BY <1>4 DEF build_filter, Kept, IsPattern, IsAbstract
  <2> QED
    BY <1>2, <1>4, <2>1, <2>2
<1> QED
  BY <1>3, <1>4

(* path[] has room for the filter. *)
LEMMA PathHasRoom ==
  ASSUME NEW sock \in Text \ {<<>>, <<"*">>}
  PROVE  PathSize(sock) \in Nat /\ PathSize(sock) >= Len(build_filter(sock))
<1> DEFINE n == Len(build_filter(sock))
           q == (n + WORD - 1) \div WORD
           x == Max({1, q})
<1>1. n \in Nat /\ WORD \in Nat \ {0}
  BY FilterIs, FilterAssumption
<1> HIDE DEF n
<1>2. q \in Nat /\ q * WORD >= n
  <2> DEFINE y == n + WORD - 1
  <2>1. y \in Nat
    BY <1>1
  <2>2. q \in Nat
    BY <1>1, <2>1
  <2>3. y = WORD * (y \div WORD) + (y % WORD) /\ y % WORD <= WORD - 1
    BY <1>1, <2>1
  <2>4. WORD * (y \div WORD) = q * WORD /\ WORD * (y \div WORD) \in Nat
    BY <1>1, <2>2
  <2>5. y % WORD \in Nat
    BY <1>1, <2>1
  <2> HIDE DEF q
  <2> QED
    BY <1>1, <2>2, <2>3, <2>4, <2>5
<1> HIDE DEF q
<1>3. x \in {1, q} /\ x >= q
  <2>1. \E z \in {1, q} : \A w \in {1, q} : z >= w
    BY <1>2
  <2> QED
    BY <2>1 DEF Max
<1>4. PathSize(sock) = WORD * x
  BY DEF PathSize, n, q
<1> HIDE DEF x
<1>5. x \in Nat /\ x * WORD >= q * WORD
  BY <1>1, <1>2, <1>3
<1> QED
  BY <1>1, <1>2, <1>4, <1>5 DEF n

(* path[] after the read of a pathname, and of an abstract name. *)
LEMMA ReadPathIs ==
  ASSUME NEW path \in Seq(Byte), NEW addr, NEW len \in Nat,
         0 < len, len <= Len(path)
  PROVE  /\ addr \in Pathnames =>
              /\ ReadPath(path, addr, len) \in Seq(Byte)
              /\ Len(ReadPath(path, addr, len)) = Len(path)
              /\ \A k \in 1 .. Len(path) : ReadPath(path, addr, len)[k] =
                   IF k <= len THEN ByteAt(Memory(addr), k) ELSE path[k]
         /\ addr \in AbstractNames =>
              /\ ReadPath(path, addr, len) \in Seq(Byte)
              /\ Len(ReadPath(path, addr, len)) = Len(path)
              /\ \A k \in 1 .. Len(path) : ReadPath(path, addr, len)[k] =
                   IF k <= len - 1 THEN ByteAt(Tail(Memory(addr)), k) ELSE path[k]
<1> DEFINE mem == Memory(addr)
           res == ReadPath(path, addr, len)
<1>1. Len(path) \in Nat
  OBVIOUS
<1>2. ASSUME addr \in Pathnames
      PROVE  /\ res \in Seq(Byte) /\ Len(res) = Len(path)
             /\ \A k \in 1 .. Len(path) :
                  res[k] = IF k <= len THEN ByteAt(mem, k) ELSE path[k]
  <2> DEFINE src == Bytes(mem, len)
  <2>1. mem \in Seq(Byte) /\ Head(mem) # NUL
    BY <1>2, PathMemory
  <2>2. src \in Seq(Byte) /\ Len(src) = len /\ \A k \in 1 .. len : src[k] = ByteAt(mem, k)
    BY <2>1, BytesIs
  <2>3. res = Over(src, path)
    BY <2>1, Zenon DEF ReadPath, Over
  <2> HIDE DEF res, src, mem
  <2>4. /\ res \in Seq(Byte) /\ Len(res) = Len(path)
        /\ \A k \in 1 .. Len(path) : res[k] = IF k <= Len(src) THEN src[k] ELSE path[k]
    <3>1. Len(src) <= Len(path)
      BY <1>1, <2>2
    <3> QED
      BY <2>2, <2>3, <3>1, OverIs
  <2> QED
    BY <1>1, <2>2, <2>4
<1>3. ASSUME addr \in AbstractNames
      PROVE  /\ res \in Seq(Byte) /\ Len(res) = Len(path)
             /\ \A k \in 1 .. Len(path) :
                  res[k] = IF k <= len - 1 THEN ByteAt(Tail(mem), k) ELSE path[k]
  <2> DEFINE m == Tail(mem)
             src == Bytes(m, len - 1)
  <2>1. m \in Seq(Byte) /\ Head(mem) = NUL /\ len - 1 \in Nat
    BY <1>3, AbstractMemory
  <2>2. /\ src \in Seq(Byte) /\ Len(src) = len - 1
        /\ \A k \in 1 .. len - 1 : src[k] = ByteAt(m, k)
    <3> HIDE DEF m
    <3> QED
      BY <2>1, BytesIs, Zenon
  <2>3. res = Over(src, path)
    BY <2>1, Zenon DEF ReadPath, Over
  <2> HIDE DEF res, src, m
  <2>4. /\ res \in Seq(Byte) /\ Len(res) = Len(path)
        /\ \A k \in 1 .. Len(path) : res[k] = IF k <= Len(src) THEN src[k] ELSE path[k]
    <3>1. Len(src) <= Len(path)
      BY <1>1, <2>2
    <3> QED
      BY <2>2, <2>3, <3>1, OverIs
  <2>5. \A k \in 1 .. Len(path) : res[k] = IF k <= len - 1 THEN ByteAt(m, k) ELSE path[k]
    BY <1>1, <2>2, <2>4
  <2> QED
    BY <2>4, <2>5 DEF m
<1> HIDE DEF mem, res
<1>4. mem = Memory(addr) /\ res = ReadPath(path, addr, len)
  BY DEF mem, res
<1> QED
  BY <1>2, <1>3, <1>4, Zenon

(* The comparison of words compares the bytes of the filter, and beyond them *)
(* asks for zeros.                                                           *)
LEMMA MatchesIs ==
  ASSUME NEW sock \in Text \ {<<>>, <<"*">>}, NEW path \in Seq(Byte),
         Len(path) = PathSize(sock)
  PROVE  Matches(path, sock) <=>
           \A k \in 1 .. Len(path) : path[k] = ByteAt(build_filter(sock), k)
<1> DEFINE n == PathSize(sock)
           f == Bytes(build_filter(sock), n)
<1>1. n \in Nat /\ build_filter(sock) \in Seq(Byte)
  BY FilterIs, PathHasRoom
<1>2. f \in Seq(Byte) /\ Len(f) = n /\ \A k \in 1 .. n : f[k] = ByteAt(build_filter(sock), k)
  BY <1>1, BytesIs, Zenon
<1>3. Matches(path, sock) <=> path = f
  BY DEF Matches
<1> HIDE DEF f, n
<1>4. Len(path) = n
  BY DEF n
<1>5. path = f <=> \A k \in 1 .. n : path[k] = f[k]
  BY <1>2, <1>4, SeqEqual
<1> QED
  BY <1>2, <1>3, <1>4, <1>5

(* A prefix, element by element. *)
LEMMA PrefixIs ==
  ASSUME NEW S, NEW s \in Seq(S), NEW t \in Seq(S)
  PROVE  StartsWith(t, s) <=> Len(s) <= Len(t) /\ \A k \in 1 .. Len(s) : s[k] = t[k]
<1>1. Len(s) \in Nat /\ Len(t) \in Nat
  OBVIOUS
<1>2. CASE Len(s) <= Len(t)
  <2> DEFINE b == SubSeq(t, 1, Len(s))
  <2>1. Len(s) \in 0 .. Len(t)
    BY <1>1, <1>2
  <2>2. b \in Seq(S) /\ Len(b) = Len(s) /\ \A k \in 1 .. Len(s) : b[k] = t[k]
    BY <1>1, <2>1, Start, Zenon
  <2>3. StartsWith(t, s) <=> b = s
    BY <1>2, Zenon DEF StartsWith
  <2> HIDE DEF b
  <2>4. b = s <=> \A k \in 1 .. Len(s) : b[k] = s[k]
    BY <2>2, SeqEqual
  <2> QED
    BY <1>2, <2>2, <2>3, <2>4
<1>3. CASE ~(Len(s) <= Len(t))
  BY <1>3, Zenon DEF StartsWith
<1> QED
  BY <1>2, <1>3

(* The memory of a pathname starts with the filter's bytes exactly if they   *)
(* spell the name: neither has a NUL inside.                                 *)
LEMMA NameSelected ==
  ASSUME NEW sock \in Text \ {<<>>, <<"*">>}, NEW addr \in Pathnames
  PROVE  Spelt(sock, addr) <=>
           \A k \in 1 .. Len(build_filter(sock)) :
             ByteAt(Memory(addr), k) = build_filter(sock)[k]
<1> DEFINE q == Kept(sock)
           f == build_filter(sock)
           name == addr.name
           mem == Memory(addr)
<1>1. /\ q \in Seq(Byte) /\ Len(q) \in Nat /\ \A k \in 1 .. Len(q) : q[k] # NUL
      /\ IsPattern(sock) => f = q
      /\ ~IsPattern(sock) => f = Append(q, NUL)
  <2>1. q \in Seq(Byte \ {NUL})
    BY FilterIs DEF Text
  <2> HIDE DEF q
  <2>2. q \in Seq(Byte) /\ Len(q) \in Nat /\ \A k \in 1 .. Len(q) : q[k] # NUL
    BY <2>1
  <2> QED
    BY <2>2, FilterIs DEF q
<1>2. /\ name \in Seq(Byte) /\ Len(name) \in Nat
      /\ \A k \in 1 .. Len(name) : name[k] # NUL /\ ByteAt(mem, k) = name[k]
      /\ ByteAt(mem, Len(name) + 1) = NUL
  BY PathMemory
<1>3. Spelt(sock, addr) <=> IF IsPattern(sock) THEN StartsWith(name, q) ELSE name = q
  BY DEF Spelt, Pathnames
<1>4. StartsWith(name, q) <=> Len(q) <= Len(name) /\ \A k \in 1 .. Len(q) : q[k] = name[k]
  BY <1>1, <1>2, PrefixIs
<1>5. NUL \in Byte
  BY DEF Byte
<1> HIDE DEF q, f, name, mem
<1>6. CASE IsPattern(sock)
  <2>1. ASSUME \A k \in 1 .. Len(f) : ByteAt(mem, k) = f[k]
        PROVE  StartsWith(name, q)
    <3>1. \A k \in 1 .. Len(q) : ByteAt(mem, k) = q[k]
      BY <1>1, <1>6, <2>1
    <3>2. Len(q) <= Len(name)
      <4>1. ASSUME Len(name) < Len(q) PROVE FALSE
        <5>1. Len(name) + 1 \in 1 .. Len(q)
          BY <1>1, <1>2, <4>1
        <5> QED
          BY <1>1, <1>2, <3>1, <5>1
      <4> QED
        BY <1>1, <1>2, <4>1
    <3> QED
      BY <1>1, <1>2, <1>4, <3>1, <3>2
  <2>2. ASSUME StartsWith(name, q)
        PROVE  \A k \in 1 .. Len(f) : ByteAt(mem, k) = f[k]
    BY <1>1, <1>2, <1>4, <1>6, <2>2
  <2> QED
    BY <1>3, <1>6, <2>1, <2>2 DEF f, mem
<1>7. CASE ~IsPattern(sock)
  <2>0. /\ Len(f) = Len(q) + 1 /\ \A k \in 1 .. Len(q) : f[k] = q[k]
        /\ f[Len(q) + 1] = NUL
    BY <1>1, <1>5, <1>7
  <2>1. ASSUME \A k \in 1 .. Len(f) : ByteAt(mem, k) = f[k]
        PROVE  name = q
    <3>1. /\ \A k \in 1 .. Len(q) : ByteAt(mem, k) = q[k]
          /\ ByteAt(mem, Len(q) + 1) = NUL
      BY <1>1, <2>0, <2>1
    <3>2. ~(Len(name) < Len(q))
      <4>1. ASSUME Len(name) < Len(q) PROVE FALSE
        <5>1. Len(name) + 1 \in 1 .. Len(q)
          BY <1>1, <1>2, <4>1
        <5> QED
          BY <1>1, <1>2, <3>1, <5>1
      <4> QED
        BY <4>1
    <3>3. ~(Len(q) < Len(name))
      <4>1. ASSUME Len(q) < Len(name) PROVE FALSE
        <5>1. Len(q) + 1 \in 1 .. Len(name)
          BY <1>1, <1>2, <4>1
        <5> QED
          BY <1>1, <1>2, <3>1, <5>1
      <4> QED
        BY <4>1
    <3>4. Len(name) = Len(q) /\ \A k \in 1 .. Len(name) : name[k] = q[k]
      BY <1>1, <1>2, <3>1, <3>2, <3>3
    <3> QED
      BY <1>1, <1>2, <3>4, SeqEqual
  <2>2. ASSUME name = q
        PROVE  \A k \in 1 .. Len(f) : ByteAt(mem, k) = f[k]
    BY <1>1, <1>2, <2>0, <2>2
  <2> QED
    BY <1>3, <1>7, <2>1, <2>2 DEF f, mem
<1> QED
  BY <1>6, <1>7

(* A buffer the probe may compare: of the size of path[], and zero behind    *)
(* the bytes that the reads reach.                                           *)
Buffer(sock, path) ==
  /\ path \in Seq(Byte)
  /\ Len(path) = PathSize(sock)
  /\ \A k \in 1 .. Len(path) : k > Len(build_filter(sock)) => path[k] = NUL

(* path[] is such a buffer before the first read. *)
LEMMA ZeroBuffer ==
  ASSUME NEW sock \in Text \ {<<>>, <<"*">>}
  PROVE  /\ Buffer(sock, Bytes(<<>>, PathSize(sock)))
         /\ \A k \in 1 .. PathSize(sock) : Bytes(<<>>, PathSize(sock))[k] = NUL
<1> DEFINE zero == Bytes(<<>>, PathSize(sock))
<1>1. PathSize(sock) \in Nat /\ <<>> \in Seq(Byte)
  BY PathHasRoom
<1>2. /\ zero \in Seq(Byte) /\ Len(zero) = PathSize(sock)
      /\ \A k \in 1 .. PathSize(sock) : zero[k] = ByteAt(<<>>, k)
  BY <1>1, BytesIs, Zenon
<1>3. \A k \in 1 .. PathSize(sock) : ByteAt(<<>>, k) = NUL
  BY <1>1 DEF ByteAt
<1> QED
  BY <1>2, <1>3 DEF Buffer

(* The filter has a byte, and path[] room for it. *)
LEMMA FilterLength ==
  ASSUME NEW sock \in Text \ {<<>>, <<"*">>}
  PROVE  /\ Len(build_filter(sock)) \in Nat /\ 0 < Len(build_filter(sock))
         /\ Len(build_filter(sock)) <= PathSize(sock)
         /\ ~IsPattern(sock) => Len(build_filter(sock)) = Len(Kept(sock)) + 1
<1>1. Kept(sock) \in Seq(Byte) /\ NUL \in Byte /\ Len(Kept(sock)) \in Nat
  BY FilterIs DEF Text, Byte
<1>2. CASE IsPattern(sock)
  BY <1>1, <1>2, FilterIs, PathHasRoom
<1>3. CASE ~IsPattern(sock)
  <2>1. Len(build_filter(sock)) = Len(Kept(sock)) + 1
    BY <1>1, <1>3, FilterIs
  <2> QED
    BY <1>1, <1>3, <2>1, PathHasRoom
<1> QED
  BY <1>2, <1>3

(* Read over such a buffer, a pathname matches exactly if the filter spells  *)
(* it.                                                                       *)
LEMMA PathRead ==
  ASSUME NEW sock \in Text \ {<<>>, <<"*">>}, NEW addr \in Pathnames,
         NEW path, Buffer(sock, path)
  PROVE  LET res == ReadPath(path, addr, Len(build_filter(sock)))
         IN  Buffer(sock, res) /\ (Matches(res, sock) <=> Spelt(sock, addr))
<1> DEFINE f == build_filter(sock)
           len == Len(f)
           res == ReadPath(path, addr, len)
<1>1. len \in Nat /\ 0 < len /\ len <= Len(path) /\ Len(path) \in Nat /\ f \in Seq(Byte)
  BY FilterLength, FilterIs DEF Buffer
<1>2. /\ res \in Seq(Byte) /\ Len(res) = Len(path)
      /\ \A k \in 1 .. Len(path) : res[k] = IF k <= len THEN ByteAt(Memory(addr), k) ELSE path[k]
  <2> HIDE DEF len
  <2> QED
    BY <1>1, ReadPathIs DEF Buffer
<1>3. Spelt(sock, addr) <=> \A k \in 1 .. len : ByteAt(Memory(addr), k) = f[k]
  BY NameSelected
<1> HIDE DEF res
<1>4. Matches(res, sock) <=> \A k \in 1 .. Len(path) : res[k] = ByteAt(f, k)
  BY <1>2, MatchesIs DEF Buffer
<1>5. Buffer(sock, res)
  BY <1>1, <1>2 DEF Buffer
<1> HIDE DEF f
<1>6. ASSUME \A k \in 1 .. len : ByteAt(Memory(addr), k) = f[k],
             NEW k \in 1 .. Len(path)
      PROVE  res[k] = ByteAt(f, k)
  <2>1. CASE k <= len
    BY <1>1, <1>2, <1>6, <2>1 DEF ByteAt
  <2>2. CASE k > len
    <3>1. path[k] = NUL
      BY <2>2 DEF Buffer, f
    <3> QED
      BY <1>1, <1>2, <2>2, <3>1 DEF ByteAt
  <2> QED
    BY <1>1, <2>1, <2>2
<1>7. ASSUME \A k \in 1 .. Len(path) : res[k] = ByteAt(f, k), NEW k \in 1 .. len
      PROVE  ByteAt(Memory(addr), k) = f[k]
  BY <1>1, <1>2, <1>7 DEF ByteAt
<1>8. Matches(res, sock) <=> Spelt(sock, addr)
  BY <1>3, <1>4, <1>6, <1>7
<1> QED
  BY <1>5, <1>8 DEF res, f

(* path[] after the read of the sender's own address. *)
First(sock, own) ==
  LET zero == Bytes(<<>>, PathSize(sock))
  IN  IF own = Unbound THEN zero ELSE ReadPath(zero, own, Len(build_filter(sock)))

(* It is such a buffer whatever the address, and its last byte is zero if    *)
(* the sender has no pathname or one of the filter's length.                 *)
LEMMA FirstRead ==
  ASSUME NEW sock \in Text \ {<<>>, <<"*">>}, NEW own \in Address
  PROVE  /\ Buffer(sock, First(sock, own))
         /\ (own.kind = "path" => Len(own.name) + 1 = Len(build_filter(sock))) =>
              First(sock, own)[Len(build_filter(sock))] = NUL
<1> DEFINE len == Len(build_filter(sock))
           zero == Bytes(<<>>, PathSize(sock))
           first == First(sock, own)
<1>1. len \in Nat /\ 0 < len /\ len <= PathSize(sock) /\ PathSize(sock) \in Nat
  BY FilterLength, PathHasRoom
<1>2. Buffer(sock, zero) /\ \A k \in 1 .. PathSize(sock) : zero[k] = NUL
  BY ZeroBuffer
<1>3. first = IF own = Unbound THEN zero ELSE ReadPath(zero, own, len)
  BY DEF First
<1> HIDE DEF len, zero, first
<1>4. /\ zero \in Seq(Byte) /\ Len(zero) = PathSize(sock)
      /\ len \in 1 .. Len(zero) /\ len <= Len(zero) /\ zero[len] = NUL
  BY <1>1, <1>2 DEF Buffer
<1>5. CASE own = Unbound
  BY <1>2, <1>3, <1>4, <1>5 DEF first, len
<1>6. CASE own \in Pathnames
  <2>1. own # Unbound /\ own.kind = "path" /\ first = ReadPath(zero, own, len)
    BY <1>3, <1>6 DEF Unbound, Pathnames
  <2>2. Buffer(sock, first)
    BY <1>2, <1>6, <2>1, PathRead DEF len
  <2>3. first[len] = ByteAt(Memory(own), len)
    BY <1>1, <1>4, <1>6, <2>1, ReadPathIs
  <2>4. Len(own.name) + 1 = len => first[len] = NUL
    BY <1>6, <2>3, PathMemory
  <2> QED
    BY <2>1, <2>2, <2>4 DEF first, len
<1>7. CASE own \in AbstractNames
  <2>1. own # Unbound /\ first = ReadPath(zero, own, len)
    BY <1>3, <1>7 DEF Unbound, AbstractNames
  <2>2. /\ first \in Seq(Byte) /\ Len(first) = Len(zero)
        /\ \A k \in 1 .. Len(zero) : first[k] =
             IF k <= len - 1 THEN ByteAt(Tail(Memory(own)), k) ELSE zero[k]
    BY <1>1, <1>4, <1>7, <2>1, ReadPathIs
  <2>3. first[len] = NUL
    BY <1>1, <1>4, <2>2
  <2>4. \A k \in 1 .. Len(zero) : k > len => first[k] = NUL
    BY <1>1, <1>2, <1>4, <2>2
  <2>5. Buffer(sock, first)
    BY <1>4, <2>2, <2>4 DEF Buffer, len
  <2> QED
    BY <2>3, <2>5 DEF first, len
<1> QED
  BY <1>5, <1>6, <1>7 DEF Address

(* The address that sets match. *)
LEMMA MatchedIs ==
  ASSUME NEW sock, NEW own, NEW peer
  PROVE  Matched(sock, own, peer) =
           IF own # Unbound /\ Matches(First(sock, own), sock) THEN {own}
           ELSE IF /\ peer # Unbound
                   /\ Matches(ReadPath(First(sock, own), peer, Len(build_filter(sock))), sock)
                THEN {peer}
           ELSE {}
BY DEF Matched, First

(* A pathname in either place is selected exactly if the filter spells it,   *)
(* the peer's unless the sender's own address is selected.                   *)
LEMMA PathsSpelt ==
  ASSUME NEW sock \in Text \ {<<>>, <<"*">>}, NEW own \in Address, NEW peer \in Address
  PROVE  /\ Spelt(sock, own) => Matched(sock, own, peer) = {own}
         /\ Spelt(sock, peer) => Matched(sock, own, peer) # {}
         /\ \A addr \in Matched(sock, own, peer) :
              addr.kind = "path" => Spelt(sock, addr)
<1> DEFINE first == First(sock, own)
           len == Len(build_filter(sock))
           zero == Bytes(<<>>, PathSize(sock))
<1>1. ASSUME NEW addr \in Address, addr.kind = "path"
      PROVE  addr \in Pathnames /\ addr # Unbound
  BY <1>1 DEF Address, Unbound, Pathnames, AbstractNames
<1>2. Buffer(sock, first)
  BY FirstRead
<1>3. own.kind = "path" => (Matches(first, sock) <=> Spelt(sock, own))
  <2>1. SUFFICES ASSUME own \in Pathnames, own # Unbound
                 PROVE  Matches(first, sock) <=> Spelt(sock, own)
    BY <1>1
  <2>2. first = ReadPath(zero, own, len) /\ Buffer(sock, zero)
    BY <2>1, ZeroBuffer DEF First
  <2> HIDE DEF first, zero
  <2> QED
    BY <2>1, <2>2, PathRead
<1> HIDE DEF first
<1>4. peer.kind = "path" =>
        (Matches(ReadPath(first, peer, len), sock) <=> Spelt(sock, peer))
  BY <1>1, <1>2, PathRead
<1>5. Matched(sock, own, peer) =
        IF own # Unbound /\ Matches(first, sock) THEN {own}
        ELSE IF peer # Unbound /\ Matches(ReadPath(first, peer, len), sock) THEN {peer}
        ELSE {}
  BY MatchedIs DEF first
<1>6. \A addr : Spelt(sock, addr) => addr.kind = "path"
  BY DEF Spelt
<1> HIDE DEF len
<1> QED
  BY <1>1, <1>3, <1>4, <1>5, <1>6

(* With an argument without '@' the words that the probe compares select     *)
(* each pathname that it asks for and no other pathname, whatever the other  *)
(* address is: build_filter and the two reads into path[].                   *)
THEOREM WordsSelectPaths ==
  ASSUME NEW sock \in Text \ {<<>>, <<"*">>}, NEW own \in Address, NEW peer \in Address
  PROVE  SelectsPaths(sock, own, peer)
<1>1. Len(Asked(sock)) < UNIX_PATH_MAX => ~InvalidPath(sock)
  <2>1. Len(Asked(sock)) \in Nat /\ Len(build_filter(sock)) <= Len(Asked(sock)) + 1
    <3>1. sock \in Seq(Byte \ {NUL}) /\ Len(sock) \in Nat /\ Len(sock) > 0 /\ sock # <<>>
      BY DEF Text
    <3>2. CASE IsPattern(sock)
      <4>1. Len(build_filter(sock)) = Len(sock) - 1
        <5>1. build_filter(sock) = SubSeq(sock, 1, Len(sock) - 1)
          BY <3>2 DEF build_filter, IsPattern
        <5>2. Len(sock) - 1 \in 0 .. Len(sock)
          BY <3>1
        <5> QED
          BY <3>1, <5>1, <5>2, Start
      <4>2. CASE IsAbstract(sock)
        <5> DEFINE name == Tail(sock)
        <5>1. name \in Seq(Byte \ {NUL}) /\ Len(name) = Len(sock) - 1
          BY <3>1
        <5>2. Len(sock) # 1
          BY <3>1, <3>2, <4>2 DEF IsPattern, IsAbstract
        <5>3. Asked(sock) = SubSeq(name, 1, Len(name) - 1)
          BY <3>2, <4>2 DEF Asked
        <5> HIDE DEF name
        <5>4. Len(name) - 1 \in 0 .. Len(name)
          BY <3>1, <5>1, <5>2
        <5>5. Len(Asked(sock)) = Len(name) - 1
          BY <5>1, <5>3, <5>4, Start
        <5> QED
          BY <3>1, <4>1, <5>1, <5>4, <5>5
      <4>3. CASE ~IsAbstract(sock)
        <5>1. Asked(sock) = Kept(sock)
          BY <3>2, <4>3 DEF Asked, Kept
        <5> QED
          BY <3>2, <5>1, FilterIs DEF Text
      <4> QED
        BY <4>2, <4>3
    <3>3. CASE ~IsPattern(sock)
      <4>1. Asked(sock) = Kept(sock)
        BY <3>3 DEF Asked, Kept
      <4> QED
        BY <3>3, <4>1, FilterIs, FilterLength DEF Text
    <3> QED
      BY <3>2, <3>3
  <2>2. Len(build_filter(sock)) \in Nat
    BY FilterLength
  <2> QED
    BY <2>1, <2>2, FilterAssumption DEF InvalidPath
<1>2. ASSUME ~IsAbstract(sock), NEW addr
      PROVE  Wanted(sock, addr) <=> Spelt(sock, addr)
  <2>1. Asked(sock) = Kept(sock)
    BY <1>2 DEF Asked, Kept
  <2> QED
    BY <1>2, <2>1 DEF Wanted, Spelt
<1> QED
  BY <1>1, <1>2, PathsSpelt, Zenon DEF SelectsPaths

(* An abstract name the filter keeps matches where path[] holds zeros behind it. *)
LEMMA AbstractRead ==
  ASSUME NEW sock \in Text \ {<<>>, <<"*">>}, ~IsPattern(sock),
         NEW addr \in AbstractNames, addr.name = Kept(sock),
         NEW path, Buffer(sock, path), path[Len(build_filter(sock))] = NUL
  PROVE  Matches(ReadPath(path, addr, Len(build_filter(sock))), sock)
<1> DEFINE q == Kept(sock)
           f == build_filter(sock)
           len == Len(f)
           res == ReadPath(path, addr, len)
<1>1. len \in Nat /\ 0 < len /\ len <= Len(path) /\ Len(path) \in Nat /\ len = Len(q) + 1
  BY FilterLength DEF Buffer
<1>2. q \in Seq(Byte) /\ Len(q) \in Nat /\ f = Append(q, NUL) /\ NUL \in Byte
  BY FilterIs DEF Text, Byte
<1>3. /\ res \in Seq(Byte) /\ Len(res) = Len(path)
      /\ \A k \in 1 .. Len(path) :
           res[k] = IF k <= len - 1 THEN ByteAt(Tail(Memory(addr)), k) ELSE path[k]
  <2> HIDE DEF len
  <2> QED
    BY <1>1, ReadPathIs DEF Buffer
<1>4. \A k \in 1 .. Len(q) : ByteAt(Tail(Memory(addr)), k) = q[k]
  BY AbstractMemory
<1> HIDE DEF res
<1>5. Matches(res, sock) <=> \A k \in 1 .. Len(path) : res[k] = ByteAt(f, k)
  BY <1>3, MatchesIs, Zenon DEF Buffer
<1>6. \A k \in 1 .. Len(path) : k > len => path[k] = NUL
  BY DEF Buffer
<1>7. path[len] = NUL
  OBVIOUS
<1> HIDE DEF f, q
<1>8. ASSUME NEW k \in 1 .. Len(path) PROVE res[k] = ByteAt(f, k)
  <2>1. CASE k <= Len(q)
    <3>1. ByteAt(f, k) = q[k]
      BY <1>1, <1>2, <2>1 DEF ByteAt
    <3> HIDE DEF len
    <3> QED
      BY <1>1, <1>2, <1>3, <1>4, <2>1, <3>1
  <2>2. CASE k > Len(q)
    <3>1. ByteAt(f, k) = NUL
      BY <1>1, <1>2, <2>2 DEF ByteAt
    <3> HIDE DEF len
    <3> QED
      BY <1>1, <1>2, <1>3, <1>6, <1>7, <2>2, <3>1
  <2> QED
    BY <1>2, <2>1, <2>2
<1> QED
  BY <1>5, <1>8 DEF res, f

(* An abstract socket is caught by '@' and its name, always as the sender,   *)
(* and as the peer wherever the first read left a NUL in the last byte that  *)
(* the second read does not write.                                           *)
THEOREM AbstractNamesCaught ==
  ASSUME NEW sock \in Text \ {<<>>, <<"*">>}, NEW own \in Address, NEW peer \in Address
  PROVE  CatchesAbstract(sock, own, peer)
<1> DEFINE len == Len(build_filter(sock))
           zero == Bytes(<<>>, PathSize(sock))
           first == First(sock, own)
           leavesNul == own.kind = "path" => Len(own.name) = Len(Asked(sock))
<1> SUFFICES ASSUME ~IsPattern(sock), IsAbstract(sock)
             PROVE  /\ Wanted(sock, own) => Matched(sock, own, peer) = {own}
                    /\ Wanted(sock, peer) /\ leavesNul => Matched(sock, own, peer) # {}
  BY DEF CatchesAbstract
<1>1. Asked(sock) = Kept(sock) /\ len = Len(Kept(sock)) + 1
  BY FilterLength DEF Asked, Kept
<1>2. ASSUME NEW addr \in Address, Wanted(sock, addr)
      PROVE  addr \in AbstractNames /\ addr # Unbound /\ addr.name = Kept(sock)
  BY <1>1, <1>2 DEF Wanted, Address, Unbound, Pathnames, AbstractNames
<1>3. Matched(sock, own, peer) =
        IF own # Unbound /\ Matches(first, sock) THEN {own}
        ELSE IF peer # Unbound /\ Matches(ReadPath(first, peer, len), sock) THEN {peer}
        ELSE {}
  BY MatchedIs
<1>4. ASSUME Wanted(sock, own) PROVE Matched(sock, own, peer) = {own}
  <2>1. own \in AbstractNames /\ own # Unbound /\ own.name = Kept(sock)
    BY <1>2, <1>4
  <2>2. first = ReadPath(zero, own, len)
    BY <2>1 DEF First
  <2>3. Buffer(sock, zero) /\ zero[len] = NUL
    <3>1. len \in 1 .. PathSize(sock)
      BY FilterLength, PathHasRoom
    <3> HIDE DEF len
    <3> QED
      BY <3>1, ZeroBuffer
  <2> HIDE DEF zero, first
  <2>4. Matches(first, sock)
    BY <2>1, <2>2, <2>3, AbstractRead
  <2> QED
    BY <1>3, <2>1, <2>4
<1>5. ASSUME Wanted(sock, peer), leavesNul PROVE Matched(sock, own, peer) # {}
  <2>1. peer \in AbstractNames /\ peer # Unbound /\ peer.name = Kept(sock)
    BY <1>2, <1>5
  <2>2. Buffer(sock, first) /\ first[len] = NUL
    <3>1. own.kind = "path" => Len(own.name) + 1 = len
      BY <1>1, <1>5
    <3> QED
      BY <3>1, FirstRead
  <2> HIDE DEF first
  <2>3. Matches(ReadPath(first, peer, len), sock)
    BY <2>1, <2>2, AbstractRead
  <2> QED
    BY <1>3, <2>1, <2>3
<1> QED
  BY <1>4, <1>5

-----------------------------------------------------------------------------
(* The command line that was given. *)
LEMMA ArgFacts ==
  ASSUME arg \in Args
  PROVE  arg.sock \in Text \ {<<>>, <<"*">>} /\ arg.seg_size \in Nat
  BY SockDumpAssumption

(* The command line never changes. *)
LEMMA ArgStep ==
  ASSUME arg \in Args, [Next]_vars
  PROVE  arg' = arg
  BY Zenon DEF Next, Main, Signal, Send, Fill, Submit, Poll, vars

(* The filter that is built and attached selects each pathname that a        *)
(* command line without '@' asks for, and no other pathname (build_filter    *)
(* and the probe), for every such command line and every pair of addresses,  *)
(* abstract ones included.                                                   *)
THEOREM PathsAreSelected == Spec => []PathsSelected
<1>1. Init => arg \in Args
  BY DEF Init
<1>2. arg \in Args /\ [Next]_vars => (arg \in Args)'
  BY ArgStep
<1>3. arg \in Args => PathsSelected
  <2> SUFFICES ASSUME arg \in Args, NEW own \in Addrs, NEW peer \in Addrs
               PROVE  SelectsPaths(arg.sock, own, peer)
    BY DEF PathsSelected
  <2>1. own \in Address /\ peer \in Address
    BY SockDumpAssumption DEF Address
  <2> QED
    BY <2>1, ArgFacts, WordsSelectPaths
<1> QED
  BY <1>1, <1>2, <1>3, PTL DEF Spec

(* An abstract socket is caught by '@' and its name: always as the sender, and *)
(* as the peer unless the sender's own pathname left a byte in path[].       *)
THEOREM AbstractIsCaught == Spec => []AbstractCaught
<1>1. Init => arg \in Args
  BY DEF Init
<1>2. arg \in Args /\ [Next]_vars => (arg \in Args)'
  BY ArgStep
<1>3. arg \in Args => AbstractCaught
  <2> SUFFICES ASSUME arg \in Args, NEW own \in Addrs, NEW peer \in Addrs
               PROVE  CatchesAbstract(arg.sock, own, peer)
    BY DEF AbstractCaught
  <2>1. own \in Address /\ peer \in Address
    BY SockDumpAssumption DEF Address
  <2> QED
    BY <2>1, ArgFacts, AbstractNamesCaught
<1> QED
  BY <1>1, <1>2, <1>3, PTL DEF Spec
=============================================================================
