----------------------------- MODULE SockFilter -----------------------------
(***************************************************************************)
(* The path filter of sockdump (src/dump-tool/sockdump.py): build_filter   *)
(* turns the command-line argument into bytes, and the BPF program reads   *)
(* the address of a socket, then that of its peer, into one buffer path[]  *)
(* and compares the buffer with those bytes, one 64-bit word at a time.    *)
(* Names are sequences of bytes because the filter is about their bytes.   *)
(***************************************************************************)
EXTENDS Naturals, Sequences, FiniteSetsExt

CONSTANTS
  UNIX_PATH_MAX,   \* size of sun_path
  WORD             \* bytes in an unsigned long

ASSUME FilterAssumption == UNIX_PATH_MAX \in Nat \ {0} /\ WORD \in Nat \ {0}

\* Bytes go by names.
NUL == "NUL"
Byte == STRING \cup {NUL}
Text == Seq(Byte \ {NUL})

\* A socket address: unbound, a pathname or an abstract name; tail is what the
\* kernel's memory holds behind the name.
Unbound == [kind |-> "none", name |-> <<>>, tail |-> <<>>]
Pathnames == [kind : {"path"}, name : Text \ {<<>>}, tail : Seq(Byte)]
AbstractNames == [kind : {"abstract"}, name : Seq(Byte), tail : Seq(Byte)]

\* The memory at sock_path: a pathname is terminated, an abstract name follows
\* a NUL and is not.
Memory(addr) ==
  IF addr.kind = "path" THEN addr.name \o <<NUL>> \o addr.tail
                        ELSE <<NUL>> \o addr.name \o addr.tail

\* The first n bytes of mem; what lies further out is taken to be zero.
Bytes(mem, n) == [k \in 1 .. n |-> IF k <= Len(mem) THEN mem[k] ELSE NUL]

\* Mutant of build_filter: an exact path is not terminated.
build_filterNoNul(sock) ==
  IF sock[Len(sock)] = "*" THEN SubSeq(sock, 1, Len(sock) - 1)
  ELSE IF Head(sock) = "@" THEN Tail(sock)
  ELSE sock

build_filter(sock) ==
  IF sock[Len(sock)] = "*" THEN SubSeq(sock, 1, Len(sock) - 1)
  ELSE IF Head(sock) = "@" THEN Append(Tail(sock), NUL)
  ELSE Append(sock, NUL)

\* raise ValueError('invalid path')
InvalidPath(sock) == Len(build_filter(sock)) > UNIX_PATH_MAX

\* The bytes of path[]: a whole number of words, at least one.
PathSize(sock) ==
  WORD * Max({1, (Len(build_filter(sock)) + WORD - 1) \div WORD})

\* Mutant of ReadPath: the leading NUL of an abstract name is not skipped.
ReadPathFromNul(path, addr, len) ==
  LET src == Bytes(Memory(addr), len)
  IN  src \o SubSeq(path, Len(src) + 1, Len(path))

\* bpf_probe_read into path[]: len bytes of a pathname, len - 1 of an abstract
\* name; the rest of path[] keeps what it held.
ReadPath(path, addr, len) ==
  LET mem == Memory(addr)
      src == IF Head(mem) = NUL THEN Bytes(Tail(mem), len - 1) ELSE Bytes(mem, len)
  IN  src \o SubSeq(path, Len(src) + 1, Len(path))

Matches(path, sock) == path = Bytes(build_filter(sock), PathSize(sock))

\* The address that sets match, as a set of at most one: the socket's own is
\* tried first, and its bytes are still in path[] when the peer's are read.
Matched(sock, own, peer) ==
  LET len   == Len(build_filter(sock))
      zero  == Bytes(<<>>, PathSize(sock))
      first == IF own = Unbound THEN zero ELSE ReadPath(zero, own, len)
  IN  IF own # Unbound /\ Matches(first, sock) THEN {own}
      ELSE IF peer # Unbound /\ Matches(ReadPath(first, peer, len), sock) THEN {peer}
      ELSE {}

-----------------------------------------------------------------------------
\* What the command line asks for, said of names instead of bytes: a leading
\* '@' stands for abstract names, a trailing '*' for all names that start so.
StartsWith(s, t) == Len(t) <= Len(s) /\ SubSeq(s, 1, Len(t)) = t
IsAbstract(sock) == Head(sock) = "@"
IsPattern(sock) == sock[Len(sock)] = "*"
Asked(sock) == LET name == IF IsAbstract(sock) THEN Tail(sock) ELSE sock
               IN  IF IsPattern(sock) THEN SubSeq(name, 1, Len(name) - 1) ELSE name
Wanted(sock, addr) ==
  /\ addr.kind = IF IsAbstract(sock) THEN "abstract" ELSE "path"
  /\ IF IsPattern(sock) THEN StartsWith(addr.name, Asked(sock))
                        ELSE addr.name = Asked(sock)

\* With an argument without '@' the comparison of words misses no pathname
\* that is asked for, the socket's own before its peer's, and selects no other
\* pathname, whatever the other address is; every name that leaves room for
\* its terminator can be asked for (build_filter, the two reads of the probe).
\* Abstract addresses may be selected besides.
SelectsPaths(sock, own, peer) ==
  LET matched == Matched(sock, own, peer)
  IN  /\ Len(Asked(sock)) < UNIX_PATH_MAX => ~InvalidPath(sock)
      /\ ~InvalidPath(sock) /\ ~IsAbstract(sock) =>
           /\ Wanted(sock, own) => matched = {own}
           /\ Wanted(sock, peer) => matched # {}
           /\ \A addr \in matched : addr.kind = "path" => Wanted(sock, addr)

\* An abstract socket is caught by '@' and its name, whatever lies behind the
\* name in memory. As a peer it is caught only if the sender's own pathname
\* left a NUL in the last byte of path[], which the second read leaves alone.
CatchesAbstract(sock, own, peer) ==
  LET leavesNul == own.kind = "path" => Len(own.name) = Len(Asked(sock))
  IN  ~InvalidPath(sock) /\ IsAbstract(sock) /\ ~IsPattern(sock) =>
        /\ Wanted(sock, own) => Matched(sock, own, peer) = {own}
        /\ Wanted(sock, peer) /\ leavesNul => Matched(sock, own, peer) # {}
=============================================================================
