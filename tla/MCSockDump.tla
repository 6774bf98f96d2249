----------------------------- MODULE MCSockDump -----------------------------
EXTENDS SockDump

Pathname(name, tail) == [kind |-> "path", name |-> name, tail |-> tail]
Abstract(name, tail) == [kind |-> "abstract", name |-> name, tail |-> tail]

\* Names with UNIX_PATH_MAX = 3 and words of two bytes: shorter than, equal to
\* and longer than what is asked, the longest a socket can have, and memory
\* behind a name that continues it.
MCAddrs ==
  {Unbound, Pathname(<<"a">>, <<"b", "a">>), Pathname(<<"a", "b">>, <<>>),
   Pathname(<<"b", "b">>, <<"a">>), Pathname(<<"@", "a">>, <<>>),
   Pathname(<<"a", "b", "a">>, <<>>),
   Abstract(<<"a">>, <<"b">>), Abstract(<<"a", "b">>, <<"a">>), Abstract(<<"b">>, <<>>)}

MCSocks == {<<"a">>, <<"a", "*">>, <<"a", "b">>, <<"@", "a">>, <<"@", "a", "*">>,
            <<"@", "a", "b">>, <<"a", "b", "a">>, <<"a", "b", "a", "*">>}

\* One plain command line per filter, and one that uses the other options.
Command(sock, seg, pid, format) ==
  [sock |-> sock, seg_size |-> seg, pid |-> pid, format |-> format]
MCArgs == {Command(s, 2, NoPid, "hex") : s \in MCSocks}
            \cup {Command(<<"a", "*">>, 3, 1, "hex"), Command(<<"a">>, 2, NoPid, "pcap")}

Msg(type, pid, own, peer, iter, segs) ==
  [type |-> type, pid |-> pid, peer_pid |-> 3 - pid, own |-> own, peer |-> peer,
   iter |-> iter, segs |-> segs,
   len |-> FoldFunction(LAMBDA b, n : n + Len(b), 0, segs)]

A == Pathname(<<"a">>, <<"b", "a">>)
AB == Pathname(<<"a", "b">>, <<>>)
MCMsgs ==
  {Msg("stream", 1, A, Unbound, "iovec", <<<<"11", "12", "13", "14">>, <<"15">>, <<"16">>>>),
   Msg("dgram", 2, Unbound, AB, "ubuf", <<<<"21", "22">>>>),
   Msg("stream", 2, AB, Abstract(<<"a">>, <<"b">>), "kvec", <<<<"31">>>>)}
=============================================================================
