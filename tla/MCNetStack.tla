----------------------------- MODULE MCNetStack -----------------------------
(* Instance of NetStack for TLC: requests that differ in what a reused     *)
(* buffer or a carry could spoil, and frames that each fail one test.      *)
EXTENDS NetStack

MCHwAddr == <<1, 2, 3>>
MCIpAddr == <<\hA8C0, \h4DC9>>
Peer     == <<7, 8, 9>>
PeerIp   == <<\hA8C0, \h02C9>>
MCWords  == 24

Padded(s) == s \o [k \in 1..MCWords - Len(s) |-> 0]

Ether(type, len, words) ==
  [dest |-> MCHwAddr, src |-> Peer, type |-> type, len |-> len, body |-> Padded(words)]

(* A header with the checksum its definition asks for, plus an error. *)
Ip(first, id, frag, proto, options, error) ==
  LET hdr == <<first, Word(0, 28), id, frag, Word(128, proto), 0>>
               \o PeerIp \o MCIpAddr \o options
  IN  [hdr EXCEPT ![6] = 65535 - (Total(0, hdr, 2 * Len(hdr)) % 65535) + error]

Plain      == Word(\h45, 0)
Ping(data) == <<Word(8, 0), 77>> \o data
Datagram(first, proto, options, error, message) ==
  Ether(Word(8, 0), 46, Ip(first, 5, 0, proto, options, error) \o message)

Arp(htype, sizes, oper, target) ==
  Ether(Word(8, 6), 46,
        <<Word(0, htype), Word(8, 0), sizes, Word(0, oper)>> \o Peer \o PeerIp
          \o <<0, 0, 0>> \o target)

Answered ==
  { Arp(1, Word(6, 4), 1, MCIpAddr),
    Datagram(Plain, 1, <<>>, 0, Ping(<<1, 2>>)),
    \* the sum of the message has a carry in its carry
    Datagram(Plain, 1, <<>>, 0, Ping(<<65535, 65535, 1>>)),
    \* an odd length, service and fragment fields set
    Ether(Word(8, 0), 47, Ip(Word(\h45, 16), 9, 64, 1, <<>>, 0)
                            \o Ping([k \in 1..12 |-> 1000 + k])) }

Unanswered ==
  { Arp(1, Word(6, 4), 1, PeerIp), Arp(1, Word(6, 4), 2, MCIpAddr),
    Arp(6, Word(6, 4), 1, MCIpAddr), Arp(1, Word(8, 4), 1, MCIpAddr),
    Datagram(Plain, 1, <<>>, 1, Ping(<<1, 2>>)),
    Datagram(Plain, 1, <<>>, 0, <<Word(0, 0), 77>>),
    Datagram(Plain, 17, <<>>, 0, Ping(<<1, 2>>)),
    Datagram(Word(\h65, 0), 1, <<>>, 0, Ping(<<1, 2>>)),
    Datagram(Word(\h44, 0), 1, <<>>, 0, Ping(<<1, 2>>)),
    Datagram(Word(\h4F, 0), 1, <<>>, 0, Ping(<<1, 2>>)),
    Datagram(Word(\h46, 0), 1, <<Word(1, 1), Word(1, 0)>>, 0, Ping(<<1, 2>>)),
    Ether(Word(0, 46), 46, <<>>), Ether(Word(8, \h42), 46, <<>>),
    Ether(Word(\h86, \hDD), 46, <<>>) }

MCFrames == Answered \cup Unanswered
=============================================================================
