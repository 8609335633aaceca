------------------------------ MODULE Options ------------------------------
(***************************************************************************)
(* The options of the OPT record (edns.go) and the parameters of SVCB and  *)
(* HTTPS records (svcb.go).  An option is [code, v] and a parameter        *)
(* [key, v]; v is the tuple of the option's fields, or the field itself    *)
(* when it has one.  For each, what pack writes, what unpack reads back    *)
(* from the octets between the length and the next option, and whether     *)
(* copy gives the copy a slice of its own.                                 *)
(***************************************************************************)
EXTENDS Wire

-----------------------------------------------------------------------------
\* EDNS0 options.
EDNS0LLQ == 1
EDNS0UL == 2
EDNS0NSID == 3
EDNS0ESU == 4
EDNS0DAU == 5
EDNS0DHU == 6
EDNS0N3U == 7
EDNS0SUBNET == 8
EDNS0EXPIRE == 9
EDNS0COOKIE == 10
EDNS0TCPKEEPALIVE == 11
EDNS0PADDING == 12
EDNS0EDE == 15
EDNS0REPORTING == 18
EDNS0ZONEVERSION == 19
EDNS0LOCALSTART == 65001

\* v = <<Version, Opcode, Error, Id, LeaseLife>>; Id has 8 octets.
LLQ_pack(v) == Good(BE(v[1], 2) \o BE(v[2], 2) \o BE(v[3], 2) \o BE(v[4], 8) \o BE(v[5], 4), 0)
LLQ_unpack(b) ==
    IF Len(b) < 18 THEN Bad
    ELSE Good(<<Num(Octets(b, 0, 2)), Num(Octets(b, 2, 2)), Num(Octets(b, 4, 2)),
                Num(Octets(b, 6, 8)), Num(Octets(b, 14, 4))>>, 0)

\* v = <<Lease, KeyLease>>.
UL_pack(v) == Good(BE(v[1], 4) \o (IF v[2] = 0 THEN <<>> ELSE BE(v[2], 4)), 0)
UL_unpack(b) ==
    IF Len(b) \notin {4, 8} THEN Bad
    ELSE Good(<<Num(Octets(b, 0, 4)), IF Len(b) = 4 THEN 0 ELSE Num(Octets(b, 4, 4))>>, 0)

\* v = <<Family, SourceNetmask, SourceScope, Address>>.
SUBNET_pack(v) ==
    LET family == v[1]
        mask == v[2]
        ip == IF family = 1 THEN To4(v[4]) ELSE v[4]
        size == IF family = 1 THEN IPv4len ELSE IPv6len
    IN  CASE family = 0 -> IF mask # 0 THEN Bad ELSE Good(<<0, 0, 0, v[3]>>, 0)
          [] family \in {1, 2} ->
                IF mask > 8 * size \/ Len(ip) # size THEN Bad
                ELSE Good(BE(family, 2) \o <<mask, v[3]>>
                          \o SubSeq(Masked(ip, mask), 1, CeilOctets(mask)), 0)
          [] OTHER -> Bad

SUBNET_unpack(b) ==
    LET family == Num(Octets(b, 0, 2))
        size == IF family = 1 THEN IPv4len ELSE IPv6len
        read == SubSeq(b, 5, Min({Len(b), 4 + size}))
        addr == read \o Zeros(size - Len(read))
    IN  CASE Len(b) < 4 -> Bad
          [] family = 0 -> IF b[3] # 0 THEN Bad ELSE Good(<<0, 0, b[4], V4InV6 \o Zeros(4)>>, 0)
          [] family \in {1, 2} ->
                IF b[3] > 8 * size \/ b[4] > 8 * size THEN Bad
                ELSE Good(<<family, b[3], b[4], IF family = 1 THEN V4InV6 \o addr ELSE addr>>, 0)
          [] OTHER -> Bad

\* v = <<Expire>>, or <<>> when Empty is set.
EXPIRE_pack(v) == Good(IF v = <<>> THEN <<>> ELSE BE(v[1], 4), 0)
EXPIRE_unpack(b) ==
    CASE b = <<>> -> Good(<<>>, 0)
      [] Len(b) < 4 -> Bad
      [] OTHER -> Good(<<Num(Octets(b, 0, 4))>>, 0)

\* v = <<Timeout>>.
TCP_KEEPALIVE_pack(v) == Good(IF v[1] > 0 THEN BE(v[1], 2) ELSE <<>>, 0)
TCP_KEEPALIVE_unpack(b) ==
    IF Len(b) \notin {0, 2} THEN Bad ELSE Good(<<IF b = <<>> THEN 0 ELSE Num(b)>>, 0)

\* v = <<InfoCode, ExtraText>>.
EDE_pack(v) == Good(BE(v[1], 2) \o v[2], 0)
EDE_unpack(b) == IF Len(b) < 2 THEN Bad ELSE Good(<<Num(Octets(b, 0, 2)), SubSeq(b, 3, Len(b))>>, 0)

\* v = AgentDomain, packed without compression into 255 octets.
InBuffer(p) == IF p.err THEN Bad ELSE Good(p.msg, 0)
REPORTING_pack(v) == InBuffer(packDomainName(v, NewBuffer(255, FALSE), FALSE))
REPORTING_unpack(b) == UnpackDomainName(b, 0)

\* v = <<LabelCount, Type, Version>>.
ZONEVERSION_pack(v) == Good(<<v[1], v[2]>> \o v[3], 0)
ZONEVERSION_unpack(b) == IF Len(b) < 2 THEN Bad ELSE Good(<<b[1], b[2], SubSeq(b, 3, Len(b))>>, 0)

\* The types whose value is one hex text, or the octets of one slice or string.
HexOptions == {EDNS0NSID, EDNS0COOKIE}

EDNS0_pack(o) ==
    CASE o.code = EDNS0LLQ -> LLQ_pack(o.v)
      [] o.code = EDNS0UL -> UL_pack(o.v)
      [] o.code \in HexOptions -> fromHex(o.v)
      [] o.code = EDNS0SUBNET -> SUBNET_pack(o.v)
      [] o.code = EDNS0EXPIRE -> EXPIRE_pack(o.v)
      [] o.code = EDNS0TCPKEEPALIVE -> TCP_KEEPALIVE_pack(o.v)
      [] o.code = EDNS0EDE -> EDE_pack(o.v)
      [] o.code = EDNS0REPORTING -> REPORTING_pack(o.v)
      [] o.code = EDNS0ZONEVERSION -> ZONEVERSION_pack(o.v)
      [] OTHER -> Good(o.v, 0)

\* The Go types of the values that are octets or names.
IsOption(o) ==
    CASE o.code \in {EDNS0LLQ, EDNS0UL, EDNS0EXPIRE, EDNS0TCPKEEPALIVE} -> TRUE
      [] o.code = EDNS0SUBNET -> o.v[2] \in Byte /\ o.v[4] \in Seq(Byte)
      [] o.code = EDNS0EDE -> o.v[2] \in Seq(Byte)
      [] o.code = EDNS0REPORTING -> IsNameField(o.v)
      [] o.code = EDNS0ZONEVERSION -> o.v[3] \in Seq(Byte)
      [] OTHER -> o.v \in Seq(Byte)

\* makeDataOpt followed by the option's unpack.
makeDataOpt(code, b) ==
    CASE code = EDNS0LLQ -> LLQ_unpack(b)
      [] code = EDNS0UL -> UL_unpack(b)
      [] code \in HexOptions -> Good(toHex(b), 0)
      [] code = EDNS0SUBNET -> SUBNET_unpack(b)
      [] code = EDNS0EXPIRE -> EXPIRE_unpack(b)
      [] code = EDNS0TCPKEEPALIVE -> TCP_KEEPALIVE_unpack(b)
      [] code = EDNS0EDE -> EDE_unpack(b)
      [] code = EDNS0REPORTING -> REPORTING_unpack(b)
      [] code = EDNS0ZONEVERSION -> ZONEVERSION_unpack(b)
      [] OTHER -> Good(b, 0)

packDataOpt(options) ==
    Joined([i \in 1..Len(options) |-> Tagged(options[i].code, EDNS0_pack(options[i]))])

unpackDataOpt(msg, start) ==
    LET from[off \in 0..Len(msg)] ==
            LET code == Num(Octets(msg, off, 2))
                optlen == Num(Octets(msg, off + 2, 2))
                rest == from[off + 4 + optlen]
                behind(opt) == IF opt.err THEN Bad
                               ELSE [rest EXCEPT !.v = <<[code |-> code, v |-> opt.v]>> \o @]
            IN  IF off >= Len(msg) THEN Good(<<>>, off)
                ELSE IF off + 4 > Len(msg) \/ off + 4 + optlen > Len(msg) THEN Bad
                ELSE behind(makeDataOpt(code, Octets(msg, off + 4, optlen)))
    IN  from[start]

\* The options whose copy() hands the slice of the original to the copy.
copyShares(o) == o.code \in {EDNS0SUBNET, EDNS0DAU, EDNS0DHU, EDNS0N3U}

-----------------------------------------------------------------------------
\* SVCB parameters.
SVCB_MANDATORY == 0
SVCB_ALPN == 1
SVCB_NO_DEFAULT_ALPN == 2
SVCB_PORT == 3
SVCB_IPV4HINT == 4
SVCB_ECHCONFIG == 5
SVCB_IPV6HINT == 6
SVCB_DOHPATH == 7
SVCB_OHTTP == 8
svcb_RESERVED == 65535

\* The elements of s in the order of the numbers keys.
Sorted(s, keys) ==
    LET Rank(i) == 1 + Cardinality({j \in 1..Len(s) : keys[j] < keys[i] \/ (keys[j] = keys[i] /\ j < i)})
    IN  [k \in 1..Len(s) |-> s[CHOOSE i \in 1..Len(s) : Rank(i) = k]]

Chunks(b, n) == [i \in 1..(Len(b) \div n) |-> Octets(b, n * (i - 1), n)]

\* v = the sequence of keys.
Mandatory_pack(v) == Joined([i \in 1..Len(v) |-> Good(BE(Sorted(v, v)[i], 2), 0)])
Mandatory_unpack(b) ==
    IF Len(b) % 2 # 0 THEN Bad
    ELSE Good([i \in 1..(Len(b) \div 2) |-> Num(Chunks(b, 2)[i])], 0)

\* v = the sequence of protocol ids.
Alpn_pack(v) ==
    IF \E i \in 1..Len(v) : Len(v[i]) \notin 1..255 THEN Bad
    ELSE Good(FlattenSeq([i \in 1..Len(v) |-> <<Len(v[i])>> \o v[i]]), 0)

Alpn_unpack(b) ==
    LET from[i \in 0..Len(b)] ==
            LET length == b[i + 1]
                rest == from[i + 1 + length]
            IN  CASE i = Len(b) -> Good(<<>>, 0)
                  [] i < Len(b) /\ i + 1 + length > Len(b) -> Bad
                  [] OTHER -> [rest EXCEPT !.v = <<Octets(b, i + 1, length)>> \o @]
    IN  from[0]

\* no-default-alpn and ohttp.
NoValue_unpack(b) == IF b # <<>> THEN Bad ELSE Good(<<>>, 0)

\* v = <<Port>>.
Port_pack(v) == Good(BE(v[1], 2), 0)
Port_unpack(b) == IF Len(b) # 2 THEN Bad ELSE Good(<<Num(b)>>, 0)

\* v = the sequence of addresses.
IPv4Hint_pack(v) ==
    IF \E i \in 1..Len(v) : To4(v[i]) = <<>> THEN Bad
    ELSE Good(FlattenSeq([i \in 1..Len(v) |-> To4(v[i])]), 0)
IPv4Hint_unpack(b) ==
    IF b = <<>> \/ Len(b) % IPv4len # 0 THEN Bad ELSE Good(Chunks(b, IPv4len), 0)

IPv6Hint_pack(v) ==
    IF \E i \in 1..Len(v) : Len(v[i]) # IPv6len \/ To4(v[i]) # <<>> THEN Bad
    ELSE Good(FlattenSeq(v), 0)
IPv6Hint_unpack(b) ==
    IF \/ b = <<>> \/ Len(b) % IPv6len # 0
       \/ \E i \in 1..Len(Chunks(b, IPv6len)) : To4(Chunks(b, IPv6len)[i]) # <<>>
    THEN Bad ELSE Good(Chunks(b, IPv6len), 0)

SVCB_pack(e) ==
    CASE e.key = SVCB_MANDATORY -> Mandatory_pack(e.v)
      [] e.key = SVCB_ALPN -> Alpn_pack(e.v)
      [] e.key = SVCB_PORT -> Port_pack(e.v)
      [] e.key = SVCB_IPV4HINT -> IPv4Hint_pack(e.v)
      [] e.key = SVCB_IPV6HINT -> IPv6Hint_pack(e.v)
      [] e.key \in {SVCB_NO_DEFAULT_ALPN, SVCB_OHTTP} -> Good(<<>>, 0)
      [] OTHER -> Good(e.v, 0)

\* The Go types of the keys and of the values.
IsPair(e) ==
    /\ e.key \in 0..svcb_RESERVED
    /\ CASE e.key = SVCB_MANDATORY -> e.v \in Seq(0..svcb_RESERVED)
         [] e.key \in {SVCB_ALPN, SVCB_IPV4HINT, SVCB_IPV6HINT} -> e.v \in Seq(Seq(Byte))
         [] e.key \in {SVCB_PORT, SVCB_NO_DEFAULT_ALPN, SVCB_OHTTP} -> TRUE
         [] OTHER -> e.v \in Seq(Byte)

\* makeSVCBKeyValue followed by the parameter's unpack.
makeSVCBKeyValue(key, b) ==
    CASE key = SVCB_MANDATORY -> Mandatory_unpack(b)
      [] key = SVCB_ALPN -> Alpn_unpack(b)
      [] key = SVCB_PORT -> Port_unpack(b)
      [] key = SVCB_IPV4HINT -> IPv4Hint_unpack(b)
      [] key = SVCB_IPV6HINT -> IPv6Hint_unpack(b)
      [] key \in {SVCB_NO_DEFAULT_ALPN, SVCB_OHTTP} -> NoValue_unpack(b)
      [] key = svcb_RESERVED -> Bad
      [] OTHER -> Good(b, 0)

\* len(): the parameter's length without packing it.
SVCB_len(e) ==
    CASE e.key = SVCB_MANDATORY -> 2 * Len(e.v)
      [] e.key = SVCB_ALPN -> Total([i \in 1..Len(e.v) |-> 1 + Len(e.v[i])])
      [] e.key = SVCB_PORT -> 2
      [] e.key = SVCB_IPV4HINT -> 4 * Len(e.v)
      [] e.key = SVCB_IPV6HINT -> 16 * Len(e.v)
      [] e.key \in {SVCB_NO_DEFAULT_ALPN, SVCB_OHTTP} -> 0
      [] OTHER -> Len(e.v)

ByKey(pairs) == Sorted(pairs, [i \in 1..Len(pairs) |-> pairs[i].key])

packDataSVCB(pairs) ==
    LET prev(s, i) == IF i = 1 THEN svcb_RESERVED ELSE s[i - 1].key
        packed(s) == IF \E i \in 1..Len(s) : s[i].key = prev(s, i) THEN Bad
                     ELSE Joined([i \in 1..Len(s) |-> Tagged(s[i].key, SVCB_pack(s[i]))])
    IN  packed(ByKey(pairs))

unpackDataSVCB(msg, start) ==
    LET from[off \in 0..Len(msg), last \in -1..svcb_RESERVED] ==
            LET key == Num(Octets(msg, off, 2))
                length == Num(Octets(msg, off + 2, 2))
                rest == from[off + 4 + length, key]
                behind(e) == IF e.err THEN Bad ELSE [rest EXCEPT !.v = <<[key |-> key, v |-> e.v]>> \o @]
            IN  IF off >= Len(msg) THEN Good(<<>>, off)
                ELSE IF off + 4 > Len(msg) \/ off + 4 + length > Len(msg) \/ key <= last THEN Bad
                ELSE behind(makeSVCBKeyValue(key, Octets(msg, off + 4, length)))
    IN  from[start, -1]

\* Called with lists of one length.
areSVCBPairArraysEqual(a, b) ==
    LET alike(x, y) == ~x.err /\ ~y.err /\ x.v = y.v
        equal(x, y) == \A i \in 1..Len(x) :
                           x[i].key = y[i].key /\ alike(SVCB_pack(x[i]), SVCB_pack(y[i]))
    IN  equal(ByKey(a), ByKey(b))

=============================================================================
