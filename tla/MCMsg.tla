-------------------------------- MODULE MCMsg --------------------------------
(***************************************************************************)
(* Instances of Msg.  For every record type a record with every field set, *)
(* paired with one that differs in one field, and hand-made messages for   *)
(* compression, EDNS0, TSIG and truncation.  Labels have one octet, so     *)
(* that names of 9 octets need the 3 pointers that a limit of 9 octets     *)
(* allows, and offsets of 40 and more are out of a pointer's reach.        *)
(***************************************************************************)
EXTENDS Dnssec

a == <<97>>
b == <<98>>
c == <<99>>
d == <<100>>
Dot == <<46>>       \* a label that is one escaped dot: 2 characters
High == <<200>>     \* 4 characters
Upper == <<65>>
N(labels) == Append(labels, <<>>)

\* Two sample values for each way of packing a field.
Sample(kind) ==
    CASE kind = "Uint8" -> <<3, 255>>
      [] kind = "Uint16" -> <<260, 65535>>
      [] kind \in {"Uint32", "Uint48", "Uint64"} -> <<70000, 2147483647>>
      [] kind \in Names -> <<N(<<b, a>>), N(<<c, Upper>>)>>
      [] kind = "DataDomainNames" -> <<<<N(<<a>>), N(<<b, a>>)>>, <<>>>>
      [] kind = "DataA" -> <<<<1, 2, 3, 4>>, <<0, 0, 0, 0>>>>
      [] kind = "DataAAAA" -> <<Zeros(15) \o <<1>>, V4InV6 \o <<1, 2, 3, 4>>>>
      [] kind = "String" -> <<<<97, Backslash, Quote>>, <<>>>>
      [] kind = "StringTxt" -> <<<<<<97>>, <<>>>>, <<escapeByte(200)>>>>
      [] kind \in {"StringOctet", "StringAny"} -> <<<<97, 200>>, <<0>>>>
      [] kind \in {"StringHex", "StringHexSalt"} -> <<<<1, 15, 2, 3>>, <<>>>>
      [] kind = "StringBase32" -> <<toBase32(<<1, 255>>), toBase32(<<9>>)>>
      [] kind = "StringBase64" -> <<toBase64(<<1, 255, 3, 4>>), toBase64(<<1, 255, 3>>)>>
      [] kind = "DataNsec" -> <<<<1, 2, 47, 300>>, <<>>>>
      [] kind = "DataApl" ->
            <<<<[neg |-> TRUE, prefix |-> 9, ip |-> <<10, 128, 0, 0>>],
                [neg |-> FALSE, prefix |-> 128, ip |-> <<32>> \o Zeros(14) \o <<1>>]>>,
              <<[neg |-> FALSE, prefix |-> 9, ip |-> <<10, 128, 0, 0>>]>>>>
      [] kind = "DataSVCB" ->
            <<<<[key |-> SVCB_MANDATORY, v |-> <<1, 4>>], [key |-> SVCB_ALPN, v |-> <<<<104, 51>>, <<104>>>>],
                [key |-> SVCB_NO_DEFAULT_ALPN, v |-> <<>>], [key |-> SVCB_PORT, v |-> <<53>>],
                [key |-> SVCB_IPV4HINT, v |-> <<<<1, 2, 3, 4>>>>],
                [key |-> SVCB_IPV6HINT, v |-> <<Zeros(15) \o <<1>>>>], [key |-> 700, v |-> <<9>>]>>,
              <<[key |-> SVCB_PORT, v |-> <<853>>]>>>>
      [] kind = "DataOpt" ->
            <<<<[code |-> EDNS0LLQ, v |-> <<1, 2, 3, 4, 5>>], [code |-> EDNS0UL, v |-> <<5, 0>>],
                [code |-> EDNS0UL, v |-> <<5, 6>>], [code |-> EDNS0NSID, v |-> <<10, 1>>],
                [code |-> EDNS0SUBNET, v |-> <<1, 20, 0, V4InV6 \o <<10, 1, 16, 0>>>>],
                [code |-> EDNS0SUBNET, v |-> <<2, 128, 0, Zeros(15) \o <<1>>>>],
                [code |-> EDNS0SUBNET, v |-> <<0, 0, 0, V4InV6 \o Zeros(4)>>],
                [code |-> EDNS0EXPIRE, v |-> <<>>], [code |-> EDNS0EXPIRE, v |-> <<7>>],
                [code |-> EDNS0TCPKEEPALIVE, v |-> <<0>>], [code |-> EDNS0TCPKEEPALIVE, v |-> <<9>>],
                [code |-> EDNS0EDE, v |-> <<15, <<110>>>>], [code |-> EDNS0PADDING, v |-> Zeros(2)],
                [code |-> EDNS0REPORTING, v |-> N(<<b, a>>)],
                [code |-> EDNS0ZONEVERSION, v |-> <<1, 0, <<5>>>>], [code |-> 65001, v |-> <<1>>]>>,
              <<[code |-> EDNS0DAU, v |-> <<8, 13>>]>>>>
      [] OTHER -> <<<<>>, <<>>>>

\* The size fields, whose value is the length of another field.
Entries(kind) == {PackTable[kind][i] : i \in DOMAIN PackTable[kind]}
Sized(kind) == {e \in {UnpackTable[kind][i] : i \in DOMAIN UnpackTable[kind]} : Len(e) = 3}
OctetsOf(e, v) == CASE e[1] = "StringBase32" -> (5 * Len(v)) \div 8
                    [] e[1] = "StringBase64" -> Len(fromBase64(v).v)
                    [] OTHER -> Len(v) \div 2

WithSizes(kind, f) ==
    [x \in DOMAIN f |-> IF \E e \in Sized(kind) : e[3] = x
                        THEN LET e == CHOOSE e \in Sized(kind) : e[3] = x IN OctetsOf(e, f[e[2]])
                        ELSE f[x]]

Of(kind, k) ==
    LET plain == {e \in Entries(kind) : e[1] # "IPSECGateway"}
        f == [x \in {e[2] : e \in plain} |-> Sample((CHOOSE e \in plain : e[2] = x)[1])[k]]
    IN  WithSizes(kind, IF plain = Entries(kind) THEN f
                        ELSE f @@ [GatewayHost |-> <<>>, GatewayAddr |-> <<>>])

RR(name, kind, f) ==
    [name |-> name, rrtype |-> IF kind = "RFC3597" THEN 65280 ELSE TypeCode[kind],
     class |-> 1, ttl |-> <<0, 0, 1, 2>>, kind |-> kind, f |-> f]

WithGateway(f, t) ==
    [f EXCEPT !.GatewayType = t,
              !.GatewayAddr = CASE t = 1 -> <<1, 2, 3, 4>> [] t = 2 -> Zeros(15) \o <<1>> [] OTHER -> <<>>,
              !.GatewayHost = IF t = 3 THEN N(<<b, a>>) ELSE <<>>]

\* The field functions of a type: every field at its first sample; each field in
\* turn at its second one; every kind of gateway.
Free(kind) ==
    SelectSeq([i \in DOMAIN PackTable[kind] |-> PackTable[kind][i][2]],
              LAMBDA x : \A e \in Sized(kind) : e[3] # x)
HasGateway(kind) == \E e \in Entries(kind) : e[1] = "IPSECGateway"

Variant(kind, i) ==
    CASE HasGateway(kind) -> WithGateway(Of(kind, 1), i)
      [] i = 0 -> Of(kind, 1)
      [] OTHER -> WithSizes(kind, [Of(kind, 1) EXCEPT ![Free(kind)[i]] = Of(kind, 2)[Free(kind)[i]]])

VariantCount(kind) == IF HasGateway(kind) THEN 3 ELSE Len(Free(kind))

Build(question, answer, ns, extra, compress) ==
    [Id |-> 513, flags |-> {"Response", "RecursionDesired"}, Opcode |-> 0, Rcode |-> 0,
     Compress |-> compress, question |-> question, answer |-> answer, ns |-> ns, extra |-> extra]

Q(name) == [name |-> name, qtype |-> 258, qclass |-> 1]

\* Two records of a type, the second one a variant of the first whose owner is
\* written in another case.
TypeMessage(kind, i, compress) ==
    LET rr(owner, k) == RR(owner, kind, Variant(kind, k))
    IN  Build(<<Q(N(<<a>>))>>, <<rr(N(<<b, a>>), 0), rr(N(<<b, Upper>>), i)>>, <<>>, <<>>, compress)

Opt(ttl, options) ==
    [RR(Root, "OPT", [Option |-> options]) EXCEPT !.class = 1232, !.ttl = ttl]
Tsig == [RR(N(<<c>>), "TSIG", Of("TSIG", 1)) EXCEPT !.class = 255]

NS(owner, target) == RR(owner, "NS", [Ns |-> target])
SRV(owner, target) == RR(owner, "SRV", [Priority |-> 1, Weight |-> 2, Port |-> 3, Target |-> target])
TXT(owner, n) == RR(owner, "TXT", [Txt |-> <<[i \in 1..n |-> 97]>>])

Chain == <<N(<<a>>), N(<<b, a>>), N(<<c, b, a>>), N(<<d, c, b, a>>)>>

SpecialMessages(compress) ==
    <<\* a chain of pointers as long as the names allow
      Build(<<Q(Chain[1]), Q(Chain[2]), Q(Chain[3])>>, <<NS(Chain[4], Chain[1])>>, <<>>, <<>>, compress),
      Build(<<Q(Chain[4])>>, <<NS(Chain[1], Chain[4]), SRV(Chain[2], N(<<d, a>>))>>,
              <<NS(N(<<d, a>>), N(<<c, d, a>>))>>, <<TXT(N(<<c, d, a>>), 1)>>, compress),
      \* names that start on one side of the offset limit and end on the other
      Build(<<Q(N(<<Dot, a>>))>>, <<NS(N(<<High, a>>), N(<<d, Dot, a>>)), NS(N(<<c, b>>), N(<<d, c, b>>))>>,
              <<NS(N(<<d, c, b>>), N(<<c, b>>))>>, <<TXT(N(<<b>>), 1)>>, compress),
      Build(<<Q(N(<<a>>))>>, <<SRV(N(<<b>>), N(<<c, d>>)), NS(N(<<d>>), N(<<c, d>>))>>,
              <<SRV(N(<<High, c>>), N(<<b>>))>>, <<>>, compress),
      Build(<<Q(Root)>>, <<NS(Root, Root)>>, <<>>, <<>>, compress),
      \* extended response codes with and without an OPT record, two OPT records, TSIG
      [Build(<<Q(N(<<a>>))>>, <<>>, <<>>, <<Opt(<<9, 0, 128, 0>>, Sample("DataOpt")[1])>>, compress)
          EXCEPT !.Rcode = 23, !.Opcode = 5, !.flags = DOMAIN FlagBit],
      [Build(<<Q(N(<<a>>))>>, <<>>, <<>>, <<>>, compress) EXCEPT !.Rcode = 23, !.flags = {}],
      [Build(<<Q(N(<<a>>))>>, <<>>, <<>>, <<>>, compress) EXCEPT !.Rcode = 15],
      Build(<<>>, <<>>, <<>>, <<Opt(<<9, 0, 0, 0>>, Sample("DataOpt")[2]), TXT(N(<<a>>), 1),
                                  Opt(<<7, 0, 0, 0>>, <<>>), Tsig>>, compress),
      \* records that do not fit the smallest size
      Build(<<Q(N(<<a>>))>>, <<TXT(N(<<b, a>>), 9), TXT(N(<<b, a>>), 9), TXT(N(<<a>>), 9)>>,
              <<NS(N(<<a>>), N(<<c, a>>)), NS(N(<<a>>), N(<<b, a>>))>>,
              <<TXT(N(<<c, a>>), 4), Opt(Zeros(4), <<>>), TXT(N(<<b, a>>), 4)>>, compress),
      Build(<<Q(N(<<a>>)), Q(N(<<b>>)), Q(N(<<c>>))>>, <<TXT(N(<<b, a>>), 40), TXT(N(<<a>>), 1)>>, <<>>,
              <<Opt(Zeros(4), Sample("DataOpt")[2])>>, compress),
      Build(<<Q(N(<<a>>))>>, <<TXT(N(<<Dot, a>>), 3), TXT(N(<<Dot, a>>), 3)>>,
              <<NS(N(<<b, Dot, a>>), N(<<c, b, Dot, a>>))>>, <<NS(N(<<c, b, Dot, a>>), N(<<High, a>>))>>, compress),
      \* wildcards, a label that only begins like one, and a message that
      \* compression makes much smaller
      Build(<<>>, <<TXT(N(<<Star, a>>), 1), TXT(N(<<Star, a>>), 2)>>, <<>>, <<>>, compress),
      Build(<<>>, <<TXT(N(<<Star>>), 1)>>, <<>>, <<>>, compress),
      Build(<<>>, <<TXT(N(<<<<42, 97>>, a>>), 1)>>, <<>>, <<>>, compress),
      Build(<<Q(Chain[4])>>, [i \in 1..4 |-> NS(Chain[4], Chain[4])], <<>>, <<>>, compress)>>

Kinds == DOMAIN PackTable \ {"OPT"}

MCCorpus ==
    UNION {{<<k, i, z>> : i \in 0..VariantCount(k), z \in BOOLEAN} : k \in Kinds}
    \cup {<<"special", i, z>> : i \in 1..16, z \in BOOLEAN}

MCMessage(x) ==
    IF x[1] = "special" THEN SpecialMessages(x[3])[x[2]] ELSE TypeMessage(x[1], x[2], x[3])

\* The receiver's message held a record in every section, and an extended rcode.
MCReused ==
    Build(<<Q(N(<<d>>))>>, <<TXT(N(<<d>>), 1)>>, <<TXT(N(<<d>>), 2)>>, <<Opt(<<5, 0, 0, 0>>, <<>>)>>, FALSE)

MCSizes == {0, 75, 76, 77, 90}

\* Zone keys of three kinds, and keys that must not verify: of another zone,
\* without the zone flag, of another protocol, and another key with the same tag.
Key(name, flags, protocol, alg, base64) ==
    [name |-> name, class |-> 1, Flags |-> flags, Protocol |-> protocol, Algorithm |-> alg,
     PublicKey |-> base64]
RSAKey == Key(N(<<a>>), 256, 3, 8, <<0, 16, 15, 8>> \o Zeros(84))
ECKey == Key(N(<<a>>), 257, 3, 13, <<9>> \o Zeros(85) \o <<Equals, Equals>>)
FalconKey(name, flags, protocol) == Key(name, flags, protocol, 17, <<0, 0, 20, 6>>)
Falcon == FalconKey(N(<<a>>), 256, 3)

MCKeys == {RSAKey, ECKey, Falcon, FalconKey(N(<<b>>), 256, 3), FalconKey(N(<<a>>), 0, 3),
           FalconKey(N(<<a>>), 256, 2), Key(N(<<a>>), 256, 3, 17, <<1, 32, 20, 0>>)}

Stub(key, signer, inception, expiration, ttl) ==
    [key |-> key, SignerName |-> signer, Inception |-> inception, Expiration |-> expiration,
     OrigTtl |-> ttl]
MCStubs == {Stub(ECKey, N(<<Upper>>), 1, 4, Zeros(4)), Stub(Falcon, N(<<a>>), 6, 1, <<0, 0, 0, 9>>)}
MCMsgStubs == {Stub(ECKey, N(<<Upper>>), 1, 4, Zeros(4)), Stub(RSAKey, N(<<a>>), 2, 6, Zeros(4)),
               Stub(Falcon, N(<<a>>), 2, 6, Zeros(4))}
=============================================================================
