------------------------------- MODULE RRCodec -------------------------------
(***************************************************************************)
(* Resource records: what the per-type tables of RRGenerated mean, and     *)
(* PackRR, UnpackRR, Len, Copy and IsDuplicate on top of them.             *)
(*                                                                         *)
(* A record is [name, rrtype, class, ttl, f]: its header and the function  *)
(* f from the field names of its type to their values.  rrtype is the      *)
(* number; KindOf gives the Go type that TypeToRR makes for it.            *)
(***************************************************************************)
EXTENDS Options, RRGenerated

\* The types of TypeToRR, with their numbers.
TypeCode ==
    [A |-> 1, AAAA |-> 28, AFSDB |-> 18, AMTRELAY |-> 260, ANY |-> 255,
     APL |-> 42, AVC |-> 258, CAA |-> 257, CDNSKEY |-> 60, CDS |-> 59,
     CERT |-> 37, CNAME |-> 5, CSYNC |-> 62, DHCID |-> 49, DLV |-> 32769,
     DNAME |-> 39, DNSKEY |-> 48, DS |-> 43, EID |-> 31, EUI48 |-> 108,
     EUI64 |-> 109, GID |-> 102, GPOS |-> 27, HINFO |-> 13, HIP |-> 55,
     HTTPS |-> 65, IPSECKEY |-> 45, ISDN |-> 20, KEY |-> 25, KX |-> 36,
     L32 |-> 105, L64 |-> 106, LOC |-> 29, LP |-> 107, MB |-> 7, MD |-> 3,
     MF |-> 4, MG |-> 8, MINFO |-> 14, MR |-> 9, MX |-> 15, NAPTR |-> 35,
     NID |-> 104, NIMLOC |-> 32, NINFO |-> 56, NS |-> 2, NSAPPTR |-> 23,
     NSEC |-> 47, NSEC3 |-> 50, NSEC3PARAM |-> 51, NULL |-> 10,
     NXNAME |-> 128, NXT |-> 30, OPENPGPKEY |-> 61, OPT |-> 41, PTR |-> 12,
     PX |-> 26, RESINFO |-> 261, RKEY |-> 57, RP |-> 17, RRSIG |-> 46,
     RT |-> 21, SIG |-> 24, SMIMEA |-> 53, SOA |-> 6, SPF |-> 99, SRV |-> 33,
     SSHFP |-> 44, SVCB |-> 64, TA |-> 32768, TALINK |-> 58, TKEY |-> 249,
     TLSA |-> 52, TSIG |-> 250, TXT |-> 16, UID |-> 101, UINFO |-> 100,
     URI |-> 256, X25 |-> 19, ZONEMD |-> 63]

\* TypeToRR, and RFC3597 for a number it does not have.
KindOf(code) ==
    IF \E k \in DOMAIN TypeCode : TypeCode[k] = code
    THEN CHOOSE k \in DOMAIN TypeCode : TypeCode[k] = code
    ELSE "RFC3597"

Width == [Uint8 |-> 1, Uint16 |-> 2, Uint32 |-> 4, Uint48 |-> 6, Uint64 |-> 8]
Uints == DOMAIN Width
Names == {"CDomainName", "DomainName"}

IPSECGatewayNone == 0
IPSECGatewayIPv4 == 1
IPSECGatewayIPv6 == 2
IPSECGatewayHost == 3

\* The salt "-", which stands for no salt.
Dash == <<45>>

-----------------------------------------------------------------------------
\* pack.

\* The octets of one field that is not a name.
FieldOctets(kind, v) ==
    CASE kind \in Uints -> Good(BE(v, Width[kind]), 0)
      [] kind = "DataA" -> packDataA(v)
      [] kind = "DataAAAA" -> packDataAAAA(v)
      [] kind = "String" -> packTxtString(v)
      [] kind = "StringTxt" -> Joined([i \in 1..Len(v) |-> packTxtString(v[i])])
      [] kind = "StringOctet" -> packOctetString(v)
      [] kind = "StringAny" -> Good(v, 0)
      [] kind = "StringHex" -> fromHex(v)
      [] kind = "StringHexSalt" -> IF v = Dash THEN Good(<<>>, 0) ELSE fromHex(v)
      [] kind = "StringBase32" -> fromBase32(v)
      [] kind = "StringBase64" -> fromBase64(v)
      [] kind = "DataNsec" -> packDataNsec(v)
      [] kind = "DataOpt" -> packDataOpt(v)
      [] kind = "DataSVCB" -> packDataSVCB(v)
      [] kind = "DataApl" -> Joined([i \in 1..Len(v) |-> packDataAplPrefix(v[i])])

\* packTxt of no strings and packOctetString ask for one octet more than they use.
NeedsRoom(kind, v) == kind = "StringOctet" \/ (kind = "StringTxt" /\ v = <<>>)

PutEncoded(p, o, room) ==
    IF o.err \/ (room /\ Len(p.msg) >= p.cap) THEN Failed(p) ELSE Put(p, o.v)
PutField(p, kind, v) == PutEncoded(p, FieldOctets(kind, v), NeedsRoom(kind, v))

\* packIPSECGateway: the gateway types without a gateway, and those of no
\* meaning, pack nothing.
packIPSECGateway(f, p) ==
    CASE f.GatewayType = IPSECGatewayIPv4 -> PutEncoded(p, packDataA(f.GatewayAddr), FALSE)
      [] f.GatewayType = IPSECGatewayIPv6 -> PutEncoded(p, packDataAAAA(f.GatewayAddr), FALSE)
      [] f.GatewayType = IPSECGatewayHost -> packDomainName(f.GatewayHost, p, FALSE)
      [] OTHER -> p

packDataDomainNames(names, p) ==
    LET at[i \in 0..Len(names)] == IF i = 0 THEN p ELSE packDomainName(names[i], at[i - 1], FALSE)
    IN  at[Len(names)]

\* rr.pack: the entries of the type's row in turn, up to the first that fails.
packEntry(e, f, p, compress) ==
    IF p.err THEN p
    ELSE CASE e[1] \in Names -> packDomainName(f[e[2]], p, compress /\ e[1] = "CDomainName")
           [] e[1] = "DataDomainNames" -> packDataDomainNames(f[e[2]], p)
           [] e[1] = "IPSECGateway" -> packIPSECGateway(f, p)
           [] OTHER -> PutField(p, e[1], f[e[2]])

packEntries(row, f, p, compress) ==
    LET at[i \in 0..Len(row)] == IF i = 0 THEN p ELSE packEntry(row[i], f, at[i - 1], compress)
    IN  at[Len(row)]

packRdata(kind, f, p, compress) == packEntries(PackTable[kind], f, p, compress)

\* A header that starts at the end of the buffer is silently left out.
packHeader(rr, p, compress) ==
    IF Len(p.msg) = p.cap THEN p
    ELSE Put(packDomainName(rr.name, p, compress),
             BE(rr.rrtype, 2) \o BE(rr.class, 2) \o rr.ttl \o BE(0, 2))

\* The last two octets of the header h are overwritten with the length of what
\* follows it in r.
SetRdlength(h, r) ==
    LET headerEnd == Len(h.msg)
        rdlength == Len(r.msg) - headerEnd
    IN  IF h.err \/ r.err \/ rdlength \notin Uint16 THEN Failed(r)
        ELSE [r EXCEPT !.msg = [@ EXCEPT ![headerEnd - 1] = rdlength \div 256,
                                         ![headerEnd] = rdlength % 256]]
packBehind(h, rr, compress) == SetRdlength(h, packRdata(rr.kind, rr.f, h, compress))
packRR(rr, p, compress) == packBehind(packHeader(rr, p, compress), rr, compress)

-----------------------------------------------------------------------------
\* unpack.

\* The value a field has before anything is unpacked into it.
ZeroField(kind) == IF kind \in Uints THEN 0 ELSE <<>>

ZeroesOf(row) ==
    LET at == {i \in 1..Len(row) : row[i] # Eor}
        zero == [x \in {row[i][2] : i \in at} |->
                    ZeroField(row[CHOOSE i \in at : row[i][2] = x][1])]
    IN  IF "GatewayHost" \in DOMAIN zero THEN zero @@ [GatewayAddr |-> <<>>] ELSE zero
ZeroFields(kind) == ZeroesOf(UnpackTable[kind])

unpackTxt(msg, start) ==
    LET from[off \in 0..Len(msg)] ==
            LET s == unpackString(msg, off)
                rest == from[s.off]
            IN  CASE off = Len(msg) -> Good(<<>>, off)
                  [] off < Len(msg) /\ s.err -> Bad
                  [] OTHER -> [rest EXCEPT !.v = <<s.v>> \o @]
    IN  from[start]

unpackDataDomainNames(msg, start, end) ==
    LET from[off \in 0..Len(msg)] ==
            LET s == UnpackDomainName(msg, off)
                rest == from[s.off]
            IN  CASE off >= end -> Good(<<>>, off)
                  [] off < end /\ s.err -> Bad
                  [] OTHER -> [rest EXCEPT !.v = <<s.v>> \o @]
    IN  IF end > Len(msg) THEN Bad ELSE from[start]

\* The octets from off to end as the text To makes of them.
Text(msg, off, end, To(_)) ==
    IF end > Len(msg) THEN Bad ELSE Good(To(SubSeq(msg, off + 1, end)), end)

Same(o) == o

\* One field; end is where the rdata ends, size the value of the size field.
unpackField(kind, msg, off, end, size) ==
    CASE kind \in Uints ->
            IF off + Width[kind] > Len(msg) THEN Bad
            ELSE Good(Num(Octets(msg, off, Width[kind])), off + Width[kind])
      [] kind = "DomainName" -> UnpackDomainName(msg, off)
      [] kind = "DataA" -> unpackData(msg, off, IPv4len)
      [] kind = "DataAAAA" -> unpackData(msg, off, IPv6len)
      [] kind = "String" -> unpackString(msg, off)
      [] kind = "StringTxt" -> unpackTxt(msg, off)
      [] kind = "StringOctet" -> Good(SubSeq(msg, off + 1, Len(msg)), Len(msg))
      [] kind = "StringHex" -> Text(msg, off, off + size, toHex)
      [] kind = "StringBase32" -> Text(msg, off, off + size, toBase32)
      [] kind = "StringBase64" -> Text(msg, off, off + size, toBase64)
      [] kind = "StringHexToEnd" -> Text(msg, off, end, toHex)
      [] kind = "StringBase64ToEnd" -> Text(msg, off, end, toBase64)
      [] kind = "StringAnyToEnd" -> Text(msg, off, end, Same)
      [] kind = "DataNsec" -> unpackDataNsec(msg, off)
      [] kind = "DataOpt" -> unpackDataOpt(msg, off)
      [] kind = "DataSVCB" -> unpackDataSVCB(msg, off)
      [] kind = "DataApl" -> unpackDataApl(msg, off)
      [] kind = "DataDomainNamesToEnd" -> unpackDataDomainNames(msg, off, end)

\* rr.x, off, err = ...
SetField(u, x, r) == [u EXCEPT !.err = r.err, !.off = r.off, !.f = [@ EXCEPT ![x] = r.v]]

\* unpackIPSECGateway, into GatewayAddr or GatewayHost.
unpackIPSECGateway(msg, u) ==
    CASE u.f.GatewayType = IPSECGatewayIPv4 -> SetField(u, "GatewayAddr", unpackData(msg, u.off, IPv4len))
      [] u.f.GatewayType = IPSECGatewayIPv6 -> SetField(u, "GatewayAddr", unpackData(msg, u.off, IPv6len))
      [] u.f.GatewayType = IPSECGatewayHost -> SetField(u, "GatewayHost", UnpackDomainName(msg, u.off))
      [] OTHER -> u

\* rr.unpack: the entries of the row in turn; at Eor the end of the message
\* ends the record, its remaining fields zero.
unpackEntry(e, msg, end, u) ==
    CASE u.err \/ u.done -> u
      [] ~(u.err \/ u.done) /\ e = Eor -> [u EXCEPT !.done = (u.off = Len(msg))]
      [] e[1] = "IPSECGateway" -> unpackIPSECGateway(msg, u)
      [] OTHER -> SetField(u, e[2], unpackField(e[1], msg, u.off, end,
                                                IF Len(e) = 3 THEN u.f[e[3]] ELSE 0))

unpackEntries(row, msg, end, u) ==
    LET at[i \in 0..Len(row)] == IF i = 0 THEN u ELSE unpackEntry(row[i], msg, end, at[i - 1])
    IN  at[Len(row)]

unpackRdata(kind, msg, off, end) ==
    unpackEntries(UnpackTable[kind], msg, end,
                  [off |-> off, f |-> ZeroFields(kind), err |-> FALSE, done |-> FALSE])

\* UnpackRRWithHeader, on a message that unpackHeader has cut at the record's end.
UnpackRRWithHeader(h, rdlength, msg, off) ==
    LET kind == KindOf(h.rrtype)
        end == off + rdlength
        rr(f) == h @@ [kind |-> kind, f |-> f]
        whole(u) == IF u.err \/ u.off # end THEN Bad ELSE Good(rr(u.f), u.off)
    IN  CASE end > Len(msg) -> Bad
          [] rdlength = 0 -> Good(rr(ZeroFields(kind)), off)
          [] OTHER -> whole(unpackRdata(kind, msg, off, end))

\* The header v, the length of the rdata, and the message cut behind it; at the
\* end of the message a header without anything.
unpackHeader(msg, off) ==
    LET header(name, at, rdlength) ==
            IF name.err \/ at + 10 > Len(msg) \/ at + 10 + rdlength > Len(msg) THEN Bad
            ELSE [err |-> FALSE, off |-> at + 10, rdlength |-> rdlength,
                  msg |-> SubSeq(msg, 1, at + 10 + rdlength),
                  v |-> [name |-> name.v, rrtype |-> Num(Octets(msg, at, 2)),
                         class |-> Num(Octets(msg, at + 2, 2)), ttl |-> Octets(msg, at + 4, 4)]]
        behind(name) == header(name, name.off, Num(Octets(msg, name.off + 8, 2)))
    IN  IF off = Len(msg)
        THEN [err |-> FALSE, off |-> off, rdlength |-> 0, msg |-> msg,
              v |-> [name |-> <<>>, rrtype |-> 0, class |-> 0, ttl |-> Zeros(4)]]
        ELSE behind(UnpackDomainName(msg, off))

UnpackRdata(h) == IF h.err THEN Bad ELSE UnpackRRWithHeader(h.v, h.rdlength, h.msg, h.off)
UnpackRR(msg, off) == UnpackRdata(unpackHeader(msg, off))

-----------------------------------------------------------------------------
\* len.

\* The types whose len is that of the record they embed, and the rows of the
\* types whose len is written by hand.
Embeds == [CDNSKEY |-> "DNSKEY", KEY |-> "DNSKEY", CDS |-> "DS", DLV |-> "DS",
           HTTPS |-> "SVCB", NXT |-> "NSEC", SIG |-> "RRSIG"]

Len_NSEC == <<<<"DomainName", "NextDomain">>, <<"DataNsec", "TypeBitMap">>>>
Len_NSEC3 == <<<<"Six", "Hash">>, <<"StringHex", "Salt">>, <<"String", "NextDomain">>, <<"Uint8", "HashLength">>,
               <<"DataNsec", "TypeBitMap">>>>
Len_CSYNC == <<<<"Uint32", "Serial">>, <<"Uint16", "Flags">>, <<"DataNsec", "TypeBitMap">>>>
Len_OPT == <<<<"DataOpt", "Option">>>>

LenRow(kind) ==
    LET k == IF kind \in DOMAIN Embeds THEN Embeds[kind] ELSE kind
    IN  CASE k = "NSEC" -> Len_NSEC
          [] k = "NSEC3" -> Len_NSEC3
          [] k = "CSYNC" -> Len_CSYNC
          [] k = "OPT" -> Len_OPT
          [] OTHER -> LenTable[k]

\* What one statement of len adds for a field that is not a name.
FieldLen(kind, v) ==
    CASE kind \in Uints -> Width[kind]
      [] kind = "Six" -> 6
      [] kind = "DataA" -> IF v = <<>> THEN 0 ELSE IPv4len
      [] kind = "DataAAAA" -> IF v = <<>> THEN 0 ELSE IPv6len
      [] kind = "String" -> Len(v) + 1
      [] kind = "StringTxt" -> Total([i \in 1..Len(v) |-> Len(v[i]) + 1])
      [] kind = "StringOctet" -> Len(v)
      [] kind = "StringHex" -> Len(v) \div 2
      [] kind = "StringBase64" -> DecodedLen(Len(v))
      [] kind = "DataNsec" -> typeBitMapLen(v)
      [] kind = "DataApl" -> Total([i \in 1..Len(v) |-> AplPrefixLen(v[i])])
      [] kind = "DataSVCB" -> Total([i \in 1..Len(v) |-> 4 + SVCB_len(v[i])])
      [] kind = "DataOpt" -> Total([i \in 1..Len(v) |-> 4 + Len(EDNS0_pack(v[i]).v)])

\* The length a.len and the suffixes a.c behind one more name, and behind n octets.
AddName(a, r) == [len |-> a.len + r.len, c |-> r.c]
NameLen(a, s, off, compress) == AddName(a, domainNameLen(s, off + a.len, a.c, compress))
AddOctets(a, n) == [a EXCEPT !.len = @ + n]

GatewayLen(f) ==
    CASE f.GatewayType = IPSECGatewayIPv4 -> IPv4len
      [] f.GatewayType = IPSECGatewayIPv6 -> IPv6len
      [] f.GatewayType = IPSECGatewayHost -> StringLen(f.GatewayHost) + 1
      [] OTHER -> 0

NamesLen(a, names, off) ==
    LET at[i \in 0..Len(names)] == IF i = 0 THEN a ELSE NameLen(at[i - 1], names[i], off, FALSE)
    IN  at[Len(names)]

EntryLen(a, e, f, off) ==
    CASE e[1] \in Names -> NameLen(a, f[e[2]], off, e[1] = "CDomainName")
      [] e[1] = "DataDomainNames" -> NamesLen(a, f[e[2]], off)
      [] e[1] = "IPSECGateway" -> AddOctets(a, GatewayLen(f))
      [] OTHER -> AddOctets(a, FieldLen(e[1], f[e[2]]))

EntriesLen(a, row, f, off) ==
    LET at[i \in 0..Len(row)] == IF i = 0 THEN a ELSE EntryLen(at[i - 1], row[i], f, off)
    IN  at[Len(row)]

\* rr.len(off, compression): [len, c], c the suffixes seen so far.
rrLen(rr, off, c) ==
    EntriesLen(AddOctets(NameLen([len |-> 0, c |-> c], rr.name, off, TRUE), 10),
               LenRow(rr.kind), rr.f, off)

NoMap == [valid |-> FALSE, seen |-> {}]

\* Len(r): the uncompressed length.
RRLen(rr) == rrLen(rr, 0, NoMap).len

-----------------------------------------------------------------------------
\* Records that can be packed.

IsSeq(s) == Len(s) \in Nat /\ s = [i \in 1..Len(s) |-> s[i]]

\* The Go type of a field that is not a name.
IsValue(kind, v) ==
    CASE kind \in Uints -> v \in Nat
      [] kind = "StringTxt" -> v \in Seq(Seq(Byte))
      [] kind = "DataNsec" -> v \in Seq(Uint16)
      [] kind = "DataOpt" -> IsSeq(v) /\ \A i \in 1..Len(v) : IsOption(v[i])
      [] kind = "DataSVCB" -> IsSeq(v) /\ \A i \in 1..Len(v) : IsPair(v[i])
      [] kind = "DataApl" ->
            IsSeq(v) /\ \A i \in 1..Len(v) : v[i].ip \in Seq(Byte) /\ v[i].prefix \in 0..(8 * Len(v[i].ip))
      [] OTHER -> v \in Seq(Byte)

IsGateway(f) ==
    CASE f.GatewayType = IPSECGatewayIPv4 -> f.GatewayAddr \in Seq(Byte) /\ ~packDataA(f.GatewayAddr).err
      [] f.GatewayType = IPSECGatewayIPv6 -> f.GatewayAddr \in Seq(Byte) /\ ~packDataAAAA(f.GatewayAddr).err
      [] f.GatewayType = IPSECGatewayHost -> IsNameField(f.GatewayHost)
      [] OTHER -> TRUE

\* A field that pack can encode: a name, or a value whose encoding does not fail.
IsEncodable(e, f) ==
    CASE e[1] \in Names -> IsNameField(f[e[2]])
      [] e[1] = "DataDomainNames" -> IsSeq(f[e[2]]) /\ \A i \in 1..Len(f[e[2]]) : IsNameField(f[e[2]][i])
      [] e[1] = "IPSECGateway" -> IsGateway(f)
      [] OTHER -> IsValue(e[1], f[e[2]]) /\ ~FieldOctets(e[1], f[e[2]]).err

\* A record of a type that the library knows, every field of which can be
\* encoded, and which is no longer than a message may be.
IsRR(rr) ==
    /\ DOMAIN rr = {"name", "rrtype", "class", "ttl", "kind", "f"}
    /\ IsNameField(rr.name) /\ rr.ttl \in [1..4 -> Byte]
    /\ rr.kind \in DOMAIN PackTable
    /\ \A i \in 1..Len(PackTable[rr.kind]) : IsEncodable(PackTable[rr.kind][i], rr.f)
    /\ RRLen(rr) <= MaxUint16

\* pack and len of a type go through its fields in the same order, each with the
\* helper of its own for a field: so it is for every type but NSEC3, whose len
\* is written by hand.
FieldKinds == Uints \cup Names \cup
    {"DataDomainNames", "IPSECGateway", "DataA", "DataAAAA", "String", "StringTxt", "StringOctet",
     "StringAny", "StringHex", "StringHexSalt", "StringBase64", "DataNsec", "DataOpt",
     "DataSVCB", "DataApl"}
LenKind(kind) ==
    CASE kind = "StringAny" -> "StringOctet" [] kind = "StringHexSalt" -> "StringHex" [] OTHER -> kind

ASSUME RowsAgree ==
    /\ \A k \in DOMAIN PackTable \ {"NSEC3"} :
         /\ PackTable[k] \in Seq(FieldKinds \X STRING)
         /\ LenRow(k) = [i \in 1..Len(PackTable[k]) |-> <<LenKind(PackTable[k][i][1]), PackTable[k][i][2]>>]
    /\ LenRow("NSEC3") = Len_NSEC3
    /\ PackTable["NSEC3"] =
         <<<<"Uint8", "Hash">>, <<"Uint8", "Flags">>, <<"Uint16", "Iterations">>, <<"Uint8", "SaltLength">>,
           <<"StringHexSalt", "Salt">>, <<"Uint8", "HashLength">>, <<"StringBase32", "NextDomain">>,
           <<"DataNsec", "TypeBitMap">>>>

-----------------------------------------------------------------------------
\* copy and isDuplicate.

\* The fields that are slices, whose contents two records could share.
SliceKinds == {"DataA", "DataAAAA", "StringTxt", "DataNsec", "DataOpt", "DataSVCB", "DataApl",
               "DataDomainNames"}
SliceFields(kind) ==
    LET row == PackTable[kind]
    IN  {row[i][2] : i \in {j \in 1..Len(row) : row[j][1] \in SliceKinds}}
        \cup (IF \E i \in 1..Len(row) : row[i][1] = "IPSECGateway" THEN {"GatewayAddr"} ELSE {})

\* The slices that rr.copy() leaves shared between rr and its copy.
CopyShares(rr) ==
    LET row == IF rr.kind \in DOMAIN Embeds /\ CopyTable[rr.kind][1][1] = "embedded"
               THEN CopyTable[CopyTable[rr.kind][1][2]] ELSE CopyTable[rr.kind]
    IN  {x \in SliceFields(rr.kind) :
            \E i \in 1..Len(row) :
                /\ row[i][2] = x
                /\ \/ row[i][1] = "value"
                   \/ rr.kind = "OPT" /\ \E k \in 1..Len(rr.f[x]) : copyShares(rr.f[x][k])}

Lower(c) == IF c \in 65..90 THEN c + 32 ELSE c
CanonicalName(s) == [i \in 1..Len(s) |-> [k \in 1..Len(s[i]) |-> Lower(s[i][k])]]

isDuplicateName(s1, s2) == CanonicalName(s1) = CanonicalName(s2)

IPEqual(a, b) == a = b \/ (To4(a) # <<>> /\ To4(a) = To4(b))

\* One comparison of the type's isDuplicate.
sameField(e, f, g) ==
    LET a == f[e[2]]
        b == g[e[2]]
    IN  CASE e[1] \in {"equal", "equalEach"} -> a = b
          [] e[1] = "isDuplicateName" -> isDuplicateName(a, b)
          [] e[1] = "isDuplicateNameEach" ->
                Len(a) = Len(b) /\ \A i \in 1..Len(a) : isDuplicateName(a[i], b[i])
          [] e[1] = "IPEqual" -> IPEqual(a, b)
          [] e[1] = "equalsEach" ->
                /\ Len(a) = Len(b)
                /\ \A i \in 1..Len(a) : /\ a[i].neg = b[i].neg /\ IPEqual(a[i].ip, b[i].ip)
                                        /\ a[i].prefix = b[i].prefix /\ Len(a[i].ip) = Len(b[i].ip)
          [] e[1] = "areSVCBPairArraysEqual" -> Len(a) = Len(b) /\ areSVCBPairArraysEqual(a, b)
          [] e[1] = "gatewayEqual" ->
                (CASE f.GatewayType \in {IPSECGatewayIPv4, IPSECGatewayIPv6} ->
                          IPEqual(f.GatewayAddr, g.GatewayAddr)
                   [] f.GatewayType = IPSECGatewayHost -> isDuplicateName(a, b)
                   [] OTHER -> TRUE)

\* The headers alike but for the TTL, and the fields; no OPT is a duplicate.
IsDuplicate(r1, r2) ==
    /\ r1.class = r2.class /\ r1.rrtype = r2.rrtype /\ isDuplicateName(r1.name, r2.name)
    /\ r1.kind = r2.kind /\ r1.kind # "OPT"
    /\ \A i \in 1..Len(DupTable[r1.kind]) : sameField(DupTable[r1.kind][i], r1.f, r2.f)

-----------------------------------------------------------------------------
\* The unknown form of RFC 3597: the rdata as one hex text.

\* The record rr, of which p has the octets.
AsRFC3597(rr, p) ==
    IF p.err THEN Bad
    ELSE Good([rr EXCEPT !.kind = "RFC3597",
                         !.f = [Rdata |-> toHex(Suffix(p.msg, WireLen(rr.name) + 11))]], 0)

ToRFC3597(rr) == AsRFC3597(rr, packRR(rr, NewBuffer(RRLen(rr), FALSE), FALSE))

\* Octets left behind the fields are not an error here.
fromRFC3597(u) ==
    LET kind == KindOf(u.rrtype)
        fields(msg) == IF msg = <<>> THEN ZeroFields(kind) ELSE unpackRdata(kind, msg, 0, Len(msg)).f
    IN  [u EXCEPT !.kind = kind, !.f = fields(Undigits(u.f.Rdata, 4))]

=============================================================================
