------------------------------- MODULE Dnssec -------------------------------
(***************************************************************************)
(* Signatures: RRSIG over a set of records (dnssec.go) and SIG(0) over a   *)
(* whole message (sig0.go), on the messages of Msg.                        *)
(*                                                                         *)
(* A signer signs the answer section of the caller's message.  On its way  *)
(* to the validator the set is reordered, repeated, spelled in other case, *)
(* given a lower TTL or expanded from a wildcard, none of which a          *)
(* signature may mind, or it is changed.  A message signed with SIG(0) may *)
(* have one octet changed.                                                 *)
(*                                                                         *)
(* The cryptography of OpenSSL is ideal: a signature is the octets Raw,    *)
(* and it verifies for the key and for the data that it was made with.     *)
(***************************************************************************)
EXTENDS Msg

CONSTANTS
    Keys,       \* DNSKEY records: [name, class, Flags, Protocol, Algorithm, PublicKey]
    Stubs,      \* what a caller fills in: [key, SignerName, Inception, Expiration, OrigTtl]
    MsgStubs,   \* the same for SIG(0)
    year68,     \* 2^31 in the code: half the range of a serial number
    MaxSigned,  \* bound: octets of a message that is signed with SIG(0)
    MaxRelays   \* bound: what happens to a set on its way

VARIABLES
    sig,     \* <<>>, or <<[err, rr, made, stub, set]>> of RRSIG.Sign over set
    held,    \* the set of records that the validator has
    renamed, \* history: its owner is not the name that was signed
    relays,  \* how often it was changed on its way
    s0       \* <<>>, or <<[err, buf, made, stub, changed, sigAt]>> of SIG.Sign

sigVars == <<sig, held, renamed, relays, s0>>

Star == <<42>>

-----------------------------------------------------------------------------
\* Keys.
RSAMD5 == 1
RSA == {5, 7, 8, 10}
ECDSA == {13, 14}
ED25519 == 15
FALCON == 17..21

packKeyWire(k) ==
    BE(k.Flags, 2) \o <<k.Protocol, k.Algorithm>> \o fromBase64(k.PublicKey).v

KeyTag(k) ==
    LET key == packKeyWire(k)
        sum == Total([i \in 1..Len(key) |-> IF i % 2 = 0 THEN key[i] ELSE 256 * key[i]])
        modulus == fromBase64(k.PublicKey).v
    IN  IF k.Algorithm = RSAMD5
        THEN IF Len(modulus) > 1 THEN Num(Octets(modulus, Len(modulus) - 3, 2)) ELSE 0
        ELSE (sum + sum \div 65536) % 65536

\* The length of the exponent is in the first octet, or in the next two.
publicKeyRSA(buf) ==
    LET keyoff == IF buf[1] = 0 THEN 3 ELSE 1
        explen == IF buf[1] = 0 THEN Num(Octets(buf, 1, 2)) ELSE buf[1]
        modoff == keyoff + explen
        modlen == Len(buf) - modoff
    IN  IF \/ Len(buf) < 66
           \/ explen \notin 1..4 \/ buf[keyoff + 1] = 0 \/ (explen = 4 /\ buf[keyoff + 1] > 127)
           \/ modlen \notin 64..512 \/ buf[modoff + 1] = 0
        THEN Bad ELSE Good(<<Octets(buf, keyoff, explen), Octets(buf, modoff, modlen)>>, 0)

publicKeyECDSA(alg, buf) == IF Len(buf) # (IF alg = 13 THEN 64 ELSE 96) THEN Bad ELSE Good(buf, 0)
publicKeyGeneric(alg, buf) == IF alg = ED25519 /\ Len(buf) # 32 THEN Bad ELSE Good(buf, 0)

\* The key that verifies, of the algorithms that Verify knows.
publicKey(k) ==
    LET buf == fromBase64(k.PublicKey).v
    IN  CASE k.Algorithm \in RSA -> publicKeyRSA(buf)
          [] k.Algorithm \in ECDSA -> publicKeyECDSA(k.Algorithm, buf)
          [] OTHER -> publicKeyGeneric(k.Algorithm, buf)

-----------------------------------------------------------------------------
\* sign, and the verification of what it returns.

\* What OpenSSL's private key of k returns: for ECDSA the numbers R and S.
Raw(alg) == IF alg \in ECDSA THEN <<<<7>>, <<8, 9>>>> ELSE <<1, 0, 2>>

intToBytes(i, length) == Zeros(Max({0, length - Len(i)})) \o i
SetBytes(buf) ==
    LET zeros == {i \in 0..Len(buf) : \A k \in 1..i : buf[k] = 0} IN Suffix(buf, Max(zeros) + 1)

sign(alg) ==
    LET n == IF alg = 13 THEN 32 ELSE 48
    IN  IF alg \in ECDSA THEN intToBytes(Raw(alg)[1], n) \o intToBytes(Raw(alg)[2], n)
        ELSE Raw(alg)

\* The signature octets as Verify passes them to OpenSSL.
Unwrapped(alg, sigbuf) ==
    LET half == Len(sigbuf) \div 2
    IN  IF alg \in ECDSA THEN <<SetBytes(SubSeq(sigbuf, 1, half)), SetBytes(Suffix(sigbuf, half + 1))>>
        ELSE sigbuf

\* made is what the one signature of this behaviour was made with.
VerifyPKCS1v15(made, pub, data, raw) ==
    IF made = [pub |-> pub, data |-> data, raw |-> raw] THEN "nil" ELSE "ErrSig"

-----------------------------------------------------------------------------
\* RRSIG.
CountLabel(s) == Len(s) - 1

IsRRset(rrset) ==
    /\ rrset # <<>>
    /\ \A i \in 1..Len(rrset) : \A x \in {"rrtype", "class", "name"} : rrset[i][x] = rrset[1][x]

packSigWire(s) ==
    BE(s.TypeCovered, 2) \o <<s.Algorithm, s.Labels>> \o s.OrigTtl \o BE(s.Expiration, 4)
        \o BE(s.Inception, 4) \o BE(s.KeyTag, 2)
        \o packDomainName(CanonicalName(s.SignerName), NewBuffer(4096, FALSE), FALSE).msg

\* The names in the rdata that are put in lower case.
CanonicalRdata ==
    [NS |-> {"Ns"}, MD |-> {"Md"}, MF |-> {"Mf"}, CNAME |-> {"Target"}, SOA |-> {"Ns", "Mbox"},
     MB |-> {"Mb"}, MG |-> {"Mg"}, MR |-> {"Mr"}, PTR |-> {"Ptr"}, MINFO |-> {"Rmail", "Email"},
     MX |-> {"Mx"}, RP |-> {"Mbox", "Txt"}, AFSDB |-> {"Hostname"}, RT |-> {"Host"},
     SIG |-> {"SignerName"}, PX |-> {"Map822", "Mapx400"}, NAPTR |-> {"Replacement"},
     KX |-> {"Exchanger"}, SRV |-> {"Target"}, DNAME |-> {"Target"}]

\* The owner as it was signed: "*." + the last labels + ".", which is no name
\* when there is none of these.
SignedOwner(name, n) ==
    IF CountLabel(name) <= n THEN CanonicalName(name)
    ELSE <<Star>> \o (IF n = 0 THEN Root ELSE CanonicalName(SubSeq(name, Len(name) - n, Len(name) - 1)))
         \o Root

\* bytes.Compare(a, b) < 0
Before(a, b) ==
    \E i \in 1..Len(b) : /\ \A j \in 1..(i - 1) : j <= Len(a) /\ a[j] = b[j]
                         /\ i > Len(a) \/ a[i] < b[i]

\* wireSlice.Less: by rdata.
Less(p, q) ==
    LET rdata(w) == Suffix(w, UnpackDomainName(w, 0).off + 11) IN Before(rdata(p), rdata(q))

\* sort.Sort, one wire at a time.
Insert(wires, w) ==
    SelectSeq(wires, LAMBDA x : ~Less(w, x)) \o <<w>> \o SelectSeq(wires, LAMBDA x : Less(w, x))

\* Mutant: records that occur twice are signed twice.
DistinctKeepsAll(wires) == FlattenSeq(wires)

\* The wires one behind the other, without those that equal the one before.
Distinct(wires) ==
    FlattenSeq([i \in 1..Len(wires) |-> IF i > 1 /\ wires[i] = wires[i - 1] THEN <<>> ELSE wires[i]])

\* The wires a with the packed record p.
AddWire(a, p) == IF a.err \/ p.err THEN Bad ELSE Good(Insert(a.v, p.msg), 0)

\* The record r as the signature s covers it, packed.
SignedWire(r, s) ==
    LET low == IF r.kind \in DOMAIN CanonicalRdata THEN CanonicalRdata[r.kind] ELSE {}
        canonical == [r EXCEPT !.ttl = s.OrigTtl, !.name = SignedOwner(@, s.Labels),
                               !.f = [x \in DOMAIN @ |-> IF x \in low THEN CanonicalName(@[x]) ELSE @[x]]]
    IN  packRR(canonical, NewBuffer(RRLen(canonical) + 1, FALSE), FALSE)

rawSignatureData(rrset, s) ==
    LET wires[i \in 0..Len(rrset)] ==
            IF i = 0 THEN Good(<<>>, 0) ELSE AddWire(wires[i - 1], SignedWire(rrset[i], s))
    IN  [wires[Len(rrset)] EXCEPT !.v = Distinct(@)]

Algorithms == RSA \cup ECDSA \cup {ED25519} \cup FALCON

\* The end of signAsIs for the RRSIG rr, with set the data of the records.
Signature(stub, rrset, rr, set) ==
    [err |-> CASE rr.KeyTag = 0 \/ rr.SignerName = <<>> \/ rr.Algorithm = 0 -> "ErrKey"
               [] set.err -> "ErrRdata"
               [] rr.Algorithm \notin Algorithms -> "ErrAlg"
               [] OTHER -> "nil",
     rr |-> rr, stub |-> stub, set |-> rrset,
     made |-> [pub |-> publicKey(stub.key).v, data |-> packSigWire(rr) \o set.v,
               raw |-> Raw(stub.key.Algorithm)]]

signAsIs(stub, rrset, rr) == Signature(stub, rrset, rr, rawSignatureData(rrset, rr))

\* RRSIG.Sign with what the caller has filled in.
Sign(stub, rrset) ==
    LET h0 == rrset[1]
        wildcard == h0.name # Root /\ h0.name[1][1] = 42
    IN  signAsIs(stub, rrset,
          [name |-> h0.name, class |-> h0.class, TypeCovered |-> h0.rrtype,
           Algorithm |-> stub.key.Algorithm, KeyTag |-> KeyTag(stub.key),
           Labels |-> CountLabel(h0.name) - (IF wildcard THEN 1 ELSE 0),
           OrigTtl |-> IF stub.OrigTtl = Zeros(4) THEN h0.ttl ELSE stub.OrigTtl,
           Expiration |-> stub.Expiration, Inception |-> stub.Inception,
           SignerName |-> stub.SignerName, Signature |-> toBase64(sign(stub.key.Algorithm))])

\* strings.HasSuffix of the names as text: the first label of t may be the end
\* of a longer one.
HasSuffix(s, t) ==
    LET k == Len(s) - Len(t) + 1
    IN  t = Root \/ (k >= 1 /\ IsSuffix(t[1], s[k]) /\ Suffix(s, k + 1) = Suffix(t, 2))

ZONE == 8

\* The easy checks of Verify on the key.
CheckKey(rr, k) ==
    /\ rr.class = k.class /\ rr.Algorithm = k.Algorithm
    /\ CanonicalName(rr.SignerName) = CanonicalName(k.name)
    /\ k.Protocol = 3 /\ Bit(k.Flags, ZONE) = 1
    /\ rr.KeyTag = KeyTag(k)

\* The checks of Verify, with set the data of the records.
Verified(rr, made, k, rrset, set) ==
    LET h0 == rrset[1]
    IN  CASE ~IsRRset(rrset) -> "ErrRRset"
          [] ~CheckKey(rr, k) -> "ErrKey"
          [] \/ h0.class # rr.class \/ h0.rrtype # rr.TypeCovered
             \/ CountLabel(h0.name) < rr.Labels
             \/ CanonicalName(h0.name) # CanonicalName(rr.name)
             \/ ~HasSuffix(CanonicalName(h0.name), CanonicalName(rr.SignerName)) -> "ErrRRset"
          [] set.err -> "ErrRdata"
          [] rr.Algorithm \notin Algorithms -> "ErrAlg"
          [] publicKey(k).err -> "ErrKey"
          [] OTHER -> VerifyPKCS1v15(made, publicKey(k).v, packSigWire(rr) \o set.v,
                                     Unwrapped(rr.Algorithm, fromBase64(rr.Signature).v))

\* RRSIG.Verify.
Verify(rr, made, k, rrset) == Verified(rr, made, k, rrset, rawSignatureData(rrset, rr))

\* Division as Go has it, towards 0.
Quo(a, b) == IF a < 0 THEN -((-a) \div b) ELSE a \div b

ValidityPeriod(rr, utc) ==
    LET ti == rr.Inception + Quo(rr.Inception - utc, year68) * year68
        te == rr.Expiration + Quo(rr.Expiration - utc, year68) * year68
    IN  ti <= utc /\ utc <= te

-----------------------------------------------------------------------------
\* SIG(0).

\* The SIG record before it has a signature.
SigRecord(stub) ==
    [name |-> Root, rrtype |-> TypeCode.SIG, class |-> 255, ttl |-> Zeros(4), kind |-> "SIG",
     f |-> [TypeCovered |-> 0, Algorithm |-> stub.key.Algorithm, Labels |-> 0, OrigTtl |-> 0,
            Expiration |-> stub.Expiration, Inception |-> stub.Inception,
            KeyTag |-> KeyTag(stub.key), SignerName |-> stub.SignerName, Signature |-> <<>>]]

Sig0Err(rr, mbuf, size, room, p, signature) ==
    CASE rr.f.KeyTag = 0 \/ rr.f.SignerName = <<>> \/ rr.f.Algorithm = 0 -> "ErrKey"
      [] mbuf.err -> "ErrRcode"
      [] size < room -> "ErrBuf"
      [] p.err -> "ErrRdata"
      [] rr.f.Algorithm \notin Algorithms -> "ErrAlg"
      [] Len(p.msg) + Len(signature) > 65535 -> "ErrBuf"
      [] OTHER -> "nil"

\* buf with the signature counted in the length of the SIG record at n, and the
\* record in the count of additional records.
Sig0Patched(buf, n, rdlen, adc) ==
    [buf EXCEPT ![n + 10] = rdlen \div 256, ![n + 11] = rdlen % 256,
                ![11] = adc \div 256, ![12] = adc % 256]

\* The message mbuf with the SIG record and the signature behind it.
Sig0Signed(stub, mbuf, p, err, signature) ==
    LET n == Len(mbuf.msg)
    IN  IF err # "nil" THEN [err |-> err, stub |-> stub]
        ELSE [err |-> "nil", stub |-> stub, changed |-> 0, sigAt |-> n,
              made |-> [pub |-> publicKey(stub.key).v, data |-> Suffix(p.msg, n + 12) \o mbuf.msg,
                        raw |-> Raw(stub.key.Algorithm)],
              buf |-> Sig0Patched(p.msg \o signature, n,
                                  Num(Octets(p.msg, n + 9, 2)) + Len(signature),
                                  Num(Octets(p.msg, 10, 2)) + 1)]

\* The SIG record rr behind the message mbuf, in a buffer of size octets.
Sig0Behind(stub, rr, mbuf, size, room) ==
    LET signature == sign(stub.key.Algorithm)
        signed(p) == Sig0Signed(stub, mbuf, p, Sig0Err(rr, mbuf, size, room, p, signature), signature)
    IN  signed(packRR(rr, [NewBuffer(size, FALSE) EXCEPT !.msg = mbuf.msg], FALSE))

\* SIG.Sign: the message and the SIG record without a signature are packed in
\* one buffer, which must be large enough for Pack to use it.
Sig0Sign(stub, dns) ==
    Sig0Behind(stub, SigRecord(stub), PackBuffer(dns), MsgLen(dns) + RRLen(SigRecord(stub)),
               msgLenWithCompressionMap(dns, FALSE) + 1)

\* Past n questions, and past n records, from off on; Bad at a name that is none.
RECURSIVE SkipQuestions(_, _, _)
SkipQuestions(n, buf, off) ==
    LET name == UnpackDomainName(buf, off)
    IN  CASE n <= 0 \/ off >= Len(buf) -> Good(<<>>, off)
          [] name.err -> Bad
          [] OTHER -> SkipQuestions(n - 1, buf, name.off + 4)

RECURSIVE SkipRRs(_, _, _)
SkipRRs(n, buf, off) ==
    LET name == UnpackDomainName(buf, off)
        at == name.off + 8
    IN  CASE n <= 0 \/ off >= Len(buf) -> Good(<<>>, off)
          [] name.err -> Bad
          [] at + 1 >= Len(buf) -> SkipRRs(n - 1, buf, at)
          [] OTHER -> SkipRRs(n - 1, buf, at + 2 + Num(Octets(buf, at, 2)))

\* Mutant: the count of additional records is not restored.
PatchedCountKept(adc) == BE(adc, 2)

\* The count without the SIG record: byte((adc-1)<<8), byte(adc-1).
PatchedCount(adc) == <<0, (adc - 1) % 256>>

\* SIG.Verify of buf, from which the SIG record was unpacked with its fields set,
\* at the time now.
Sig0Verify(buf, made, k, now) ==
    LET count(i) == Num(Octets(buf, 4 + 2 * i, 2))
        adc == count(3)
        q == SkipQuestions(count(0), buf, headerSize)
        body == SkipRRs(((count(1) + count(2) + adc) % 65536) - 1, buf, q.off)
        owner == UnpackDomainName(buf, body.off)
        sigstart == owner.off + 10
        expire == Num(Octets(buf, sigstart + 8, 4))
        incept == Num(Octets(buf, sigstart + 12, 4))
        signer == UnpackDomainName(buf, sigstart + 18)
        combined == Octets(buf, sigstart, signer.off - sigstart) \o Octets(buf, 0, 10)
                        \o PatchedCount(adc) \o Octets(buf, 12, body.off - 12)
    IN  CASE q.err \/ body.err \/ body.off >= Len(buf) \/ owner.err -> "overflow"
          [] sigstart + 16 >= Len(buf) -> "overflow"
          [] now < incept \/ now > expire -> "ErrTime"
          [] signer.err \/ CanonicalName(signer.v) # CanonicalName(k.name) -> "ErrSigner"
          [] k.Algorithm \notin (RSA \ {7}) \cup ECDSA \cup {ED25519} \/ publicKey(k).err -> "ErrKeyAlg"
          [] OTHER -> VerifyPKCS1v15(made, publicKey(k).v, combined,
                                     Unwrapped(k.Algorithm, Suffix(buf, signer.off + 1)))

-----------------------------------------------------------------------------
DnssecInit ==
    /\ Init
    /\ sig = <<>> /\ held = <<>> /\ renamed = FALSE /\ relays = 0 /\ s0 = <<>>

\* A signer signs a copy of the message.
Fresh == cp # <<>> /\ cp = <<m, m>> /\ sig = <<>> /\ s0 = <<>>

\* The first n records of the answer section, of one type and owner, are signed.
\* The form in which the message is packed does not matter to it.
SignSet(stub, n) ==
    LET set == SubSeq(cp[1].answer, 1, n)
    IN  /\ Fresh /\ ~m.Compress
        /\ \A i \in 1..n : /\ set[i].rrtype = set[1].rrtype
                           /\ CanonicalName(set[i].name) = CanonicalName(set[1].name)
        /\ sig' = <<Sign(stub, set)>>
        /\ held' = set
        /\ UNCHANGED <<vars, renamed, relays, s0>>

\* SIG.Sign packs the message, which stores the extended response code.
SignMsg(stub) ==
    /\ Fresh /\ MsgLen(m) <= MaxSigned
    /\ s0' = <<Sig0Sign(stub, cp[1])>>
    /\ cp' = [i \in 1..2 |-> WithExtendedRcode(cp[i])]
    /\ UNCHANGED <<m, sent, wire, got, before, sig, held, renamed, relays>>

\* One octet is changed on the way.
Change(i) ==
    /\ s0 # <<>> /\ s0[1].err = "nil" /\ s0[1].changed = 0
    /\ s0' = [s0 EXCEPT ![1].buf[i] = (@ + 1) % 256, ![1].changed = i]
    /\ UNCHANGED <<vars, sig, held, renamed, relays>>

\* What happens to the set and to the owner of its signature.
Relay(g, name) ==
    /\ sig # <<>> /\ sig[1].err = "nil" /\ relays < MaxRelays
    /\ held' = g
    /\ sig' = [sig EXCEPT ![1].rr.name = name]
    /\ relays' = relays + 1
    /\ UNCHANGED <<vars, s0>>

Named(g, name) == [i \in 1..Len(g) |-> [g[i] EXCEPT !.name = name]]
UpperName(s) ==
    [i \in 1..Len(s) |-> [k \in 1..Len(s[i]) |-> IF s[i][k] \in 97..122 THEN s[i][k] - 32 ELSE s[i][k]]]

\* The types whose names are without case in a signature (RFC 4034, section 6.2,
\* and RFC 6840, section 5.1), but for NXT.
CaseFree == {"NS", "MD", "MF", "CNAME", "SOA", "MB", "MG", "MR", "PTR", "MINFO", "MX", "RP",
             "AFSDB", "RT", "SIG", "PX", "NAPTR", "KX", "SRV", "DNAME"}

\* What a signature must not mind: the order, repetition, the TTL, the case.
Respell ==
    LET name == sig[1].rr.name
        owner == UpperName(name)
        names(r) == {x \in DOMAIN r.f : \E t \in Names : Contains(PackTable[r.kind], <<t, x>>)}
        upper(r) == [r EXCEPT !.f = [x \in DOMAIN @ |-> IF x \in names(r) THEN UpperName(@[x]) ELSE @[x]]]
        lower(r) == [r EXCEPT !.ttl = Zeros(4)]
        each(Op(_)) == [i \in 1..Len(held) |-> Op(held[i])]
    IN  /\ sig # <<>> /\ held # <<>>
        /\ \/ Relay(Reverse(held), name)
           \/ Len(held) < 3 /\ Relay(Append(held, held[1]), name)
           \/ Relay(each(lower), name)
           \/ Relay(Named(held, owner), owner)
           \/ held[1].kind \in CaseFree /\ Relay(each(upper), name)
        /\ UNCHANGED renamed

\* Another owner, which a wildcard stands for and another name does not.
Rename(labels) ==
    LET signed == sig[1].set[1].name
        name == labels \o Tail(signed)
    IN  /\ sig # <<>> /\ signed # Root
        /\ Relay(Named(held, name), name)
        /\ renamed' = (signed[1] # Star)

\* The last record in the place of another, which may differ in one field.
Replace(i) ==
    /\ sig # <<>> /\ i \in DOMAIN held /\ Last(m.answer).rrtype = held[i].rrtype
    /\ Relay([held EXCEPT ![i] = [Last(m.answer) EXCEPT !.name = held[i].name]], sig[1].rr.name)
    /\ UNCHANGED renamed

DnssecNext ==
    \/ Next /\ sig = <<>> /\ s0 = <<>> /\ UNCHANGED sigVars
    \/ \E stub \in Stubs : \E n \in 1..Len(m.answer) : SignSet(stub, n)
    \/ \E stub \in MsgStubs : SignMsg(stub)
    \/ \E i \in 1..(IF s0 = <<>> \/ s0[1].err # "nil" THEN 0 ELSE Len(s0[1].buf)) : Change(i)
    \/ Respell
    \/ Rename(<<<<99>>>>)
    \/ Rename(<<<<100>>, <<99>>>>)
    \/ \E i \in DOMAIN held : Replace(i)

DnssecSpec == DnssecInit /\ [][DnssecNext]_<<vars, sigVars>>

-----------------------------------------------------------------------------
\* Properties.

\* What a set says: its rdata without order, repetition and case.
Content(g) == {Folded([g[i] EXCEPT !.name = Root]) : i \in 1..Len(g)}

\* RRSIG.Verify accepts a set exactly when it says what RRSIG.Sign signed, under
\* a name that the signature is for and that the signer's zone encloses, with the
\* signer's key: whatever the order, the repetitions, the TTLs and the case, and
\* through wildcards.  The records must spell their owner alike.  An owner whose
\* first label only begins with "*" is left out: Sign takes it for a wildcard.
SignatureFollowsContent ==
    (sig # <<>> /\ sig[1].err = "nil") =>
        LET rr == sig[1].rr
            signed == sig[1].set[1].name
            known == /\ Content(held) = Content(sig[1].set) /\ ~renamed /\ IsRRset(held)
                     /\ IsSuffix(CanonicalName(rr.SignerName), CanonicalName(held[1].name))
        IN  (signed[1] = Star \/ Head(signed[1] \o <<0>>) # 42) =>
                \A k \in Keys : (Verify(rr, sig[1].made, k, held) = "nil")
                                    = (known /\ k = sig[1].stub.key)

\* a <= b as serial numbers.
SerialLeq(a, b) == (b - a) % (2 * year68) < year68

\* ValidityPeriod "uses RFC1982 serial arithmetic to calculate if a signature period
\* is valid" (the comment of the function): at every time it tells whether the time
\* lies in the period, for each period that is one as serial numbers.
ValidityIsSerial ==
    sig # <<>> =>
        LET rr == sig[1].rr
        IN  SerialLeq(rr.Inception, rr.Expiration) =>
                \A utc \in 0..(2 * year68 - 1) :
                    ValidityPeriod(rr, utc) = (/\ SerialLeq(rr.Inception, utc)
                                               /\ SerialLeq(utc, rr.Expiration))

\* SIG.Verify accepts a message exactly when it is octet for octet what SIG.Sign
\* returned, but for the SIG record's own type, class, TTL and length, within the
\* time of the signature and with the signer's key; SIG.Sign refuses a message
\* that Pack packs only when it is compressed.  Verify knows no Falcon key.
SignedMessageIsWhole ==
    s0 # <<>> =>
        LET s == s0[1]
            times == {s.stub.Inception, s.stub.Expiration, s.stub.Inception - 1, s.stub.Expiration + 1}
            intact == s.changed = 0 \/ s.changed \in (s.sigAt + 2)..(s.sigAt + 11)
        IN  IF s.err # "nil" THEN PackBuffer(m).err \/ m.Compress \/ s.err \in {"ErrAlg", "ErrKey"}
            ELSE \A k \in Keys, now \in times :
                    (Sig0Verify(s.buf, s.made, k, now) = "nil")
                        = (/\ intact /\ k = s.stub.key /\ k.Algorithm \notin FALCON
                           /\ s.stub.Inception <= now /\ now <= s.stub.Expiration)

=============================================================================
