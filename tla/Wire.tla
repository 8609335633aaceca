-------------------------------- MODULE Wire --------------------------------
(***************************************************************************)
(* The wire format helpers of msg.go and msg_helpers.go: octets, domain    *)
(* names with compression, the text encodings and the list-valued rdata    *)
(* fields.                                                                 *)
(*                                                                         *)
(* An octet is a number below 256 and a message a sequence of octets; the  *)
(* offsets are the code's, counted from 0.  A domain name is the sequence  *)
(* of its labels, the empty root label last: <<>> is the empty string and  *)
(* << <<>> >> the root ".".  A label holds octets; of the escapes of its   *)
(* presentation form only the length matters to the code modelled here.    *)
(* Character strings keep their escapes.                                   *)
(***************************************************************************)
EXTENDS Integers, Sequences, FiniteSets, SequencesExt

CONSTANTS
    maxCompressionOffset,     \* 2^14 in the code: the offsets a pointer can hold
    maxDomainNameWireOctets   \* 255 in the code

ASSUME WireBounds == /\ maxCompressionOffset \in 1..16384
                     /\ maxDomainNameWireOctets \in 5..255

maxCompressionPointers == (maxDomainNameWireOctets + 1) \div 2 - 2

-----------------------------------------------------------------------------
\* Octets.

\* The number that the digits d spell; to the base 1, their sum.
Value(base, d) ==
    LET n[i \in 0..Len(d)] == IF i = 0 THEN 0 ELSE base * n[i - 1] + d[i] IN n[Len(d)]
Total(d) == Value(1, d)

\* n octets, big endian, of the number v; v stays below 2^31.
Weight == <<1, 256, 65536, 16777216>>
BE(v, n) == [i \in 1..n |-> IF n - i > 3 THEN 0 ELSE (v \div Weight[n - i + 1]) % 256]

Num(o) == Value(256, o)

Octets(msg, off, n) == SubSeq(msg, off + 1, off + n)

Bit(v, i) == (v \div 2 ^ i) % 2

\* The digits of w bits that spell the octets, the last one filled with zeros.
Digits(o, w) ==
    LET last(i) == (w * i - 1) \div 8 + 1
        from(i) == SubSeq(o \o <<0>>, (w * (i - 1)) \div 8 + 1, last(i))
    IN  [i \in 1..((8 * Len(o) + w - 1) \div w) |-> (Num(from(i)) \div 2 ^ (8 * last(i) - w * i)) % 2 ^ w]

\* The whole octets that digits of w bits spell.
Undigits(d, w) ==
    LET last(i) == (8 * i - 1) \div w + 1
        from(i) == SubSeq(d, (8 * (i - 1)) \div w + 1, last(i))
    IN  [i \in 1..((w * Len(d)) \div 8) |-> (Value(2 ^ w, from(i)) \div 2 ^ (w * last(i) - 8 * i)) % 256]

\* The numbers of a set in ascending order.
Ascending(S) ==
    [k \in 1..Cardinality(S) |-> CHOOSE x \in S : Cardinality({y \in S : y < x}) = k - 1]

\* Outcome of an encoder or decoder: what it gives and the offset behind it.
Bad == [err |-> TRUE, v |-> <<>>, off |-> 0]
Good(v, off) == [err |-> FALSE, v |-> v, off |-> off]

\* The encodings es one behind the other; none when one of them failed.
Joined(es) ==
    IF \E i \in 1..Len(es) : es[i].err THEN Bad
    ELSE Good(FlattenSeq([i \in 1..Len(es) |-> es[i].v]), 0)

\* An encoding behind its code and its length.
Tagged(code, e) == [e EXCEPT !.v = BE(code, 2) \o BE(Len(@), 2) \o @]

-----------------------------------------------------------------------------
\* Text encodings.  A hex, base32 or base64 text is the sequence of its digits'
\* values; Equals is the padding character of base64.
Equals == 64

fromHex(s) == IF Len(s) % 2 = 1 THEN Bad ELSE Good(Undigits(s, 4), 0)
toHex(o) == Digits(o, 4)

fromBase32(s) == IF Len(s) % 8 \in {1, 3, 6} THEN Bad ELSE Good(Undigits(s, 5), 0)
toBase32(o) == Digits(o, 5)

\* The padding are up to two characters at the end.
fromBase64(s) ==
    LET n == Len(s)
        padding == {k \in 0..2 : {i \in 1..n : s[i] = Equals} = (n - k + 1)..n}
    IN  IF n % 4 # 0 \/ padding = {} THEN Bad
        ELSE Good(Undigits(SubSeq(s, 1, n - Min(padding)), 6), 0)

toBase64(o) ==
    LET d == Digits(o, 6)
    IN  d \o [i \in 1..((4 - (Len(d) % 4)) % 4) |-> Equals]

\* base64.StdEncoding.DecodedLen, the length that rr.len() assumes.
DecodedLen(n) == (n \div 4) * 3

Backslash == 92
Quote == 34
isDigit(c) == c \in 48..57

isDDD(s, i) == i + 2 <= Len(s) /\ \A k \in i..i+2 : isDigit(s[k])
dddToByte(s, i) == ((s[i] - 48) * 100 + (s[i + 1] - 48) * 10 + s[i + 2] - 48) % 256
escapeByte(b) == <<Backslash, 48 + b \div 100, 48 + ((b \div 10) % 10), 48 + (b % 10)>>

\* The octets of a character string: \DDD and \X are one octet, a backslash at
\* the end is dropped.  u.i is the index of the next character.
UnescapeTurn(s, u) ==
    LET put(c, n) == [i |-> u.i + n, o |-> Append(u.o, c)]
    IN  IF u.i > Len(s) THEN u
        ELSE IF s[u.i] # Backslash THEN put(s[u.i], 1)
        ELSE CASE u.i = Len(s) -> [u EXCEPT !.i = @ + 1]
               [] isDDD(s, u.i + 1) -> put(dddToByte(s, u.i + 1), 4)
               [] OTHER -> put(s[u.i + 1], 2)

Unescape(s) ==
    LET at[k \in 0..Len(s)] == IF k = 0 THEN [i |-> 1, o |-> <<>>] ELSE UnescapeTurn(s, at[k - 1])
    IN  at[Len(s)].o

packTxtString(s) ==
    LET o == Unescape(s)
    IN  IF Len(s) > 256 * 4 + 1 \/ Len(o) > 255 THEN Bad ELSE Good(<<Len(o)>> \o o, 0)

packOctetString(s) == IF Len(s) > 256 * 4 + 1 THEN Bad ELSE Good(Unescape(s), 0)

EscapeText(o) ==
    FlattenSeq([i \in 1..Len(o) |->
        CASE o[i] \in {Quote, Backslash} -> <<Backslash, o[i]>>
          [] o[i] \notin 32..126 -> escapeByte(o[i])
          [] OTHER -> <<o[i]>>])

unpackString(msg, off) ==
    IF off + 1 > Len(msg) \/ off + 1 + msg[off + 1] > Len(msg) THEN Bad
    ELSE Good(EscapeText(Octets(msg, off + 1, msg[off + 1])), off + 1 + msg[off + 1])

-----------------------------------------------------------------------------
\* Domain names.
Root == <<<<>>>>
IsFqdn(s) == s # <<>> /\ Last(s) = <<>>

WireLen(labels) == Total([i \in 1..Len(labels) |-> 1 + Len(labels[i])])

\* isDomainNameLabelSpecial: the characters escaped with one backslash.
Special == {46, 32, 39, 64, 59, 40, 41, Quote, Backslash}

PresentationLen(labels) ==
    LET Width(c) == CASE c \in Special -> 2 [] c \notin 32..126 -> 4 [] OTHER -> 1
    IN  Total([i \in 1..Len(labels) |-> 1 + Total([k \in 1..Len(labels[i]) |-> Width(labels[i][k])])])

\* len(s) of an absolute or empty name, in characters.
StringLen(s) == IF s \in {<<>>, Root} THEN Len(s) ELSE PresentationLen(s) - 1

Suffix(s, i) == SubSeq(s, i, Len(s))

\* The absolute names that UnpackDomainName can return: labels of 1 to 63 octets
\* and the root label, together within the limit of the wire format.
Byte == 0..255
MaxUint16 == 65535
Uint16 == 0..MaxUint16
IsName(s) ==
    /\ s \in Seq(Seq(Byte)) /\ IsFqdn(s)
    /\ \A i \in 1..(Len(s) - 1) : Len(s[i]) \in 1..63
    /\ WireLen(s) <= maxDomainNameWireOctets

\* A field of a name may be the empty string, which packs to nothing.
IsNameField(s) == s = <<>> \/ IsName(s)

\* A buffer of cap octets being packed into: msg is msg[:off], comp the
\* compression map, in use when valid.
NewBuffer(cap, valid) ==
    [msg |-> <<>>, cap |-> cap, valid |-> valid, comp |-> <<>>, err |-> FALSE]

Failed(p) == [p EXCEPT !.err = TRUE]

Put(p, o) ==
    IF p.err \/ Len(p.msg) + Len(o) > p.cap THEN Failed(p) ELSE [p EXCEPT !.msg = @ \o o]

\* pointer^0xC000: an offset of more than 14 bits would clear the marker bits.
PointerTo(pos) ==
    IF pos < maxCompressionOffset THEN BE(49152 + pos, 2) ELSE <<128, pos % 256>>

\* Mutant: one offset too many.
InsertableUpTo(off) == off <= maxCompressionOffset

\* The offsets that packDomainName enters in the compression map.
Insertable(off) == off < maxCompressionOffset

\* Packs the labels of s up to the first suffix that the map knows, when
\* compress allows a pointer, and records the suffixes that it passes.
packDomainName(s, p, compress) ==
    LET n == Len(s) - 1
        Off(i) == Len(p.msg) + WireLen(SubSeq(s, 1, i - 1))
        Known(i) == p.valid /\ Suffix(s, i) \in DOMAIN p.comp
        hits == {i \in 1..n : compress /\ Known(i)}
        hit == IF hits = {} THEN n + 1 ELSE Min(hits)
        seen == 1..Min({hit, n})
        fresh == {i \in seen : p.valid /\ ~Known(i) /\ Insertable(Off(i))}
        comp == [x \in DOMAIN p.comp \cup {Suffix(s, i) : i \in fresh} |->
                    IF x \in DOMAIN p.comp THEN p.comp[x] ELSE Off(Len(s) - Len(x) + 1)]
        labels == FlattenSeq([i \in 1..(hit - 1) |-> <<Len(s[i])>> \o s[i]])
    IN  IF s = <<>> \/ p.err THEN p
        ELSE IF \/ ~IsFqdn(s)
                \/ \E i \in seen : Len(s[i]) \notin 1..63 \/ Off(i) + 1 + Len(s[i]) > p.cap
             THEN Failed(p)
        ELSE Put([p EXCEPT !.comp = comp],
                 labels \o IF hit <= n THEN PointerTo(p.comp[Suffix(s, hit)]) ELSE <<0>>)

\* One turn of UnpackDomainName's loop, at the octet u.off: u.v are the labels so
\* far, u.budget the octets and u.ptr the pointers that are spent, u.off1 the
\* offset behind the name, or behind its first pointer, and u.done tells that
\* the loop has been left.
NameTurn(msg, u) ==
    LET c == msg[u.off + 1]
        behind(n) == IF u.ptr = 0 THEN u.off + n ELSE u.off1
        failed == [u EXCEPT !.done = TRUE, !.err = TRUE]
    IN  CASE u.done -> u
          [] ~u.done /\ u.off >= Len(msg) -> failed
          [] OTHER ->
               CASE c = 0 -> [u EXCEPT !.v = Append(@, <<>>), !.off1 = behind(1), !.done = TRUE]
                 [] c \in 1..63 ->
                      IF u.off + 1 + c > Len(msg) \/ u.budget - (c + 1) <= 0 THEN failed
                      ELSE [u EXCEPT !.v = Append(@, Octets(msg, u.off + 1, c)),
                                     !.off = @ + 1 + c, !.budget = @ - (c + 1)]
                 [] c >= 192 ->
                      IF u.off + 1 >= Len(msg) \/ u.ptr + 1 > maxCompressionPointers THEN failed
                      ELSE [u EXCEPT !.off = (c - 192) * 256 + msg[u.off + 2],
                                     !.off1 = behind(2), !.ptr = @ + 1]
                 [] OTHER -> failed

\* Every turn but the last takes two octets or more off the budget or follows a
\* pointer, so that the loop is left within maxDomainNameWireOctets turns.
UnpackDomainName(msg, off) ==
    LET start == [off |-> off, off1 |-> 0, v |-> <<>>, budget |-> maxDomainNameWireOctets, ptr |-> 0,
                  done |-> FALSE, err |-> FALSE]
        at[k \in 0..maxDomainNameWireOctets] == IF k = 0 THEN start ELSE NameTurn(msg, at[k - 1])
        name(u) == IF u.err THEN Bad ELSE Good(u.v, u.off1)
    IN  name(at[maxDomainNameWireOctets])

\* Mutant: the offset limit is forgotten.
compressionLenSearchUnlimited(c, s, msgOff) ==
    LET hits == {i \in 1..(Len(s) - 1) : Suffix(s, i) \in c}
        stop == IF hits = {} THEN Len(s) ELSE Min(hits)
    IN  [hit |-> stop, c |-> c \cup {Suffix(s, i) : i \in 1..(stop - 1)}]

\* The length estimates: c is the set of suffixes seen, in use when valid.
\* off is the offset in the presentation form, as the code has it.
compressionLenSearch(c, s, msgOff) ==
    LET n == Len(s) - 1
        Off(i) == PresentationLen(SubSeq(s, 1, i - 1))
        hits == {i \in 1..n : Suffix(s, i) \in c}
        stop == IF hits = {} THEN n + 1 ELSE Min(hits)
    IN  [hit |-> stop,
         c |-> c \cup {Suffix(s, i) : i \in {j \in 1..(stop - 1) :
                                               msgOff + Off(j) < maxCompressionOffset}}]

domainNameLen(s, off, c, compress) ==
    LET r == compressionLenSearch(c.seen, s, off)
        searched == c.valid /\ (compress \/ off < maxCompressionOffset)
    IN  IF s \in {<<>>, Root} THEN [len |-> 1, c |-> c]
        ELSE [len |-> IF searched /\ compress /\ r.hit < Len(s)
                      THEN WireLen(SubSeq(s, 1, r.hit - 1)) + 2
                      ELSE WireLen(s),
              c |-> IF searched THEN [c EXCEPT !.seen = r.c] ELSE c]

-----------------------------------------------------------------------------
\* Type bitmaps of NSEC, NSEC3 and CSYNC.
Window(t) == t \div 256
Octet(t) == (t % 256) \div 8

\* The block of the window w, of n octets, in which the types have their bits.
WindowBlock(types, w, n) ==
    <<w, n>> \o [j \in 1..n |->
        Value(2, [k \in 1..8 |-> IF 256 * w + 8 * (j - 1) + k - 1 \in types THEN 1 ELSE 0])]

\* The loop that typeBitMapLen and packDataNsec share, at one more type t: a.o
\* are the blocks of the windows left behind and a.l their length; bad marks a
\* type that packDataNsec finds out of order and typeBitMapLen skips.
BitMapTurn(types, a, t) ==
    LET length == Octet(t) + 1
        b == IF Window(t) > a.w /\ a.len # 0
             THEN [a EXCEPT !.l = @ + a.len + 2, !.o = @ \o WindowBlock(types, a.w, a.len), !.len = 0]
             ELSE a
    IN  IF Window(t) < b.w \/ length < b.len
        THEN [b EXCEPT !.bad = TRUE] ELSE [b EXCEPT !.w = Window(t), !.len = length]

BitMapWalk(bitmap) ==
    LET at[i \in 0..Len(bitmap)] ==
            IF i = 0 THEN [l |-> 0, o |-> <<>>, w |-> 0, len |-> 0, bad |-> FALSE]
            ELSE BitMapTurn(ToSet(bitmap), at[i - 1], bitmap[i])
    IN  at[Len(bitmap)]

typeBitMapLen(bitmap) == LET a == BitMapWalk(bitmap) IN a.l + a.len + 2

packDataNsec(bitmap) ==
    LET packed(a) == IF a.bad THEN Bad ELSE Good(a.o \o WindowBlock(ToSet(bitmap), a.w, a.len), 0)
    IN  IF bitmap = <<>> THEN Good(<<>>, 0) ELSE packed(BitMapWalk(bitmap))

unpackDataNsec(msg, start) ==
    LET from[off \in 0..Len(msg), lastwindow \in -1..255] ==
            LET w == msg[off + 1]
                l == msg[off + 2]
                bits == {k \in 0..(8 * l - 1) : Bit(msg[off + 3 + k \div 8], 7 - (k % 8)) = 1}
                rest == from[off + 2 + l, w]
            IN  IF off >= Len(msg) THEN Good(<<>>, off)
                ELSE IF \/ off + 2 > Len(msg) \/ w <= lastwindow \/ l \notin 1..32
                        \/ off + 2 + l > Len(msg)
                     THEN Bad
                ELSE [rest EXCEPT !.v = Ascending({256 * w + k : k \in bits}) \o @]
    IN  from[start, -1]

-----------------------------------------------------------------------------
\* Addresses and address prefixes.
IPv4len == 4
IPv6len == 16
V4InV6 == [i \in 1..12 |-> IF i <= 10 THEN 0 ELSE 255]
Zeros(n) == [i \in 1..n |-> 0]

To4(ip) == CASE Len(ip) = IPv4len -> ip
             [] Len(ip) = IPv6len /\ SubSeq(ip, 1, 12) = V4InV6 -> SubSeq(ip, 13, 16)
             [] OTHER -> <<>>

\* ip.Mask(net.CIDRMask(prefix, 8 * len(ip))).
Masked(ip, prefix) ==
    [i \in 1..Len(ip) |->
        LET keep == Max({0, Min({8, prefix - 8 * (i - 1)})})
        IN  (ip[i] \div 2 ^ (8 - keep)) * 2 ^ (8 - keep)]

CeilOctets(bits) == (bits + 7) \div 8

\* An address of 16 octets that holds no IPv4 address still takes 4 octets of
\* the (zeroed) buffer.
packDataA(a) ==
    CASE Len(a) = 0 -> Good(<<>>, 0)
      [] Len(a) \in {IPv4len, IPv6len} -> Good(IF To4(a) = <<>> THEN Zeros(IPv4len) ELSE To4(a), 0)
      [] OTHER -> Bad
packDataAAAA(a) == IF Len(a) \in {0, IPv6len} THEN Good(a, 0) ELSE Bad

unpackData(msg, off, n) ==
    IF off + n > Len(msg) THEN Bad ELSE Good(Octets(msg, off, n), off + n)

TrimZeros(a) == SubSeq(a, 1, Max({0} \cup {i \in 1..Len(a) : a[i] # 0}))

\* An APL prefix: Negation, the address and the length of its mask.
packDataAplPrefix(p) ==
    LET addr == TrimZeros(SubSeq(Masked(p.ip, p.prefix), 1, CeilOctets(p.prefix)))
    IN  IF Len(p.ip) \notin {IPv4len, IPv6len} THEN Bad
        ELSE Good(BE(IF Len(p.ip) = IPv4len THEN 1 ELSE 2, 2)
                  \o <<p.prefix, (IF p.neg THEN 128 ELSE 0) + Len(addr)>> \o addr, 0)

unpackDataApl(msg, start) ==
    LET from[off \in 0..Len(msg)] ==
            LET family == Num(Octets(msg, off, 2))
                size == IF family = 1 THEN IPv4len ELSE IPv6len
                prefix == msg[off + 3]
                afdlen == msg[off + 4] % 128
                addr == Octets(msg, off + 4, afdlen)
                rest == from[off + 4 + afdlen]
            IN  IF off >= Len(msg) THEN Good(<<>>, off)
                ELSE IF \/ off + 4 > Len(msg) \/ family \notin {1, 2} \/ prefix > 8 * size
                        \/ afdlen > size \/ off + 4 + afdlen > Len(msg)
                        \/ (afdlen > 0 /\ Last(addr) = 0)
                     THEN Bad
                ELSE [rest EXCEPT !.v = <<[neg |-> msg[off + 4] >= 128, prefix |-> prefix,
                                           ip |-> addr \o Zeros(size - afdlen)]>> \o @]
    IN  from[start]

\* APLPrefix.len: the header and the address up to the mask.
AplPrefixLen(p) == 4 + CeilOctets(p.prefix)

=============================================================================
