--------------------------------- MODULE Msg ---------------------------------
(***************************************************************************)
(* The message: Pack, Unpack, Len, Truncate and CopyTo of msg.go and       *)
(* msg_truncate.go, on the records of RRCodec.                             *)
(*                                                                         *)
(* A caller holds the message m.  It may truncate it to a size, pack it,   *)
(* copy it, and write into the slices of its own records.  A receiver gets *)
(* the packed octets, whole or cut short, and unpacks them into a message  *)
(* that it has used before.                                                *)
(***************************************************************************)
EXTENDS RRCodec

CONSTANTS
    MinMsgSize,   \* 512 in the code
    Corpus,       \* names for the messages a caller may have built
    Message(_),   \* the message of a name
    Reused,       \* the message the receiver unpacks into
    Sizes         \* the sizes it may be truncated to

VARIABLES
    m,       \* the caller's message
    sent,    \* the message as it was packed
    wire,    \* what Pack returned: <<>> before, <<buffer>> afterwards
    got,     \* what Unpack made of it: <<>> before, <<[err, msg, cut]>>, cut octets short
    cp,      \* <<>>, or <<the copy, the message when it was copied>>
    before   \* <<>>, or <<the message before Truncate, the size asked for>>

vars == <<m, sent, wire, got, cp, before>>

headerSize == 12
Sections == {"answer", "ns", "extra"}

-----------------------------------------------------------------------------
\* The header.  flags is the set of the header bits that are set.
FlagBit == [Response |-> 15, Authoritative |-> 10, Truncated |-> 9, RecursionDesired |-> 8,
            RecursionAvailable |-> 7, Zero |-> 6, AuthenticatedData |-> 5, CheckingDisabled |-> 4]

HeaderBits(dns) ==
    dns.Opcode * 2048 + Value(2, [i \in 1..16 |-> IF \E x \in dns.flags : FlagBit[x] = 16 - i THEN 1 ELSE 0]) + (dns.Rcode % 16)

packMsgHdr(dns, p) ==
    Put(p, BE(dns.Id, 2) \o BE(HeaderBits(dns), 2) \o BE(Len(dns.question), 2)
           \o BE(Len(dns.answer), 2) \o BE(Len(dns.ns), 2) \o BE(Len(dns.extra), 2))

setHdr(dns, msg) ==
    LET bits == Num(Octets(msg, 2, 2))
    IN  [dns EXCEPT !.Id = Num(Octets(msg, 0, 2)),
                    !.Opcode = (bits \div 2048) % 16,
                    !.flags = {x \in DOMAIN FlagBit : Bit(bits, FlagBit[x]) = 1},
                    !.Rcode = bits % 16]

-----------------------------------------------------------------------------
\* EDNS0 and TSIG in the additional section.
IsOPT(rr) == rr.rrtype = TypeCode.OPT

\* The index of the OPT record that IsEdns0 and popEdns0 find, 0 for none:
\* both search from the end.
IsEdns0(dns) == Max({0} \cup {i \in 1..Len(dns.extra) : IsOPT(dns.extra[i])})

\* That record, and the additional section without it, as popEdns0 leaves it.
OPTOf(dns) == IF IsEdns0(dns) = 0 THEN <<>> ELSE <<dns.extra[IsEdns0(dns)]>>
popEdns0(dns) == IF IsEdns0(dns) = 0 THEN dns.extra ELSE RemoveAt(dns.extra, IsEdns0(dns))

IsTsig(dns) == dns.extra # <<>> /\ Last(dns.extra).rrtype = TypeCode.TSIG

\* The high 8 bits of the response code are the first octet of the OPT's TTL.
SetExtendedRcode(opt, v) == [opt EXCEPT !.ttl[1] = (v \div 16) % 256]

\* Mutant: the high bits are not shifted.
ExtendedRcodeUnshifted(opt) == opt.ttl[1]

ExtendedRcode(opt) == opt.ttl[1] * 16

-----------------------------------------------------------------------------
\* Len.
isCompressible(dns) ==
    Len(dns.question) > 1 \/ dns.answer # <<>> \/ dns.ns # <<>> \/ dns.extra # <<>>

questionLen(q, off, c) ==
    LET r == domainNameLen(q.name, off, c, TRUE) IN [len |-> r.len + 4, c |-> r.c]

\* The running length l and the suffixes c behind one more element, of length r.
AddLen(a, r) == [l |-> a.l + r.len, c |-> r.c]

QuestionsLen(dns, valid) ==
    LET at[i \in 0..Len(dns.question)] ==
            IF i = 0 THEN [l |-> headerSize, c |-> [valid |-> valid, seen |-> {}]]
            ELSE AddLen(at[i - 1], questionLen(dns.question[i], at[i - 1].l, at[i - 1].c))
    IN  at[Len(dns.question)]

RecordsLen(rrs, a) ==
    LET at[i \in 0..Len(rrs)] ==
            IF i = 0 THEN a ELSE AddLen(at[i - 1], rrLen(rrs[i], at[i - 1].l, at[i - 1].c))
    IN  at[Len(rrs)]

msgLenWithCompressionMap(dns, valid) ==
    RecordsLen(dns.answer \o dns.ns \o dns.extra, QuestionsLen(dns, valid)).l

MsgLen(dns) == msgLenWithCompressionMap(dns, dns.Compress /\ isCompressible(dns))

-----------------------------------------------------------------------------
\* Pack.
packQuestion(q, p, compress) ==
    Put(packDomainName(q.name, p, compress), BE(q.qtype, 2) \o BE(q.qclass, 2))

packQuestions(qs, p, compress) ==
    LET at[i \in 0..Len(qs)] == IF i = 0 THEN p ELSE packQuestion(qs[i], at[i - 1], compress)
    IN  at[Len(qs)]

\* One more record, unless one before it has failed.
packNext(rr, p, compress) == IF p.err THEN p ELSE packRR(rr, p, compress)

packRRs(rrs, p, compress) ==
    LET at[i \in 0..Len(rrs)] == IF i = 0 THEN p ELSE packNext(rrs[i], at[i - 1], compress)
    IN  at[Len(rrs)]

\* The caller's message once Pack has stored the extended response code in it.
WithExtendedRcode(dns) ==
    IF dns.Rcode \notin 0..4095 \/ IsEdns0(dns) = 0 THEN dns
    ELSE [dns EXCEPT !.extra[IsEdns0(dns)] = SetExtendedRcode(@, dns.Rcode)]

\* The buffer that packBufferWithCompressionMap allocates has one octet more
\* than the uncompressed length.
packBufferWithCompressionMap(dns, p, compress) ==
    IF dns.Rcode \notin 0..4095 \/ (dns.Rcode > 15 /\ IsEdns0(dns) = 0) THEN Failed(p)
    ELSE packRRs(dns.answer \o dns.ns \o WithExtendedRcode(dns).extra,
                 packQuestions(dns.question, packMsgHdr(dns, p), compress), compress)

PackBuffer(dns) ==
    LET compress == dns.Compress /\ isCompressible(dns)
    IN  packBufferWithCompressionMap(dns, NewBuffer(msgLenWithCompressionMap(dns, FALSE) + 1, compress), compress)

-----------------------------------------------------------------------------
\* Unpack.

\* A question may end with the message behind its name or its type.
unpackQuestion(msg, off) ==
    LET name == UnpackDomainName(msg, off)
        rest == Len(msg) - name.off
        q(t, c) == [name |-> name.v, qtype |-> t, qclass |-> c]
        u16(k) == Num(Octets(msg, name.off + k, 2))
    IN  CASE name.err \/ rest \in {1, 3} -> Bad
          [] rest = 0 -> Good(q(0, 0), name.off)
          [] rest = 2 -> Good(q(u16(0), 0), name.off + 2)
          [] OTHER -> Good(q(u16(0), u16(2)), name.off + 4)

\* n questions, with those before the first error.
unpackQuestions(n, msg, start) ==
    LET from[left \in 0..n, off \in 0..Len(msg)] ==
            LET q == unpackQuestion(msg, off)
                rest == from[left - 1, q.off]
            IN  CASE left = 0 -> Good(<<>>, off)
                  [] left > 0 /\ q.err -> Bad
                  [] OTHER -> [rest EXCEPT !.v = <<q.v>> \o @]
    IN  from[n, start]

\* l records, or fewer when the offset stops growing; none at an error.
unpackRRslice(l, msg, start) ==
    LET behind(rr, rest) == IF rest.err THEN Bad ELSE [rest EXCEPT !.v = <<rr>> \o @]
        from[left \in 0..l, off \in 0..Len(msg)] ==
            LET first(r) == CASE r.err -> Bad
                              [] ~r.err /\ r.off = off -> Good(<<>>, off)
                              [] OTHER -> behind(r.v, from[left - 1, r.off])
            IN  IF left = 0 THEN Good(<<>>, off) ELSE first(UnpackRR(msg, off))
    IN  from[l, start]

\* Mutant: a message of a header only leaves the sections as they were.
HeaderOnlyKeeps(hdr) == hdr

\* A message of a header only: the sections are reset.
HeaderOnly(hdr) ==
    [hdr EXCEPT !.question = <<>>, !.answer = <<>>, !.ns = <<>>, !.extra = <<>>]

\* The records r of the section sec, unless one before it has failed.
storeSection(u, sec, r) ==
    IF u.err THEN u ELSE [err |-> r.err, off |-> r.off, msg |-> [u.msg EXCEPT ![sec] = r.v]]

\* The sections behind the questions q, up to the first that fails.
unpackSections(msg, hdr, q) ==
    LET count(k) == Num(Octets(msg, 4 + 2 * k, 2))
        at[k \in 0..3] ==
            IF k = 0 THEN [err |-> FALSE, off |-> q.off, msg |-> [hdr EXCEPT !.question = q.v]]
            ELSE storeSection(at[k - 1], <<"answer", "ns", "extra">>[k],
                              unpackRRslice(count(k), msg, at[k - 1].off))
    IN  at[3]

\* The extended bits of the response code, when the message has an OPT record:
\* they are added when a section has failed, too.
AddExtendedRcode(u) ==
    [err |-> u.err,
     msg |-> IF IsEdns0(u.msg) = 0 THEN u.msg
             ELSE [u.msg EXCEPT !.Rcode = @ + ExtendedRcode(u.msg.extra[IsEdns0(u.msg)])]]

unpackBody(msg, hdr, q) ==
    IF q.err THEN [err |-> TRUE, msg |-> [hdr EXCEPT !.question = q.v]]
    ELSE AddExtendedRcode(unpackSections(msg, hdr, q))

\* Unpack into the message dns, of which an error leaves the later sections
\* as they were.
Unpack(msg, dns) ==
    CASE Len(msg) < headerSize -> [err |-> TRUE, msg |-> dns]
      [] Len(msg) = headerSize -> [err |-> FALSE, msg |-> HeaderOnly(setHdr(dns, msg))]
      [] OTHER -> unpackBody(msg, setHdr(dns, msg),
                             unpackQuestions(Num(Octets(msg, 4, 2)), msg, headerSize))

-----------------------------------------------------------------------------
\* Truncate.

\* Mutant: a section that is cut leaves room for the records of the next.
truncateLoopGoesOn(rrs, size, l, c) ==
    LET add(a, r) == IF a.l + r.len > size THEN [a EXCEPT !.stop = TRUE]
                     ELSE [l |-> a.l + r.len, c |-> r.c, n |-> a.n + 1, stop |-> FALSE]
        at[i \in 0..Len(rrs)] ==
            CASE i = 0 -> [l |-> l, c |-> c, n |-> 0, stop |-> FALSE]
              [] i > 0 /\ at[i - 1].stop -> at[i - 1]
              [] OTHER -> add(at[i - 1], rrLen(rrs[i], at[i - 1].l, at[i - 1].c))
    IN  at[Len(rrs)]

\* One more record, of length r, if it fits; at the first that does not, l jumps
\* to size so that no later section adds any.
truncateTurn(a, r, size) ==
    IF a.l + r.len > size THEN [a EXCEPT !.l = size, !.c = r.c, !.stop = TRUE]
    ELSE [l |-> a.l + r.len, c |-> r.c, n |-> a.n + 1, stop |-> a.l + r.len = size]

truncateNext(rr, a, size) == IF a.stop THEN a ELSE truncateTurn(a, rrLen(rr, a.l, a.c), size)

\* How many records fit: [l, c, n].
truncateLoop(rrs, size, l, c) ==
    LET at[i \in 0..Len(rrs)] ==
            IF i = 0 THEN [l |-> l, c |-> c, n |-> 0, stop |-> FALSE] ELSE truncateNext(rrs[i], at[i - 1], size)
    IN  at[Len(rrs)]

\* The next section, unless there is no room for it.
Fill(a, rrs, room) ==
    IF a.l < room THEN truncateLoop(rrs, room, a.l, a.c) ELSE [l |-> a.l, c |-> a.c, n |-> 0]

\* The message cut to the records a1, a2, a3 of its sections, with the OPT
\* record put back at the end.
KeepRecords(dns, a1, a2, a3) ==
    LET dropped == Len(dns.answer) > a1.n \/ Len(dns.ns) > a2.n \/ Len(popEdns0(dns)) > a3.n
    IN  [dns EXCEPT !.Compress = TRUE,
                    !.flags = IF dropped THEN @ \cup {"Truncated"} ELSE @,
                    !.answer = SubSeq(@, 1, a1.n),
                    !.ns = SubSeq(@, 1, a2.n),
                    !.extra = SubSeq(popEdns0(dns), 1, a3.n) \o OPTOf(dns)]

\* The records that fit room octets behind the questions, of length q, section
\* after section.
FillExtra(dns, a1, a2, room) == KeepRecords(dns, a1, a2, Fill(a2, popEdns0(dns), room))
FillNs(dns, a1, room) == FillExtra(dns, a1, Fill(a1, dns.ns, room), room)
FillSections(dns, q, room) == FillNs(dns, Fill(q, dns.answer, room), room)

\* The octets left for the rest when the OPT record is put back.
RoomFor(dns, size) == IF IsEdns0(dns) = 0 THEN size ELSE size - RRLen(dns.extra[IsEdns0(dns)])

truncated(dns, want) ==
    LET size == Max({want, MinMsgSize})
    IN  IF IsTsig(dns) THEN dns
        ELSE IF msgLenWithCompressionMap(dns, FALSE) <= size THEN [dns EXCEPT !.Compress = FALSE]
        ELSE FillSections(dns, QuestionsLen(dns, TRUE), RoomFor(dns, size))

-----------------------------------------------------------------------------
\* The messages of the corpus have the fields of dns.Msg and records that can be
\* packed; their response codes are any numbers.
IsMessage(dns) ==
    /\ DOMAIN dns = {"Id", "flags", "Opcode", "Rcode", "Compress", "question", "answer", "ns", "extra"}
    /\ dns.Compress \in BOOLEAN /\ dns.Rcode \in Int
    /\ IsSeq(dns.question) /\ \A i \in 1..Len(dns.question) : IsNameField(dns.question[i].name)
    /\ \A sec \in Sections : IsSeq(dns[sec]) /\ \A i \in 1..Len(dns[sec]) : IsRR(dns[sec][i])

\* An OPT record belongs to the root (RFC 6891), so that compression leaves its
\* length as it is.
OPTAtRoot(dns) == \A i \in 1..Len(dns.extra) : IsOPT(dns.extra[i]) => dns.extra[i].name = Root /\ dns.extra[i].kind = "OPT"

ASSUME CorpusAssumption == \A x \in Corpus : IsMessage(Message(x)) /\ OPTAtRoot(Message(x))
ASSUME SizeAssumption == MinMsgSize \in Nat /\ Sizes \subseteq Int

Init ==
    /\ \E x \in Corpus : m = Message(x)
    /\ sent = m
    /\ wire = <<>> /\ got = <<>> /\ cp = <<>> /\ before = <<>>

Truncate(size) ==
    /\ wire = <<>> /\ cp = <<>> /\ before = <<>>
    /\ m' = truncated(m, size)
    /\ before' = <<m, size>>
    /\ UNCHANGED <<sent, wire, got, cp>>

Pack ==
    /\ wire = <<>> /\ cp = <<>>
    /\ wire' = <<PackBuffer(m)>>
    /\ m' = WithExtendedRcode(m)
    /\ sent' = m'
    /\ UNCHANGED <<got, cp, before>>

\* The receiver has the first n octets of what was packed.
Receive(n) ==
    /\ wire # <<>> /\ got = <<>>
    /\ \E u \in {Unpack(SubSeq(wire[1].msg, 1, n), Reused)} :
           got' = <<[err |-> u.err, msg |-> u.msg, cut |-> Len(wire[1].msg) - n]>>
    /\ UNCHANGED <<m, sent, wire, cp, before>>

CopyTo ==
    /\ wire = <<>> /\ cp = <<>> /\ before = <<>>
    /\ cp' = <<m, m>>
    /\ UNCHANGED <<m, sent, wire, got, before>>

\* The caller writes into a slice of the record i of a section of its own
\* message; a copy that shares the slice changes with it.
Scribbled(v) == [i \in 1..Len(v) |-> v[Len(v) + 1 - i]]

Scribble(sec, i, x) ==
    /\ cp # <<>> /\ cp[1] = cp[2]
    /\ x \in SliceFields(m[sec][i].kind)
    /\ m' = [m EXCEPT ![sec][i].f[x] = Scribbled(@)]
    /\ cp' = IF x \in CopyShares(m[sec][i])
             THEN [cp EXCEPT ![1][sec][i].f[x] = Scribbled(@)] ELSE cp
    /\ UNCHANGED <<sent, wire, got, before>>

Next ==
    \/ \E size \in Sizes : Truncate(size)
    \/ Pack
    \/ \E n \in 0..(IF wire = <<>> THEN 0 ELSE Len(wire[1].msg)) : Receive(n)
    \/ CopyTo
    \/ \E sec \in Sections : \E i \in DOMAIN m[sec] : \E x \in DOMAIN m[sec][i].f :
           Scribble(sec, i, x)

Spec == Init /\ [][Next]_vars

-----------------------------------------------------------------------------
\* Properties.

Packed == wire # <<>> /\ ~wire[1].err
Complete == Packed /\ got # <<>>

\* The length that msgLenWithCompressionMap computes without packing covers
\* what Pack writes: packing never runs out of the buffer of that length (it
\* fails only for a response code that the message cannot carry), and Len never
\* promises fewer octets than Pack returns.
LengthCoversPack ==
    wire # <<>> =>
        /\ wire[1].err = (sent.Rcode \notin 0..(IF IsEdns0(sent) = 0 THEN 15 ELSE 4095))
        /\ ~wire[1].err => Len(wire[1].msg) <= MsgLen(sent)

\* Every entry of the compression map that packDomainName builds is an offset a
\* 14-bit pointer can hold, at which the finished message spells that suffix
\* (within the receiver's limit on followed pointers).
CompressionMapIsTrue ==
    Packed => \A s \in DOMAIN wire[1].comp :
                  LET at == wire[1].comp[s]
                      name == UnpackDomainName(wire[1].msg, at)
                  IN  at < maxCompressionOffset /\ ~name.err /\ name.v = s

\* ToRFC3597 keeps the rdata octet for octet, so that fromRFC3597 gives back the
\* record; its buffer of exactly Len(rr) octets is too small only where the rdata
\* ends with a list of no strings or an empty octet string.
UnknownFormRoundTrips(rr) ==
    LET last == Last(PackTable[rr.kind])
        holds(u) == IF u.err THEN NeedsRoom(last[1], rr.f[last[2]]) ELSE fromRFC3597(u.v) = rr
    IN  holds(ToRFC3597(rr))

\* What is received whole unpacks to what was packed: header bits, the 12 bits of
\* the response code across header and OPT, and every field of every record,
\* whatever the message unpacked into held before; and the records of the message
\* survive the form of RFC 3597.
RoundTrip ==
    /\ (Complete /\ got[1].cut = 0) =>
           ~got[1].err /\ got[1].msg = [sent EXCEPT !.Compress = Reused.Compress]
    /\ (wire = <<>> /\ cp = <<>>) => \A i \in 1..Len(m.answer) : UnknownFormRoundTrips(m.answer[i])

\* What is received cut short unpacks to an error or to the leading records of
\* each section, never to a record that was not sent; of a cut question only the
\* type and the class may be missing.
CutGivesPrefix ==
    (Complete /\ ~got[1].err) =>
        LET g == got[1].msg
            n == Len(g.question)
        IN  /\ \A sec \in Sections : IsPrefix(g[sec], sent[sec])
            /\ n <= Len(sent.question)
            /\ \A i \in 1..n : /\ g.question[i].name = sent.question[i].name
                               /\ (i < n \/ g.answer \o g.ns \o g.extra # <<>>)
                                    => g.question[i] = sent.question[i]
            /\ g.answer # sent.answer => g.ns = <<>>
            /\ g.ns # sent.ns => g.extra = <<>>

\* Truncate leaves a message whose packed form fits the size (512 octets at
\* least) unless not even the questions and the OPT record do; it drops only
\* trailing records, never the OPT record, sets TC exactly when it drops some,
\* and the next record would not have fitted.
TruncateFits ==
    (before # <<>> /\ wire = <<>>) =>
        LET o == before[1]
            size == Max({before[2], MinMsgSize})
            all == o.answer \o o.ns \o popEdns0(o)
            kept == m.answer \o m.ns \o popEdns0(m)
            Cost(rrs) == MsgLen([m EXCEPT !.answer = rrs, !.ns = <<>>, !.extra = OPTOf(m)])
        IN  IsTsig(o) \/
            /\ kept = <<>> \/ Len(PackBuffer(m).msg) <= size
            /\ IsPrefix(kept, all) /\ IsPrefix(m.answer, o.answer) /\ IsPrefix(m.ns, o.ns)
            /\ OPTOf(m) = OPTOf(o)
            /\ ("Truncated" \in m.flags) = ("Truncated" \in o.flags \/ kept # all)
            /\ kept # all => Cost(Append(kept, all[Len(kept) + 1])) > size

\* A record's rdata with its names in lower case: what two duplicates share.
Folded(rr) ==
    LET low(x) == IF \E i \in 1..Len(PackTable[rr.kind]) :
                        PackTable[rr.kind][i] \in {<<k, x>> : k \in Names \cup {"IPSECGateway"}}
                  THEN CanonicalName(rr.f[x])
                  ELSE IF x = "RendezvousServers"
                  THEN [i \in 1..Len(rr.f[x]) |-> CanonicalName(rr.f[x][i])]
                  ELSE rr.f[x]
        r == [rr EXCEPT !.name = CanonicalName(@), !.ttl = Zeros(4),
                        !.f = [x \in DOMAIN @ |-> low(x)]]
    IN  packRR(r, NewBuffer(65536, FALSE), FALSE).msg

\* IsDuplicate, whose per-type comparisons are generated, agrees with the wire:
\* two records are duplicates exactly when they pack to the same octets but for
\* the TTL and the case of the names.
DuplicatesPackAlike ==
    (wire = <<>> /\ cp = <<>>) =>
        \A i, j \in 1..Len(m.answer) :
            (m.answer[i].kind # "OPT") =>
                (IsDuplicate(m.answer[i], m.answer[j]) = (Folded(m.answer[i]) = Folded(m.answer[j])))

\* CopyTo gives every record but OPT storage of its own: what the caller writes
\* into the slices of its message never shows in the copy ("a deep-copy of dns").
RecordCopyIsDeep ==
    cp # <<>> => \A sec \in Sections : \A i \in DOMAIN cp[2][sec] :
                     cp[2][sec][i].kind # "OPT" => cp[1][sec][i] = cp[2][sec][i]

\* The generated methods of a type, which list its fields independently of each
\* other, agree on them: isDuplicate with pack (zduplicate.go, zmsg.go), and copy
\* with the slices that the type has (ztypes.go).
GeneratedCodeAgrees == DuplicatesPackAlike /\ RecordCopyIsDeep

=============================================================================
