---------------------------- MODULE MsgInvariant ----------------------------
(***************************************************************************)
(* What the proofs of MsgProofs are stated with: what it means that a      *)
(* buffer spells a name, that the lengths computed without packing cover   *)
(* it, that a loop of the model has come so far, and IInv, the inductive   *)
(* invariant of Msg.                                                       *)
(***************************************************************************)
EXTENDS Msg

-----------------------------------------------------------------------------
(* Sums, and where the parts of a whole start.                             *)

\* f has the partial sums of the first n numbers of d.
IsSum(f, d, n) == f \in [0..n -> Nat] /\ f[0] = 0 /\ \A i \in 1..n : f[i] = f[i - 1] + d[i]

\* The offsets of the labels of s, from the beginning of the name.
Offsets(w, s) == w \in [0..Len(s) -> Nat] /\ w[0] = 0 /\ \A i \in 1..Len(s) : w[i] = w[i - 1] + 1 + Len(s[i])

\* s is a sequence of labels.
Labels(s) == IsSeq(s) /\ \A i \in 1..Len(s) : IsSeq(s[i])

\* Where each of the sequences es starts when they are written one behind the other.
Starts(f, es) == f \in [0..Len(es) -> Nat] /\ f[0] = 0 /\ \A i \in 1..Len(es) : f[i] = f[i - 1] + Len(es[i])

-----------------------------------------------------------------------------
(* Names in a buffer.                                                      *)

\* p is a buffer of PackBuffer.
IsBuffer(p) ==
  /\ DOMAIN p = {"msg", "cap", "valid", "comp", "err"}
  /\ IsSeq(p.msg) /\ p.cap \in Nat /\ p.valid \in BOOLEAN /\ p.err \in BOOLEAN

\* q is the buffer p with more octets, in which it may have more names.
Extends(p, q) ==
  /\ IsBuffer(q) /\ ~q.err /\ q.cap = p.cap /\ q.valid = p.valid
  /\ Len(q.msg) >= Len(p.msg) /\ \A i \in 1..Len(p.msg) : q.msg[i] = p.msg[i]

\* q is p behind the name s: its labels before hit, whose offsets are w, and
\* then a pointer to the rest of the name or the root.
NamePacked(p, q, s, compress, hit, w) ==
  LET base == Len(p.msg) IN
  /\ Extends(p, q)
  /\ hit \in 1..Len(s)
  /\ hit < Len(s) => p.valid /\ compress /\ Suffix(s, hit) \in DOMAIN p.comp
  /\ \A i \in 1..(hit - 1) : p.valid /\ compress => Suffix(s, i) \notin DOMAIN p.comp
  /\ Len(q.msg) = base + w[hit - 1] + (IF hit < Len(s) THEN 2 ELSE 1)
  /\ \A i \in 1..(hit - 1) :
       /\ q.msg[base + w[i - 1] + 1] = Len(s[i])
       /\ \A j \in 1..Len(s[i]) : q.msg[base + w[i - 1] + 1 + j] = s[i][j]
  /\ hit = Len(s) => q.msg[base + w[hit - 1] + 1] = 0
  /\ hit < Len(s) => \A pos \in Nat :
       pos = p.comp[Suffix(s, hit)] /\ pos < maxCompressionOffset =>
         /\ q.msg[base + w[hit - 1] + 1] >= 192
         /\ (q.msg[base + w[hit - 1] + 1] - 192) * 256 + q.msg[base + w[hit - 1] + 2] = pos
  /\ \A x \in DOMAIN p.comp : x \in DOMAIN q.comp /\ q.comp[x] = p.comp[x]
  /\ \A x \in DOMAIN q.comp \ DOMAIN p.comp :
       \E i \in 1..(hit - 1) : x = Suffix(s, i) /\ q.comp[x] = base + w[i - 1] /\ Insertable(q.comp[x])
  /\ p.valid => \A i \in 1..(hit - 1) : Insertable(base + w[i - 1]) => Suffix(s, i) \in DOMAIN q.comp

\* The labels of a name before hit, as packDomainName writes them.
LabelBytes(s, hit) == FlattenSeq([i \in 1..(hit - 1) |-> <<Len(s[i])>> \o s[i]])

\* w has the offsets of the labels of s, as many octets as each beginning of the name takes.
NameOffsets(w, s) ==
  /\ Offsets(w, s) /\ WireLen(s) = w[Len(s)]
  /\ \A k \in 0..Len(s) : WireLen(SubSeq(s, 1, k)) = w[k]
  /\ \A i, j \in 0..Len(s) : i <= j => w[i] <= w[j]

-----------------------------------------------------------------------------
(* What a message spells.                                                  *)

\* A label and its length are the octets of msg from the offset at on, none of
\* which is one of H, the octets that are written again.
LabelAt(msg, H, l, at) ==
  /\ at + 1 + Len(l) <= Len(msg)
  /\ at + 1 \notin H /\ msg[at + 1] = Len(l)
  /\ \A j \in 1..Len(l) : at + 1 + j \notin H /\ msg[at + 1 + j] = l[j]

\* At the offset at, msg goes on at to: they are the same, or a pointer leads on.
GoesOn(msg, H, at, to) ==
  /\ at + 2 <= Len(msg) /\ at + 1 \notin H /\ at + 2 \notin H
  /\ msg[at + 1] >= 192 /\ (msg[at + 1] - 192) * 256 + msg[at + 2] = to

\* The labels of s are those at the offsets pos, the last is the root.
SpelledAt(msg, H, s, pos) ==
  /\ pos \in [1..Len(s) -> Nat]
  /\ \A i \in 1..(Len(s) - 1) :
       /\ LabelAt(msg, H, s[i], pos[i])
       /\ \/ pos[i + 1] = pos[i] + 1 + Len(s[i])
          \/ i + 1 < Len(s) /\ GoesOn(msg, H, pos[i] + 1 + Len(s[i]), pos[i + 1])
  /\ pos[Len(s)] + 1 <= Len(msg) /\ pos[Len(s)] + 1 \notin H /\ msg[pos[Len(s)] + 1] = 0

\* msg spells s from the offset at on, perhaps by pointers.
Spelled(msg, H, s, at) == \E pos : SpelledAt(msg, H, s, pos) /\ pos[1] = at

\* The octets of msg that are not written again are those of new.
Agrees(msg, new, H) ==
  /\ IsSeq(msg) /\ IsSeq(new) /\ Len(msg) <= Len(new)
  /\ \A i \in 1..Len(msg) : i \notin H => new[i] = msg[i]

\* Every entry of the compression map is the offset of its name in the message,
\* and one that a pointer can hold.
TrueMap(p, H) ==
  \A x \in DOMAIN p.comp :
    /\ IsName(x) /\ p.comp[x] \in Nat /\ p.comp[x] < maxCompressionOffset
    /\ Spelled(p.msg, H, x, p.comp[x])

\* What UnpackDomainName starts from.
NameStart(off) ==
  [off |-> off, off1 |-> 0, v |-> <<>>, budget |-> maxDomainNameWireOctets, ptr |-> 0, done |-> FALSE, err |-> FALSE]

\* u is the state of UnpackDomainName between two labels.
IsTurn(u) ==
  /\ DOMAIN u = {"off", "off1", "v", "budget", "ptr", "done", "err"}
  /\ u.off \in Nat /\ IsSeq(u.v) /\ u.budget \in Int /\ u.ptr \in Nat /\ ~u.done /\ ~u.err

\* v is the state u behind the label l.
BehindLabel(u, v, l) ==
  /\ IsTurn(v) /\ v.off = u.off + 1 + Len(l) /\ v.v = Append(u.v, l)
  /\ v.budget = u.budget - (Len(l) + 1) /\ v.ptr = u.ptr

-----------------------------------------------------------------------------
(* The length of a name and the buffer it is packed in.                    *)

\* What the search of the length estimate finds.
Found(seen, s, w, off, r) ==
  /\ r.hit \in 1..Len(s)
  /\ r.hit < Len(s) => Suffix(s, r.hit) \in seen
  /\ \A x \in r.c : x \in seen \/ \E i \in 1..(r.hit - 1) : x = Suffix(s, i) /\ off + w[i - 1] < maxCompressionOffset

\* A name of which the map has a suffix that has at least two labels has the
\* shorter suffixes too, unless the message had outgrown the pointers.
Nested(p) ==
  \A x \in DOMAIN p.comp : \A j \in 1..(Len(x) - 1) :
    Suffix(x, j) \in DOMAIN p.comp \/ Len(p.msg) >= maxCompressionOffset

\* The buffer p and the estimates of its length: l0 without compression, and l
\* with the suffixes c.
Covers(p, l0, l, c) ==
  /\ IsBuffer(p) /\ ~p.err /\ l0 \in Nat /\ l \in Nat /\ Len(p.msg) <= l0 /\ Len(p.msg) <= l
  /\ c = [valid |-> p.valid, seen |-> c.seen]
  /\ p.valid => c.seen \subseteq DOMAIN p.comp /\ Nested(p)

\* The octets of a name without compression.
PlainLen(s) == IF s = <<>> THEN 1 ELSE WireLen(s)

\* A name that is packed, with all that is known of it.
NameStep(p, q, s, compress, hit, w) ==
  IsName(s) /\ NameOffsets(w, s) /\ IsBuffer(p) /\ p.valid /\ Nested(p) /\ NamePacked(p, q, s, compress, hit, w)

\* The buffer p is as the estimates l0 and l say, and its map is true.  The
\* octets H of it are written again.
Sound(p, H, l0, l, c) ==
  Covers(p, l0, l, c) /\ TrueMap(p, H) /\ \A i \in H : i \in Nat /\ i <= Len(p.msg)

\* The encoding e, if it is one, has no more than n octets.
Fits(e, n) == n \in Nat /\ (~e.err => IsSeq(e.v) /\ Len(e.v) <= n)

-----------------------------------------------------------------------------
(* Loops.                                                                  *)

\* The loops of the model: what one more turn k makes of the value u.
Turn(loop, k, u) ==
  CASE loop.of = "Unescape" -> UnescapeTurn(loop.s, u)
    [] loop.of = "BitMapWalk" -> BitMapTurn(ToSet(loop.s), u, loop.s[k])
    [] loop.of = "packDataDomainNames" -> packDomainName(loop.s[k], u, FALSE)
    [] loop.of = "packEntries" -> packEntry(loop.s[k], loop.f, u, loop.compress)
    [] loop.of = "NamesLen" -> NameLen(u, loop.s[k], loop.off, FALSE)
    [] loop.of = "EntriesLen" -> EntryLen(u, loop.s[k], loop.f, loop.off)
    [] loop.of = "QuestionsLen" -> AddLen(u, questionLen(loop.s[k], u.l, u.c))
    [] loop.of = "packQuestions" -> packQuestion(loop.s[k], u, loop.compress)
    [] loop.of = "packRRs" -> packNext(loop.s[k], u, loop.compress)
    [] loop.of = "truncateLoop" -> (IF u.stop THEN u ELSE truncateTurn(u, rrLen(loop.s[k], u.l, u.c), loop.size))
    [] loop.of = "RecordsLen" -> AddLen(u, rrLen(loop.s[k], u.l, u.c))

\* g is the loop, as the recursive functions of the model write it.
Runs(g, n, start, loop) == g = [k \in 0..n |-> IF k = 0 THEN start ELSE Turn(loop, k, g[k - 1])]

\* The loop from start, turn by turn, up to the result.
Steps(g, n, start, loop) == g[0] = start /\ \A k \in 1..n : g[k] = Turn(loop, k, g[k - 1])

\* No turn of the loop of Unescape writes more characters than it reads.
Reading(s, u) ==
  /\ u = [i |-> u.i, o |-> u.o] /\ u.i \in Nat /\ 1 <= u.i /\ u.i <= Len(s) + 1
  /\ IsSeq(u.o) /\ Len(u.o) < u.i

\* The blocks written are as long as the length counted.
Walking(a) ==
  /\ a = [l |-> a.l, o |-> a.o, w |-> a.w, len |-> a.len, bad |-> a.bad]
  /\ a.l \in Nat /\ a.len \in Nat /\ IsSeq(a.o) /\ Len(a.o) = a.l

-----------------------------------------------------------------------------
(* The encodings of fields and their lengths.                              *)

\* What an encoder gives: octets, or an error.
Encoding(e) == e = Bad \/ \E v : IsSeq(v) /\ e = Good(v, 0)

\* As many pairs as the first k numbers of d make together.
Cells(d, k) == {c \in (1..k) \X Nat : c[2] \in 1..d[c[1]]}

\* The parameter e packs to as many octets as its length, at most.
PairFits(e) == Encoding(SVCB_pack(e)) /\ SVCB_len(e) \in Nat /\ (~SVCB_pack(e).err => Len(SVCB_pack(e).v) <= SVCB_len(e))

\* The kinds of fields whose encoding does not look at the buffer.
PlainKinds == Uints \cup
    {"DataA", "DataAAAA", "String", "StringTxt", "StringOctet", "StringAny", "StringHex", "StringHexSalt",
     "StringBase64", "DataNsec", "DataOpt", "DataSVCB", "DataApl"}

-----------------------------------------------------------------------------
(* Records.                                                                *)

\* The length a of a record so far.
IsLength(a) == a = [len |-> a.len, c |-> a.c] /\ a.len \in Nat

\* q is the buffer p with more octets, as the lengths a0, without compression, and a say.
Grown(p, q, H, off0, a0, off, a) ==
  Sound(q, H, off0 + a0.len, off + a.len, a.c) /\ Extends(p, q) /\ IsLength(a0) /\ IsLength(a)

\* What the len method counts for an entry of the pack method.
LenEntry(e) == <<LenKind(e[1]), e[2]>>

\* The entries of a row, each of which can be encoded, and those of its len.
IsRow(row, lens, f) ==
  /\ IsSeq(row) /\ \A i \in 1..Len(row) : row[i][1] \in FieldKinds /\ IsEncodable(row[i], f)
  /\ IsSeq(lens) /\ Len(lens) = Len(row) /\ \A i \in 1..Len(row) : lens[i] = LenEntry(row[i])

\* The fields of NSEC3, and the length that its len method gives by hand.
NSEC3Row == PackTable["NSEC3"]
NSEC3Len(f) == 8 + Len(f["Salt"]) \div 2 + Len(f["NextDomain"]) + typeBitMapLen(f["TypeBitMap"])

\* The octets of the length of the rdata, at the end of the header h.
Rdlength(h) == {Len(h.msg) - 1, Len(h.msg)}

\* new is o, but for x at k.
Changed(o, new, k, x) == new = [o EXCEPT ![k] = x]

\* The length of the header of a record.
HeaderLen(rr, off, c) == AddOctets(NameLen([len |-> 0, c |-> c], rr.name, off, TRUE), 10)
HeaderName(rr, off, c) == domainNameLen(rr.name, off, c, TRUE)

-----------------------------------------------------------------------------
(* Questions, records and messages.                                        *)

\* The lengths g of what comes before each of n elements, without compression.
PlainRun(g, n) == \A k \in 0..n : g[k].l \in Nat /\ g[k].c = NoMap /\ g[k].l <= g[n].l

\* The buffers h behind each of n elements, and the lengths g0, without compression, and g.
\* Packing element k keeps a sound buffer sound, if the element has its length as room.
SoundStep(g0, g, h, cap, compress, k) ==
    /\ Sound(h[k - 1], {}, g0[k - 1].l, g[k - 1].l, g[k - 1].c) /\ h[k - 1].cap = cap /\ h[k - 1].valid = compress
    /\ g0[k].l < cap /\ g0[k - 1].c = NoMap
    => Sound(h[k], {}, g0[k].l, g[k].l, g[k].c) /\ Extends(h[k - 1], h[k])

\* The length of the questions without a compression map.
PlainQuestions(dns) == QuestionsLen(dns, FALSE)

\* The map of suffixes at the start of a message.
FreshMap(valid) == [valid |-> valid, seen |-> {}]

\* The records of the sections, in the order in which they are packed.
Records(dns) == dns.answer \o dns.ns \o dns.extra

\* Records of the same length, wherever they are packed.
SameLen(x, y) == \A off, c : rrLen(x, off, c) = rrLen(y, off, c)

\* The same, record by record.
EachSameLen(s, t) == Len(s) = Len(t) /\ \A i \in 1..Len(s) : SameLen(s[i], t[i])

\* Whether Pack uses a compression map.
Compressed(dns) == dns.Compress /\ isCompressible(dns)

\* The octets of the buffer that it allocates.
Capacity(dns) == msgLenWithCompressionMap(dns, FALSE) + 1

\* What Pack makes of a message whose response code it can carry.
PackAll(dns) ==
  packRRs(Records(WithExtendedRcode(dns)),
          packQuestions(dns.question, packMsgHdr(dns, NewBuffer(Capacity(dns), Compressed(dns))),
                        Compressed(dns)), Compressed(dns))

\* The response codes that Pack refuses.
Refused(dns) == dns.Rcode \notin 0..4095 \/ (dns.Rcode > 15 /\ IsEdns0(dns) = 0)

\* The response codes that LengthCoversPack says a message can carry, at the index n of its OPT record.
Codes(n) == 0..(IF n = 0 THEN 15 ELSE 4095)

\* The message dns with the high bits of the code r in the OPT record at.
StoredCode(dns, r, at) ==
  IF r \notin 0..4095 \/ at = 0 THEN dns ELSE [dns EXCEPT !.extra[at] = SetExtendedRcode(@, r)]

-----------------------------------------------------------------------------
(* Truncation.                                                             *)

\* A running length l and the suffixes c behind it.
IsTotal(a) == a = [l |-> a.l, c |-> a.c] /\ a.l \in Nat

\* u is how far truncateLoop has come after k records, of which g are the lengths: it has kept
\* all of them, or it stopped at one that has no room.
CutRun(u, g, rrs, room, k) ==
  /\ ~u.stop => u.n = k /\ u.l = g[k].l /\ u.c = g[k].c /\ g[k].l < room
  /\ u.stop => /\ u.n \in 0..k /\ u.l = room /\ g[u.n].l <= room
               /\ u.n = k => u.c = g[k].c /\ g[k].l = room
               /\ u.n < k => g[u.n].l + rrLen(rrs[u.n + 1], g[u.n].l, g[u.n].c).len > room
  /\ u.stop \in BOOLEAN /\ u = [l |-> u.l, c |-> u.c, n |-> u.n, stop |-> u.stop]

\* A section that is filled: all of it, of total K, or up to the first record for which
\* there is no room.
Filled(b, rrs, room, K) ==
  /\ b.n \in 0..Len(rrs)
  /\ b.n = Len(rrs) => b.l = K.l /\ b.c = K.c
  /\ b.n < Len(rrs) => b.l \in Int /\ b.l >= room /\ K.l + rrLen(rrs[b.n + 1], K.l, K.c).len > room

\* s is the first elements of t.
Begins(s, t) == IsSeq(s) /\ IsSeq(t) /\ Len(s) <= Len(t) /\ \A i \in 1..Len(s) : s[i] = t[i]

\* s, t and u are the first elements of A, B and C, the later ones only behind all of the earlier ones.
Behind(A, B, C, s, t, u) ==
  /\ Begins(s, A) /\ Begins(t, B) /\ Begins(u, C)
  /\ Len(s) < Len(A) => Len(t) = 0
  /\ Len(s) < Len(A) \/ Len(t) < Len(B) => Len(u) = 0

\* They are the first elements of all; what is next in all is what is next in one of the three.
JoinedSections(A, B, C, s, t, u, kept, all) ==
  /\ Begins(kept, all) /\ (Len(kept) = Len(all) <=> Len(s) = Len(A) /\ Len(t) = Len(B) /\ Len(u) = Len(C))
  /\ Len(s) < Len(A) => all[Len(kept) + 1] = A[Len(s) + 1]
  /\ Len(s) = Len(A) /\ Len(t) < Len(B) => all[Len(kept) + 1] = B[Len(t) + 1]
  /\ Len(s) = Len(A) /\ Len(t) = Len(B) /\ Len(u) < Len(C) => all[Len(kept) + 1] = C[Len(u) + 1]

\* What the next record of a section would make of the length.
Over(K, rr, room) == K.l + rrLen(rr, K.l, K.c).len > room

\* rrs are records that can be packed.
IsRecords(rrs) == IsSeq(rrs) /\ \A i \in 1..Len(rrs) : IsRR(rrs[i])

\* s are the records that Fill keeps of a section, from the state a of the loop to b.
Part(a, rrs, room, b, s) == b = Fill(a, rrs, room) /\ s = SubSeq(rrs, 1, b.n)

\* There is no room left.
NoRoom(a, room) == a.l \in Int /\ a.l >= room

\* The loop has come to the length K, for which there is room.
Arrived(a, K, room) == IsTotal(K) /\ a.l = K.l /\ a.c = K.c /\ K.l <= room

\* Three sections A, B and C, of which s, t and u are kept; their lengths behind q.
Three(A, B, C, q, room, s, t, u) ==
  LET L1 == RecordsLen(s, q)
      L2 == RecordsLen(t, L1)
      L == RecordsLen(u, L2)
  IN  /\ Begins(s, A) /\ Begins(t, B) /\ Begins(u, C) /\ IsTotal(L)
      /\ Len(s) < Len(A) => Len(t) = 0 /\ L2 = L1
      /\ Len(s) < Len(A) \/ Len(t) < Len(B) => Len(u) = 0 /\ L = L2
      /\ (Len(s) = 0 /\ Len(t) = 0 /\ Len(u) = 0) \/ L.l <= room
      /\ Len(s) < Len(A) => Over(L1, A[Len(s) + 1], room)
      /\ Len(s) = Len(A) /\ Len(t) < Len(B) => Over(L2, B[Len(t) + 1], room)
      /\ Len(s) = Len(A) /\ Len(t) = Len(B) /\ Len(u) < Len(C) => Over(L, C[Len(u) + 1], room)

\* The length of the records kept is L, and the first record left out has no room.
Cut(L, kept, all, room) ==
  /\ IsTotal(L) /\ Begins(kept, all)
  /\ Len(kept) = 0 \/ L.l <= room
  /\ Len(kept) < Len(all) => Over(L, all[Len(kept) + 1], room)

\* Whether records are missing from s, t and u, the records kept of the sections.
Dropped3(dns, s, t, u) == Len(s) < Len(dns.answer) \/ Len(t) < Len(dns.ns) \/ Len(u) < Len(popEdns0(dns))

\* The header bits of a cut message: TC is set when records were dropped.
CutFlags(dns, s, t, u) == IF Dropped3(dns, s, t, u) THEN dns.flags \cup {"Truncated"} ELSE dns.flags

\* The message dns with the records s, t and u of its sections and the OPT record at the end.
IsCut(new, dns, s, t, u) ==
  new = [dns EXCEPT !.Compress = TRUE, !.flags = CutFlags(dns, s, t, u), !.answer = s, !.ns = t, !.extra = u \o OPTOf(dns)]

\* Its fields.
CutHas(new, dns, s, t, u) ==
  /\ DOMAIN new = DOMAIN dns /\ new.answer = s /\ new.ns = t /\ new.extra = u \o OPTOf(dns)
  /\ new.question = dns.question /\ new.Compress = TRUE /\ new.Rcode = dns.Rcode

\* What the length of a compressed message depends on.
Holds(d, qs, rs, ns, extra) ==
  d.question = qs /\ d.answer = rs /\ d.ns = ns /\ d.extra = extra /\ d.Compress = TRUE

\* The promise of TruncateFits, of the message o cut to new.
CutStands(o, new, size) ==
  LET all == o.answer \o o.ns \o popEdns0(o)
      kept == new.answer \o new.ns \o popEdns0(new)
      Cost(rrs) == MsgLen([new EXCEPT !.answer = rrs, !.ns = <<>>, !.extra = OPTOf(new)])
  IN  /\ kept = <<>> \/ Len(PackBuffer(new).msg) <= size
      /\ IsPrefix(kept, all) /\ IsPrefix(new.answer, o.answer) /\ IsPrefix(new.ns, o.ns)
      /\ OPTOf(new) = OPTOf(o)
      /\ ("Truncated" \in new.flags) = ("Truncated" \in o.flags \/ kept # all)
      /\ kept # all => Cost(Append(kept, all[Len(kept) + 1])) > size

\* The length with the records kept and the OPT record.
IsLengthOf(l, dns, kept) == l = RecordsLen(OPTOf(dns), RecordsLen(kept, QuestionsLen(dns, TRUE))).l

-----------------------------------------------------------------------------
(* The inductive invariant.                                                *)

\* Where the message comes from: the corpus, or Truncate of a message of the corpus, until it
\* is packed or copied.
Source ==
  /\ wire = <<>> /\ cp = <<>> /\ before = <<>> => \E x \in Corpus : m = Message(x)
  /\ before # <<>> => /\ cp = <<>>
                      /\ \E x \in Corpus, size \in Sizes :
                            before = <<Message(x), size>> /\ (wire = <<>> => m = truncated(Message(x), size))

\* A copy, once taken, stays.
CopyIsPair == cp # <<>> => DOMAIN cp = {1, 2}

\* What is on the wire is what Pack makes of sent.
WireIsSent == wire # <<>> => IsMessage(sent) /\ wire = <<PackBuffer(sent)>>

\* The inductive invariant.
IInv == Source /\ CopyIsPair /\ WireIsSent
=============================================================================
