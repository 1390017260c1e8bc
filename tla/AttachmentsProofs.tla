------------------------- MODULE AttachmentsProofs -------------------------
(***************************************************************************)
(* Machine-checked proofs about Attachments, for all parts and answers,    *)
(* buffers of any size, and however the messages are read.                 *)
(***************************************************************************)
EXTENDS Attachments, SequenceLemmas

\* Where the element of seqs that follows the first i begins when they are put together
Before(seqs, i) == Len(FlattenSeq(SubSeq(seqs, 1, i)))

-----------------------------------------------------------------------------
(* What is packed *)

\* The boundary is not in the first n tokens of s.
Absent(s, n) == \A k \in 1..n - 1 : ~(s[k] = T("M", <<>>) /\ s[k + 1] = T("b", <<boundary>>))
NoPartHasIt == MIME => \A i \in 1..N : Absent(Data(i), Len(Data(i)))

\* boundaryInPart has seen all of the parts before this one, and of this one what it has read,
\* of which its buffer has the end
Seen ==
  /\ MIME /\ at[1] \in 1..N /\ at[2] \in 0..Len(Data(at[1]))
  /\ \A i \in 1..at[1] - 1 : Absent(Data(i), Len(Data(i)))
  /\ Absent(Data(at[1]), at[2])
  /\ window \in Seq(Token) /\ Len(window) <= at[2] /\ Len(window) <= 2
  /\ at[2] > 0 => Len(window) > 0
  /\ Stands(window, Data(at[1]), at[2] - Len(window))

CheckInv ==
  /\ session \in Sessions /\ boundary \in {0, 1}
  /\ IF pc = "check" THEN Seen ELSE NoPartHasIt

\* The parts with what is around them, and where in the message part i begins
Sections == [i \in 1..N |-> HeaderOf(i) \o Data(i) \o TrailerOf(i)]
At(i) == Before(Sections, i - 1)

\* A pass has not begun
AtStart == cur = 1 /\ pos = WRITE_HEADER /\ rpos = [i \in 1..N |-> 0] /\ rbuf = <<>> /\ out = <<>>

\* What the packager has told so far of the message
Offset == IF pos = WRITE_HEADER THEN At(cur) ELSE At(cur) + Len(HeaderOf(cur)) + rpos[cur]
Current == IF pc = "ask" THEN <<>> ELSE got

Cursor ==
  /\ cur \in 1..N + 1 /\ pos \in Nat \cup {WRITE_HEADER} /\ rpos \in [1..N -> Nat]
  /\ cur = N + 1 => pos = WRITE_HEADER
  /\ cur <= N => rpos[cur] <= Len(Data(cur)) /\ (pos = WRITE_HEADER => rpos[cur] = 0)
  /\ \A i \in cur + 1..N : rpos[i] = 0

\* It has been read, is in the read in progress, or waits in m_readBuffer
PassInv ==
  /\ Cursor
  /\ out \in Seq(Token) /\ got \in Seq(Token) /\ rbuf \in Seq(Token) /\ cb \in Nat
  /\ Stands(out, Packaged, 0)
  /\ Stands(Current, Packaged, Len(out))
  /\ Stands(rbuf, Packaged, Len(out) + Len(Current))
  /\ Len(out) + Len(Current) + Len(rbuf) = Offset
  /\ pc = "fill" => (rbuf # <<>> => cb = 0) /\ (got = <<>> => cb > 0)

SendInv ==
  /\ pc = "check" => AtStart /\ got = <<>> /\ cb = 0 /\ sized = -1
  /\ pc \in {"ask", "fill"} => PassInv /\ sized \in {-1, Len(Packaged)}
  /\ Receiving => out = Packaged /\ sized = Len(Packaged)

-----------------------------------------------------------------------------
(* What is unpacked *)

\* The parts of an earlier answer, and the first k of this one
Arrived(k) == parts = session.old \o SubSeq(Expected, 1, k)

\* What the builder has of the part to come
Content == IF builder.toDisk THEN builder.file ELSE builder.payload

\* Buffer and network have what is at offset p of the message
Wired(p) ==
  /\ p \in Nat /\ buff \in Seq(Token) /\ wire \in Seq(Token) /\ Len(buff) <= BUFF
  /\ Stands(buff, Packaged, p) /\ Stands(wire, Packaged, p + Len(buff))

DataAt(k) == At(k) + Len(HeaderOf(k))

FindAt(p) == Wired(p) /\ p \in {0, 1} /\ Arrived(0) /\ Content = <<>>
\* At the line of part k's headers, or the CRLF before it
HeadersAt(p, k) ==
  /\ Wired(p) /\ Arrived(k - 1) /\ Content = <<>>
  /\ bdy \in 0..Len(buff) /\ p + bdy \in {At(k) + 4, At(k) + 5}
BodyAt(p, k) ==
  /\ Wired(p) /\ Arrived(k - 1) /\ cid = k
  /\ Stands(Content, Data(k), 0)
  /\ search \in 0..Len(buff) /\ p + search = DataAt(k) + Len(Content)
NextAt(p, k) ==
  /\ Wired(p) /\ Arrived(k) /\ Content = <<>>
  /\ bdy \in 0..Len(buff) /\ p + bdy = DataAt(k) + Len(Data(k))

MimeInv ==
  /\ pc = "find" => \E p \in Nat : FindAt(p)
  /\ pc = "headers" => \E p \in Nat, k \in 1..N : HeadersAt(p, k)
  /\ pc = "body" => \E p \in Nat, k \in 1..N : BodyAt(p, k)
  /\ pc = "next" => \E p \in Nat, k \in 1..N : NextAt(p, k)
  /\ pc = "drain" => Arrived(N)

\* The records of part i: how many, where the data of one ends, and each of them
Count(i) == IF Len(Data(i)) = 0 THEN 1 ELSE (Len(Data(i)) + session.chunk - 1) \div session.chunk
End(i, k) == Least(k * session.chunk, Len(Data(i)))
Piece(i, k) == SubSeq(Data(i), (k - 1) * session.chunk + 1, End(i, k))
HeadOf(i, k) ==
  Record(i, i = 1 /\ k = 1, i = N /\ k = Count(i), k < Count(i), k = 1, Len(Piece(i, k)))
WholeRecord(i, k) == HeadOf(i, k) \o Piece(i, k) \o Padding(PadTo(Len(Piece(i, k))))
Records(i) == [k \in 1..Count(i) |-> WholeRecord(i, k)]
AllRecords == [i \in 1..N |-> FlattenSeq(Records(i))]
RecordAt(i, k) == Before(AllRecords, i - 1) + Before(Records(i), k - 1)

\* A chunked part is named by its first record
Naming(i, k) == IF k = 1 THEN first = <<>> ELSE Len(first) = 1 /\ first[1].id = i

StartsRecord(i, k) ==
  /\ wire \in Seq(Token) /\ Stands(wire, Answer, RecordAt(i, k))
  /\ Arrived(i - 1) /\ Stands(Content, Data(i), 0) /\ Len(Content) = End(i, k - 1)
  /\ Naming(i, k)

InPayload(i, k) ==
  /\ wire \in Seq(Token)
  /\ left \in 0..Len(Piece(i, k)) /\ pad = PadTo(Len(Piece(i, k)))
  /\ Stands(wire, Answer, RecordAt(i, k) + Len(HeadOf(i, k)) + Len(Piece(i, k)) - left)
  /\ Arrived(i - 1) /\ Stands(Content, Data(i), 0) /\ Len(Content) = End(i, k) - left
  /\ rec.end = (i = N /\ k = Count(i)) /\ rec.chunked = (k < Count(i))
  /\ IF k = 1 /\ k = Count(i) THEN first = <<>> /\ rec.id = i ELSE Len(first) = 1 /\ first[1].id = i

DimeInv ==
  /\ pc = "record" => \E i \in 1..N : \E k \in 1..Count(i) : StartsRecord(i, k)
  /\ pc = "payload" => \E i \in 1..N : \E k \in 1..Count(i) : InPayload(i, k)

BuilderType == builder \in [payload : Seq(Token), toDisk : BOOLEAN, file : Seq(Token)]

ReceiveInv ==
  /\ BuilderType
  /\ \E k \in 0..N : Arrived(k)
  /\ pc \in {"check", "ask", "fill"} => Arrived(0) /\ builder = NoPart /\ buff = <<>> /\ first = <<>>
  /\ pc \in {"find", "headers", "body", "next", "drain", "beyond", "astray", "too big"} => MIME
  /\ pc \in {"record", "payload"} => ~MIME
  /\ MimeInv /\ DimeInv
  /\ pc \in {"start", "done"} => Arrived(N)
  /\ pc = "done" /\ session.old = <<>> => envelope = Data(1)

-----------------------------------------------------------------------------
(* Sequences put together, and searched *)

\* One sequence, put together with none.
LEMMA FlattenOne ==
  ASSUME NEW S, NEW s \in Seq(S)
  PROVE  FlattenSeq(<<s>>) = s
<1>1. PICK q : q = <<s>>
  OBVIOUS
<1>2. q \in Seq(Seq(S)) /\ Len(q) = 1 /\ q[1] = s
  BY <1>1
<1>3. PICK sums : Sums(sums, q)
  BY <1>2, SumsExist
<1>4. sums[0] = <<>> /\ sums[1] = sums[1 - 1] \o q[1] /\ FlattenSeq(q) = sums[1]
  BY <1>2, <1>3 DEF Sums
<1>5. FlattenSeq(q) = <<>> \o s
  BY <1>2, <1>4
<1> QED
  BY <1>1, <1>5

\* Each sequence is where those before it end.
LEMMA BeforeIs ==
  ASSUME NEW S, NEW seqs \in Seq(Seq(S)), NEW i \in 1..Len(seqs)
  PROVE  /\ FlattenSeq(seqs) \in Seq(S) /\ seqs[i] \in Seq(S)
         /\ Before(seqs, 0) = 0 /\ Before(seqs, i - 1) \in Nat
         /\ Before(seqs, i) = Before(seqs, i - 1) + Len(seqs[i])
         /\ Before(seqs, i) <= Len(FlattenSeq(seqs))
         /\ Before(seqs, Len(seqs)) = Len(FlattenSeq(seqs))
         /\ Stands(seqs[i], FlattenSeq(seqs), Before(seqs, i - 1))
<1>1. PICK a, b, c, x : /\ a = SubSeq(seqs, 1, i - 1) /\ x = <<seqs[i]>> /\ b = SubSeq(seqs, 1, i)
                        /\ c = SubSeq(seqs, i + 1, Len(seqs))
  OBVIOUS
<1>2. /\ a \in Seq(Seq(S)) /\ b \in Seq(Seq(S)) /\ c \in Seq(Seq(S)) /\ x \in Seq(Seq(S))
      /\ Len(a) = i - 1 /\ Len(b) = i /\ Len(x) = 1 /\ seqs[i] \in Seq(S)
  BY <1>1
<1>3. b = a \o x
  <2>1. PICK d : d = a \o x
    OBVIOUS
  <2>2. d \in Seq(Seq(S)) /\ Len(d) = i /\ (\A k \in 1..i - 1 : d[k] = a[k]) /\ d[i] = x[1]
    <3>1. /\ a \o x \in Seq(Seq(S)) /\ Len(a \o x) = Len(a) + Len(x)
          /\ (\A k \in 1..Len(a) : (a \o x)[k] = a[k]) /\ \A k \in 1..Len(x) : (a \o x)[Len(a) + k] = x[k]
      <4> DEFINE U == Seq(S)
      <4>1. a \in Seq(U) /\ x \in Seq(U)
        BY <1>2
      <4> HIDE DEF U
      <4>2. /\ a \o x \in Seq(U) /\ Len(a \o x) = Len(a) + Len(x)
            /\ (\A k \in 1..Len(a) : (a \o x)[k] = a[k]) /\ \A k \in 1..Len(x) : (a \o x)[Len(a) + k] = x[k]
        BY <4>1, ConcatIs
      <4> QED
        BY <4>2 DEF U
    <3> QED
      BY <1>2, <2>1, <3>1
  <2>3. (\A k \in 1..i - 1 : a[k] = seqs[k]) /\ (\A k \in 1..i : b[k] = seqs[k]) /\ x[1] = seqs[i]
    BY <1>1
  <2>4. ASSUME NEW k \in 1..i PROVE d[k] = b[k]
    <3>1. k \in 1..i - 1 \/ k = i
      OBVIOUS
    <3>2. i \in 1..i
      OBVIOUS
    <3> QED
      BY <2>2, <2>3, <3>1, <3>2, Zenon
  <2>5. d = b
    BY <1>2, <2>2, <2>4, SeqEqual
  <2> QED
    BY <2>1, <2>5
<1>4. b \o c = seqs
  BY <1>1, CutIs
<1>5. FlattenSeq(x) = seqs[i]
  BY <1>1, <1>2, FlattenOne
<1>6. /\ FlattenSeq(a) \in Seq(S) /\ FlattenSeq(b) \in Seq(S) /\ FlattenSeq(c) \in Seq(S)
      /\ FlattenSeq(b) = FlattenSeq(a) \o seqs[i] /\ FlattenSeq(seqs) = FlattenSeq(b) \o FlattenSeq(c)
      /\ FlattenSeq(seqs) \in Seq(S)
  <2>1. FlattenSeq(a) \in Seq(S) /\ FlattenSeq(a \o x) = FlattenSeq(a) \o FlattenSeq(x)
    BY <1>2, FlattenConcat, Zenon
  <2>2. /\ FlattenSeq(b) \in Seq(S) /\ FlattenSeq(c) \in Seq(S)
        /\ FlattenSeq(b \o c) = FlattenSeq(b) \o FlattenSeq(c)
    BY <1>2, FlattenConcat, Zenon
  <2>3. FlattenSeq(b) \o FlattenSeq(c) \in Seq(S)
    BY <2>2, ConcatIs, Zenon
  <2> QED
    BY <1>3, <1>4, <1>5, <2>1, <2>2, <2>3
<1>7. PICK f, g, h, w, z : /\ f = FlattenSeq(a) /\ g = FlattenSeq(b) /\ h = FlattenSeq(c) /\ w = FlattenSeq(seqs)
                           /\ z = seqs[i]
  OBVIOUS
<1>8. f \in Seq(S) /\ g \in Seq(S) /\ h \in Seq(S) /\ w \in Seq(S) /\ z \in Seq(S) /\ g = f \o z /\ w = g \o h
  BY <1>2, <1>6, <1>7
<1>9. Len(g) = Len(f) + Len(z) /\ Len(w) = Len(g) + Len(h)
  BY <1>8
<1>10. Stands(z, w, Len(f))
  <2>1. Stands(w, w, 0)
    BY <1>8 DEF Stands
  <2>2. Stands(g, w, 0)
    <3>1. Stands(g \o h, w, 0) <=> Stands(g, w, 0) /\ Stands(h, w, 0 + Len(g))
      BY <1>8, StandsConcat
    <3> QED
      BY <1>8, <2>1, <3>1
  <2>3. Stands(f \o z, w, 0) <=> Stands(f, w, 0) /\ Stands(z, w, 0 + Len(f))
    BY <1>8, StandsConcat
  <2> QED
    BY <1>8, <2>2, <2>3
<1>11. Before(seqs, 0) = 0
  <2>1. PICK e : e = SubSeq(seqs, 1, 0)
    OBVIOUS
  <2>2. e = <<>>
    BY <2>1
  <2>3. FlattenSeq(e) = <<>>
    BY <2>2 DEF FlattenSeq
  <2>4. Len(FlattenSeq(e)) = 0
    BY <2>3
  <2> QED
    BY <2>1, <2>4, Zenon DEF Before
<1>12. Before(seqs, Len(seqs)) = Len(w)
  <2>1. SubSeq(seqs, 1, Len(seqs)) = seqs
    OBVIOUS
  <2> QED
    BY <1>7, <2>1 DEF Before
<1>13. Before(seqs, i - 1) = Len(f) /\ Before(seqs, i) = Len(g)
  BY <1>1, <1>7 DEF Before
<1> QED
  BY <1>7, <1>8, <1>9, <1>10, <1>11, <1>12, <1>13

\* std::search finds the first place where p stands, if there is one.
LEMMA SearchIs ==
  ASSUME NEW S, NEW s \in Seq(S), NEW p \in Seq(S), Len(p) > 0, NEW i \in 0..Len(s)
  PROVE  /\ Search(s, i, p) \in i..Len(s)
         /\ Search(s, i, p) < Len(s) => Stands(p, s, Search(s, i, p))
         /\ \A j \in i..Len(s) : Stands(p, s, j) => Search(s, i, p) <= j /\ Search(s, i, p) < Len(s)
<1> DEFINE hits == {j \in i..Len(s) - Len(p) : SubSeq(s, j + 1, j + Len(p)) = p}
           found == IF hits = {} THEN Len(s) ELSE CHOOSE j \in hits : \A k \in hits : j <= k
<1>1. Search(s, i, p) = found
  BY DEF Search
<1>2. \A j \in i..Len(s) : Stands(p, s, j) <=> j \in hits
  <2>1. TAKE j \in i..Len(s)
  <2>2. CASE j + Len(p) > Len(s)
    BY <2>2 DEF Stands
  <2>3. CASE j + Len(p) <= Len(s)
    <3>1. PICK u : u = SubSeq(s, j + 1, j + Len(p))
      OBVIOUS
    <3>2. u \in Seq(S) /\ Len(u) = Len(p) /\ \A k \in 1..Len(p) : u[k] = s[j + k]
      <4>1. PICK n \in Nat : n = Len(p)
        OBVIOUS
      <4>2. u = SubSeq(s, j + 1, j + n) /\ j \in Nat /\ j + n <= Len(s)
        BY <2>3, <3>1, <4>1
      <4>3. u \in Seq(S) /\ Len(u) = n /\ \A k \in 1..n : u[k] = s[j + k]
        BY <4>2
      <4> QED
        BY <4>1, <4>3
    <3>3. Stands(p, s, j) <=> \A k \in 1..Len(p) : p[k] = u[k]
      BY <2>3, <3>2 DEF Stands
    <3>4. u = p <=> \A k \in 1..Len(p) : p[k] = u[k]
      BY <3>2, SeqEqual
    <3>5. j \in i..Len(s) - Len(p)
      BY <2>3
    <3>6. j \in hits <=> u = p
      BY <3>1, <3>5
    <3> QED
      BY <3>3, <3>4, <3>6, Zenon
  <2> QED
    BY <2>2, <2>3
<1>5. hits \in SUBSET (i..Len(s) - Len(p)) /\ Len(s) \in Nat /\ Len(p) \in Nat /\ i \in Nat
  OBVIOUS
<1>6. hits = {} => found = Len(s)
  OBVIOUS
<1>7. hits # {} => found = CHOOSE j \in hits : \A k \in hits : j <= k
  OBVIOUS
<1> HIDE DEF hits, found
<1>3. CASE hits = {}
  <2>1. Search(s, i, p) = Len(s)
    BY <1>1, <1>3, <1>6
  <2>2. \A j \in i..Len(s) : ~Stands(p, s, j)
    BY <1>2, <1>3
  <2> QED
    BY <1>5, <2>1, <2>2
<1>4. CASE hits # {}
  <2>1. hits \in SUBSET Nat
    BY <1>5
  <2>2. \E j \in hits : \A k \in hits : j <= k
    BY <1>4, <2>1, LeastElement
  <2>3. found \in hits /\ \A k \in hits : found <= k
    BY <1>4, <1>7, <2>2, Zenon
  <2>4. found \in i..Len(s) - Len(p) /\ Len(s) \in Nat /\ Len(p) \in Nat
    BY <1>5, <2>3
  <2>5. \A j \in i..Len(s) : Stands(p, s, j) => found <= j
    BY <1>2, <2>3
  <2>6. Stands(p, s, found)
    BY <1>2, <2>3, <2>4
  <2> QED
    BY <1>1, <2>4, <2>5, <2>6
<1> QED
  BY <1>3, <1>4
-----------------------------------------------------------------------------
(* The boundary is in no part *)

\* A session has the type its declaration gives it.
LEMMA SessionIs ==
  ASSUME session \in Sessions
  PROVE  /\ session.parts \in Seq(Seq(Token)) /\ N \in Nat \ {0}
         /\ \A i \in 1..N : Data(i) \in Seq(Token) /\ Len(Data(i)) \in Nat
         /\ MIME \in BOOLEAN /\ session.preamble \in BOOLEAN /\ session.whole \in BOOLEAN
         /\ session.chunk \in Nat \ {0} /\ session.old \in Seq([id : Nat, data : Seq(Token)])
<1> HIDE DEF Token
<1>1. session \in SessionType /\ session.parts # <<>>
  BY AttachmentSessions
<1>2. session.parts \in Seq(Seq(Token)) /\ N \in Nat \ {0}
  BY <1>1 DEF SessionType, N
<1>3. \A i \in 1..N : Data(i) \in Seq(Token) /\ Len(Data(i)) \in Nat
  BY <1>2 DEF N, Data
<1> QED
  BY <1>1, <1>2, <1>3 DEF SessionType, MIME

\* What the tokens of a message are made of.
LEMMA TokensAre ==
  ASSUME NEW v \in Seq(Nat)
  PROVE  /\ CRLF \in Token /\ T("D", <<>>) \in Token /\ T("M", <<>>) \in Token /\ T("b", v) \in Token
         /\ T("H", v) \in Token /\ T("rec", v) \in Token /\ T("id", v) \in Token /\ T("type", v) \in Token
         /\ T("pad", <<>>) \in Token
<1>1. <<>> \in Seq(Nat)
  OBVIOUS
<1> QED
  BY <1>1 DEF Token, T, CRLF

\* Tokens, one after the other.
LEMMA TokensConcat ==
  ASSUME NEW x \in Seq(Token), NEW y \in Seq(Token)
  PROVE  /\ x \o y \in Seq(Token) /\ Len(x \o y) = Len(x) + Len(y)
         /\ \A k \in 1..Len(x) : (x \o y)[k] = x[k]
         /\ \A k \in 1..Len(y) : (x \o y)[Len(x) + k] = y[k]
BY ConcatIs

\* What tokens are cut into stands where it was.
LEMMA TokensCut ==
  ASSUME NEW x \in Seq(Token), NEW w \in Seq(Token), NEW p \in Nat, NEW k \in 0..Len(x), Stands(x, w, p)
  PROVE  /\ Stands(SubSeq(x, 1, k), w, p)
         /\ Stands(SubSeq(x, k + 1, Len(x)), w, p + k)
         /\ SubSeq(x, 1, k) \in Seq(Token) /\ Len(SubSeq(x, 1, k)) = k
         /\ SubSeq(x, k + 1, Len(x)) \in Seq(Token) /\ Len(SubSeq(x, k + 1, Len(x))) = Len(x) - k
BY StandsCut

\* The boundary is two tokens, and each of its other forms has more around it.
LEMMA BoundaryIs ==
  ASSUME NEW b \in Nat
  PROVE  /\ Boundary(b) \in Seq(Token) /\ Len(Boundary(b)) = 2
         /\ Boundary(b)[1] = T("M", <<>>) /\ Boundary(b)[2] = T("b", <<b>>)
         /\ TheBoundary(b) = <<CRLF, T("D", <<>>), T("M", <<>>), T("b", <<b>>)>>
         /\ TheBoundary(b) \in Seq(Token) /\ Len(TheBoundary(b)) = 4
         /\ TermBoundary(b) = <<CRLF, T("D", <<>>), T("M", <<>>), T("b", <<b>>), T("D", <<>>)>>
         /\ TermBoundary(b) \in Seq(Token) /\ Len(TermBoundary(b)) = 5
<1>1. <<b>> \in Seq(Nat)
  OBVIOUS
<1>2. CRLF \in Token /\ T("D", <<>>) \in Token /\ T("M", <<>>) \in Token /\ T("b", <<b>>) \in Token
  BY <1>1, TokensAre
<1>3. PICK n, d, m, x : n = CRLF /\ d = T("D", <<>>) /\ m = T("M", <<>>) /\ x = T("b", <<b>>)
  OBVIOUS
<1> HIDE DEF Token
<1>4. <<n, d>> \o <<m, x>> = <<n, d, m, x>> /\ <<n, d, m, x>> \o <<d>> = <<n, d, m, x, d>>
  <2>1. PICK a, c, e, f, g : /\ a = <<n, d>> /\ c = <<m, x>> /\ e = <<n, d, m, x>> /\ f = <<d>>
                             /\ g = <<n, d, m, x, d>>
    OBVIOUS
  <2>2. /\ a \in Seq(Token) /\ c \in Seq(Token) /\ e \in Seq(Token) /\ f \in Seq(Token) /\ g \in Seq(Token)
        /\ Len(a) = 2 /\ Len(c) = 2 /\ Len(e) = 4 /\ Len(f) = 1 /\ Len(g) = 5
    BY <1>2, <1>3, <2>1
  <2>3. a \o c = e
    <3>1. /\ a \o c \in Seq(Token) /\ Len(a \o c) = 4
          /\ (\A k \in 1..2 : (a \o c)[k] = a[k]) /\ \A k \in 1..2 : (a \o c)[2 + k] = c[k]
      <4>1. /\ a \o c \in Seq(Token) /\ Len(a \o c) = Len(a) + Len(c)
            /\ \A k \in 1..Len(a) : (a \o c)[k] = a[k]
            /\ \A k \in 1..Len(c) : (a \o c)[Len(a) + k] = c[k]
        BY <2>2, TokensConcat, Zenon
      <4> QED
        BY <2>2, <4>1
    <3>2. \A k \in 1..4 : (a \o c)[k] = e[k]
      BY <2>1, <3>1
    <3> QED
      BY <2>2, <3>1, <3>2, SeqEqual
  <2>4. e \o f = g
    <3>1. /\ e \o f \in Seq(Token) /\ Len(e \o f) = 5
          /\ (\A k \in 1..4 : (e \o f)[k] = e[k]) /\ \A k \in 1..1 : (e \o f)[4 + k] = f[k]
      <4>1. /\ e \o f \in Seq(Token) /\ Len(e \o f) = Len(e) + Len(f)
            /\ \A k \in 1..Len(e) : (e \o f)[k] = e[k]
            /\ \A k \in 1..Len(f) : (e \o f)[Len(e) + k] = f[k]
        BY <2>2, TokensConcat, Zenon
      <4> QED
        BY <2>2, <4>1
    <3>2. \A k \in 1..5 : (e \o f)[k] = g[k]
      BY <2>1, <3>1
    <3>3. PICK z : z = e \o f
      OBVIOUS
    <3>4. /\ z \in Seq(Token) /\ g \in Seq(Token) /\ Len(z) = Len(g)
          /\ \A k \in 1..Len(z) : z[k] = g[k]
      BY <2>2, <3>1, <3>2, <3>3
    <3>5. z = g
      BY <3>4, SeqEqual, Zenon
    <3> QED
      BY <3>3, <3>5, Zenon
  <2> QED
    BY <2>1, <2>3, <2>4
<1>5. Boundary(b) = <<m, x>> /\ TheBoundary(b) = <<n, d, m, x>> /\ TermBoundary(b) = <<n, d, m, x, d>>
  BY <1>3, <1>4 DEF Boundary, TheBoundary, TermBoundary
<1>6. n \in Token /\ d \in Token /\ m \in Token /\ x \in Token
  BY <1>2, <1>3
<1>7. <<m, x>> \in Seq(Token) /\ <<n, d, m, x>> \in Seq(Token) /\ <<n, d, m, x, d>> \in Seq(Token)
  BY <1>6
<1> QED
  BY <1>3, <1>5, <1>7

\* What stands in a part for certain.
LEMMA AbsentSearch ==
  ASSUME NEW s \in Seq(Token), boundary \in {0, 1}
  PROVE  Search(s, 0, Boundary(boundary)) = Len(s) <=> Absent(s, Len(s))
<1>1. PICK p : p = Boundary(boundary)
  OBVIOUS
<1>2. p \in Seq(Token) /\ Len(p) = 2 /\ p[1] = T("M", <<>>) /\ p[2] = T("b", <<boundary>>)
  BY <1>1, BoundaryIs
<1>3. 0 \in 0..Len(s) /\ Len(s) \in Nat
  OBVIOUS
<1>4. /\ Search(s, 0, p) \in 0..Len(s)
      /\ Search(s, 0, p) < Len(s) => Stands(p, s, Search(s, 0, p))
      /\ \A j \in 0..Len(s) : Stands(p, s, j) => Search(s, 0, p) <= j /\ Search(s, 0, p) < Len(s)
  <2>1. p \in Seq(Token) /\ Len(p) > 0
    BY <1>2
  <2> QED
    BY <1>3, <2>1, SearchIs, Zenon
<1>5. \A j \in 0..Len(s) : Stands(p, s, j) <=>
        j + 2 <= Len(s) /\ s[j + 1] = T("M", <<>>) /\ s[j + 2] = T("b", <<boundary>>)
  BY <1>2, <1>3 DEF Stands
<1>6. PICK r : r = Search(s, 0, p)
  OBVIOUS
<1>7. PICK m, x : m = T("M", <<>>) /\ x = T("b", <<boundary>>)
  OBVIOUS
<1>8. Absent(s, Len(s)) <=> \A k \in 1..Len(s) - 1 : ~(s[k] = m /\ s[k + 1] = x)
  BY <1>7 DEF Absent
<1>9. \A j \in 0..Len(s) : Stands(p, s, j) <=> j + 2 <= Len(s) /\ s[j + 1] = m /\ s[j + 2] = x
  BY <1>5, <1>7
<1>10. r \in 0..Len(s) /\ (r < Len(s) => Stands(p, s, r)) /\ \A j \in 0..Len(s) : Stands(p, s, j) => r < Len(s)
  BY <1>4, <1>6
<1>11. ASSUME r = Len(s), NEW k \in 1..Len(s) - 1, s[k] = m, s[k + 1] = x PROVE FALSE
  <2>1. k - 1 \in 0..Len(s) /\ (k - 1) + 2 <= Len(s) /\ (k - 1) + 1 = k /\ (k - 1) + 2 = k + 1
    BY <1>3
  <2>2. Stands(p, s, k - 1)
    BY <1>9, <1>11, <2>1
  <2> QED
    BY <1>3, <1>10, <1>11, <2>1, <2>2
<1>12. ASSUME r # Len(s) PROVE \E k \in 1..Len(s) - 1 : s[k] = m /\ s[k + 1] = x
  <2>1. r < Len(s) /\ r + 2 <= Len(s) /\ s[r + 1] = m /\ s[r + 2] = x
    BY <1>3, <1>9, <1>10, <1>12
  <2>2. r + 1 \in 1..Len(s) - 1 /\ (r + 1) + 1 = r + 2
    BY <1>3, <1>10, <2>1
  <2> QED
    BY <2>1, <2>2
<1> QED
  BY <1>1, <1>6, <1>8, <1>11, <1>12

\* A hit that is not in the first a tokens ends in what was read after them, and the window has
\* the token before.
LEMMA SeenAbsent ==
  ASSUME boundary \in {0, 1}, NEW d \in Seq(Token), NEW a \in 0..Len(d), NEW n \in Nat, a + n <= Len(d),
         NEW w \in Seq(Token), NEW seen \in Seq(Token), Len(w) <= a, a > 0 => Len(w) > 0,
         Len(seen) = Len(w) + n, Stands(seen, d, a - Len(w)), Absent(d, a), Absent(seen, Len(seen))
  PROVE  Absent(d, a + n)
<1>1. PICK m, x : m = T("M", <<>>) /\ x = T("b", <<boundary>>)
  OBVIOUS
<1>2. a \in Nat /\ n \in Nat /\ Len(w) \in Nat /\ Len(d) \in Nat
  OBVIOUS
<1>3. /\ \A k \in 1..a - 1 : ~(d[k] = m /\ d[k + 1] = x)
      /\ \A k \in 1..Len(seen) - 1 : ~(seen[k] = m /\ seen[k + 1] = x)
  BY <1>1 DEF Absent
<1>4. \A k \in 1..Len(seen) : seen[k] = d[a - Len(w) + k]
  BY DEF Stands
<1>5. ASSUME NEW k \in 1..(a + n) - 1 PROVE ~(d[k] = m /\ d[k + 1] = x)
  <2>1. CASE k \in 1..a - 1
    BY <1>3, <2>1
  <2>2. CASE k \notin 1..a - 1
    <3>1. PICK j : j = k - (a - Len(w))
      OBVIOUS
    <3>2. /\ j \in 1..Len(seen) - 1 /\ j \in 1..Len(seen) /\ j + 1 \in 1..Len(seen)
          /\ a - Len(w) + j = k /\ a - Len(w) + (j + 1) = k + 1
      BY <1>2, <2>2, <3>1
    <3>3. seen[j] = d[k] /\ seen[j + 1] = d[k + 1]
      <4>1. seen[j] = d[a - Len(w) + j] /\ seen[j + 1] = d[a - Len(w) + (j + 1)]
        BY <1>4, <3>2
      <4> QED
        BY <3>2, <4>1
    <3> QED
      BY <1>3, <3>2, <3>3
  <2> QED
    BY <2>1, <2>2
<1> QED
  BY <1>1, <1>5 DEF Absent

\* A piece of a sequence stands where it was taken from.
LEMMA PieceIs ==
  ASSUME NEW d \in Seq(Token), NEW a \in Nat, NEW n \in Nat, a + n <= Len(d)
  PROVE  /\ SubSeq(d, a + 1, a + n) \in Seq(Token) /\ Len(SubSeq(d, a + 1, a + n)) = n
         /\ (SubSeq(d, a + 1, a + n) = <<>> <=> n = 0) /\ Stands(SubSeq(d, a + 1, a + n), d, a)
<1>1. PICK u : u = SubSeq(d, a + 1, a + n)
  OBVIOUS
<1>2. u \in Seq(Token) /\ Len(u) = n /\ \A k \in 1..n : u[k] = d[a + k]
  BY <1>1
<1>3. u = <<>> <=> n = 0
  BY <1>2
<1>4. Stands(u, d, a)
  BY <1>2 DEF Stands
<1> QED
  BY <1>1, <1>2, <1>3, <1>4

\* So does what a read of at most so much gives.
LEMMA BytesStand ==
  ASSUME NEW d \in Seq(Token), NEW a \in 0..Len(d), NEW e \in Nat, e >= a
  PROVE  \E n \in Nat :
           /\ Least(e, Len(d)) = a + n /\ a + n <= Len(d)
           /\ SubSeq(d, a + 1, Least(e, Len(d))) = SubSeq(d, a + 1, a + n)
<1>1. PICK m : m = Least(e, Len(d))
  OBVIOUS
<1>2. m \in a..Len(d) /\ m \in Nat /\ a \in Nat /\ Len(d) \in Nat
  BY <1>1 DEF Least
<1>3. PICK n \in Nat : m = a + n
  <2>1. m - a \in Nat /\ m = a + (m - a)
    BY <1>2
  <2> QED
    BY <2>1
<1>4. a + n <= Len(d)
  BY <1>2, <1>3
<1>5. Least(e, Len(d)) = a + n
  BY <1>1, <1>3
<1> QED
  BY <1>4, <1>5

\* A read of boundaryInPart that finds nothing leaves the buffer with an end of what it has seen.
LEMMA CheckStep ==
  ASSUME CheckInv, CheckBoundary
  PROVE  CheckInv'
<1>1. /\ session \in Sessions /\ boundary \in {0, 1} /\ pc = "check" /\ Seen
      /\ session' = session
  BY DEF CheckInv, CheckBoundary
<1>2. /\ N \in Nat \ {0} /\ (\A i \in 1..N : Data(i) \in Seq(Token) /\ Len(Data(i)) \in Nat)
      /\ N' = N /\ MIME' = MIME /\ \A i : Data(i)' = Data(i)
  <2>1. N \in Nat \ {0} /\ (\A i \in 1..N : Data(i) \in Seq(Token) /\ Len(Data(i)) \in Nat)
    BY <1>1, SessionIs
  <2>2. N' = N /\ MIME' = MIME /\ \A i : Data(i)' = Data(i)
    BY <1>1 DEF N, MIME, Data
  <2> QED
    BY <2>1, <2>2
<1>3. PICK part, a, w, d : part = at[1] /\ a = at[2] /\ w = window /\ d = Data(part)
  OBVIOUS
<1>4. /\ part \in 1..N /\ d \in Seq(Token) /\ a \in 0..Len(d) /\ MIME
      /\ \A i \in 1..part - 1 : Absent(Data(i), Len(Data(i)))
      /\ Absent(d, a)
      /\ w \in Seq(Token) /\ Len(w) <= a /\ Len(w) <= 2 /\ (a > 0 => Len(w) > 0)
      /\ Stands(w, d, a - Len(w))
  BY <1>1, <1>2, <1>3 DEF Seen
<1>5. PICK space : space = IF w = <<>> THEN BUFF - 1 ELSE BUFF - Len(w)
  OBVIOUS
<1>6. space \in Nat /\ space > 0
  BY <1>4, <1>5, AttachmentConstants
<1>7. PICK bytes : bytes = SubSeq(d, a + 1, Least(a + space, Len(d)))
  OBVIOUS
<1>8. /\ bytes \in Seq(Token) /\ Stands(bytes, d, a) /\ a + Len(bytes) = Least(a + space, Len(d))
      /\ (bytes = <<>> <=> a = Least(a + space, Len(d)))
  <2>1. PICK e : e = a + space
    OBVIOUS
  <2>2. e \in Nat /\ e >= a /\ bytes = SubSeq(d, a + 1, Least(e, Len(d)))
    BY <1>4, <1>6, <1>7, <2>1
  <2>3. PICK n \in Nat : /\ Least(e, Len(d)) = a + n /\ a + n <= Len(d)
                         /\ SubSeq(d, a + 1, Least(e, Len(d))) = SubSeq(d, a + 1, a + n)
    BY <1>4, <2>2, BytesStand
  <2>4. a \in Nat /\ bytes = SubSeq(d, a + 1, a + n)
    BY <1>4, <2>2, <2>3
  <2>5. bytes \in Seq(Token) /\ Len(bytes) = n /\ (bytes = <<>> <=> n = 0) /\ Stands(bytes, d, a)
    BY <1>4, <2>3, <2>4, PieceIs
  <2>6. a + Len(bytes) = Least(a + space, Len(d))
    BY <2>1, <2>3, <2>5
  <2>7. a = Least(a + space, Len(d)) <=> n = 0
    BY <2>1, <2>3, <2>4
  <2> QED
    BY <2>5, <2>6, <2>7, Zenon
<1>9. /\ Len(bytes) \in Nat /\ a \in Nat /\ Len(d) \in Nat /\ Len(w) \in Nat /\ a + Len(bytes) <= Len(d)
      /\ (bytes = <<>> <=> a = Len(d)) /\ (bytes = <<>> <=> Len(bytes) = 0)
  BY <1>4, <1>6, <1>8 DEF Least
<1>10. PICK seen : seen = w \o bytes
  OBVIOUS
<1>11. seen \in Seq(Token) /\ Len(seen) = Len(w) + Len(bytes) /\ Stands(seen, d, a - Len(w))
  <2>1. seen \in Seq(Token) /\ Len(seen) = Len(w) + Len(bytes)
    BY <1>4, <1>8, <1>10
  <2>2. a - Len(w) \in Nat /\ a - Len(w) + Len(w) = a
    BY <1>4, <1>9
  <2>3. Stands(w \o bytes, d, a - Len(w)) <=> Stands(w, d, a - Len(w)) /\ Stands(bytes, d, a - Len(w) + Len(w))
    BY <1>4, <1>8, <2>2, StandsConcat
  <2> QED
    BY <1>4, <1>8, <1>10, <2>1, <2>2, <2>3
<1>12. CASE Search(seen, 0, Boundary(boundary)) # Len(seen)
  <2>1. boundary' \in {0, 1} /\ at' = <<1, 0>> /\ window' = <<>> /\ pc' = "check"
    BY <1>1, <1>3, <1>5, <1>7, <1>10, <1>12 DEF CheckBoundary
  <2>2. at'[1] = 1 /\ at'[2] = 0
    BY <2>1
  <2>3. Data(1) \in Seq(Token) /\ 1 \in 1..N
    BY <1>2
  <2>4. Seen'
    <3>1. \A i \in 1..0 : Absent(Data(i), Len(Data(i)))'
      OBVIOUS
    <3>2. Absent(Data(1), 0)'
      BY DEF Absent
    <3>3. <<>> \in Seq(Token) /\ Len(<<>>) = 0 /\ Stands(<<>>, Data(1), 0)
      BY <2>3 DEF Stands
    <3>4. Data(1)' = Data(1) /\ 0 \in 0..Len(Data(1)) /\ 0 - 0 = 0 /\ 1 - 1 = 0
      BY <1>2, <2>3
    <3> QED
      BY <1>2, <1>4, <2>1, <2>2, <2>3, <3>1, <3>2, <3>3, <3>4 DEF Seen
  <2> QED
    BY <1>1, <2>1, <2>4 DEF CheckInv
<1>13. CASE Search(seen, 0, Boundary(boundary)) = Len(seen)
  <2>1. /\ boundary' = boundary
        /\ IF bytes # <<>> THEN /\ at' = <<part, a + Len(bytes)>>
                                /\ window' = Kept(seen, Least(Len(Boundary(boundary)), Len(bytes)))
                           ELSE at' = <<part + 1, 0>> /\ window' = <<>>
        /\ pc' = IF bytes = <<>> /\ part = N THEN "ask" ELSE "check"
    BY <1>1, <1>3, <1>5, <1>7, <1>10, <1>13 DEF CheckBoundary
  <2>2. Absent(seen, Len(seen))
    BY <1>1, <1>11, <1>13, AbsentSearch
  <2>3. Absent(d, a + Len(bytes))
    BY <1>1, <1>4, <1>9, <1>11, <2>2, SeenAbsent
  <2>4. \A s, n : Absent(s, n)' <=> Absent(s, n)
    BY <2>1 DEF Absent
  <2>5. CASE bytes # <<>>
    <3>1. PICK m : m = Least(Len(Boundary(boundary)), Len(bytes))
      OBVIOUS
    <3>2. m \in 1..2 /\ m <= Len(bytes)
      <4>1. Len(Boundary(boundary)) = 2
        <5>1. boundary \in Nat
          BY <1>1
        <5> QED
          BY <5>1, BoundaryIs
      <4>2. PICK n \in Nat : n = Len(bytes)
        BY <1>9
      <4>3. m = Least(2, n) /\ n # 0
        BY <1>9, <2>5, <3>1, <4>1, <4>2
      <4>4. m \in 1..2 /\ m <= n
        BY <4>3 DEF Least
      <4> QED
        BY <4>2, <4>4
    <3>3. PICK v : v = SubSeq(seen, Len(seen) - m + 1, Len(seen))
      OBVIOUS
    <3>4. at'[1] = part /\ at'[2] = a + Len(bytes) /\ window' = v /\ pc' = "check"
      BY <2>1, <2>5, <3>1, <3>3 DEF Kept, From
    <3>5. v \in Seq(Token) /\ Len(v) = m /\ Stands(v, d, a + Len(bytes) - m)
      <4>1. PICK q : q = Len(seen) - m
        OBVIOUS
      <4>2. q \in 0..Len(seen) /\ v = SubSeq(seen, q + 1, Len(seen)) /\ Len(seen) - q = m
            /\ (a - Len(w)) + q = a + Len(bytes) - m
        BY <1>4, <1>9, <1>11, <3>2, <3>3, <4>1
      <4>3. PICK p \in Nat : p = a - Len(w)
        BY <1>4, <1>9
      <4>4. Stands(seen, d, p)
        BY <1>11, <4>3
      <4>5. Stands(v, d, p + q) /\ v \in Seq(Token) /\ Len(v) = Len(seen) - q
        <5>2. seen \in Seq(Token) /\ d \in Seq(Token) /\ p \in Nat /\ q \in 0..Len(seen) /\ Stands(seen, d, p)
          BY <1>4, <1>11, <4>2, <4>3, <4>4
        <5>1. /\ Stands(SubSeq(seen, q + 1, Len(seen)), d, p + q) /\ SubSeq(seen, q + 1, Len(seen)) \in Seq(Token)
              /\ Len(SubSeq(seen, q + 1, Len(seen))) = Len(seen) - q
          BY <5>2, TokensCut
        <5> QED
          BY <4>2, <5>1
      <4> QED
        BY <4>2, <4>3, <4>5
    <3>6. Seen'
      <4>1. a + Len(bytes) \in 0..Len(d) /\ m <= a + Len(bytes) /\ m <= 2 /\ m > 0
        BY <1>9, <3>2
      <4>2. Absent(Data(part), a + Len(bytes))'
        BY <1>2, <1>3, <2>3, <2>4, Zenon
      <4>3. \A i \in 1..part - 1 : Absent(Data(i), Len(Data(i)))'
        BY <1>2, <1>4, <2>4
      <4> QED
        BY <1>2, <1>3, <1>4, <3>4, <3>5, <4>1, <4>2, <4>3 DEF Seen
    <3> QED
      BY <1>1, <2>1, <3>4, <3>6 DEF CheckInv
  <2>6. CASE bytes = <<>> /\ part = N
    <3>1. \A i \in 1..N : Absent(Data(i), Len(Data(i)))
      <4>1. \A i \in 1..N : i \in 1..part - 1 \/ i = part
        BY <1>2, <2>6
      <4> QED
        BY <1>3, <1>4, <1>9, <2>3, <2>6, <4>1
    <3>2. NoPartHasIt'
      BY <1>2, <2>4, <3>1 DEF NoPartHasIt
    <3> QED
      BY <1>1, <2>1, <2>6, <3>2 DEF CheckInv
  <2>7. CASE bytes = <<>> /\ part # N
    <3>1. at'[1] = part + 1 /\ at'[2] = 0 /\ window' = <<>> /\ pc' = "check" /\ part + 1 \in 1..N
      BY <1>2, <1>4, <2>1, <2>7
    <3>2. \A i \in 1..(part + 1) - 1 : Absent(Data(i), Len(Data(i)))
      <4>1. \A i \in 1..(part + 1) - 1 : i \in 1..part - 1 \/ i = part
        BY <1>2, <1>4
      <4> QED
        BY <1>3, <1>4, <1>9, <2>3, <2>7, <4>1
    <3>3. PICK e : e = Data(part + 1)
      OBVIOUS
    <3>4. e \in Seq(Token)
      BY <1>2, <3>1, <3>3
    <3>5. Absent(e, 0)
      BY DEF Absent
    <3>6. <<>> \in Seq(Token) /\ Len(<<>>) = 0 /\ Stands(<<>>, e, 0) /\ 0 \in 0..Len(e) /\ 0 - 0 = 0
      BY <3>4 DEF Stands
    <3>7. Seen'
      BY <1>2, <1>4, <2>4, <3>1, <3>2, <3>3, <3>5, <3>6 DEF Seen
    <3> QED
      BY <1>1, <2>1, <3>1, <3>7 DEF CheckInv
  <2> QED
    BY <2>5, <2>6, <2>7
<1> QED
  BY <1>12, <1>13
-----------------------------------------------------------------------------
(* The message, and where it is *)

\* What fits and what does not.
LEMMA UptoFrom ==
  ASSUME NEW s \in Seq(Token), NEW n \in Nat
  PROVE  \E m \in 0..Len(s) :
           /\ m = Least(n, Len(s))
           /\ Upto(s, n) \in Seq(Token) /\ Len(Upto(s, n)) = m
           /\ From(s, n + 1) \in Seq(Token) /\ Len(From(s, n + 1)) = Len(s) - m
           /\ \A w \in Seq(Token), p \in Nat :
                Stands(s, w, p) => Stands(Upto(s, n), w, p) /\ Stands(From(s, n + 1), w, p + m)
<1>1. PICK m : m = Least(n, Len(s))
  OBVIOUS
<1>2. m \in 0..Len(s) /\ Len(s) \in Nat /\ m \in Nat
  BY <1>1 DEF Least
<1>3. Upto(s, n) = SubSeq(s, 1, m)
  BY <1>1 DEF Upto
<1>4. SubSeq(s, 1, m) \in Seq(Token) /\ Len(SubSeq(s, 1, m)) = m
  BY <1>2
<1>5. From(s, n + 1) = SubSeq(s, m + 1, Len(s))
  <2>1. CASE n <= Len(s)
    <3>1. m = n
      BY <1>1, <1>2, <2>1 DEF Least
    <3> QED
      BY <3>1, Zenon DEF From
  <2>2. CASE n > Len(s)
    <3>1. m = Len(s)
      BY <1>1, <1>2, <2>2 DEF Least
    <3>2. SubSeq(s, n + 1, Len(s)) = <<>> /\ SubSeq(s, m + 1, Len(s)) = <<>>
      BY <1>2, <2>2, <3>1
    <3> QED
      BY <3>2 DEF From
  <2>3. n <= Len(s) \/ n > Len(s)
    BY <1>2
  <2> QED
    BY <2>1, <2>2, <2>3, Zenon
<1>6. SubSeq(s, m + 1, Len(s)) \in Seq(Token) /\ Len(SubSeq(s, m + 1, Len(s))) = Len(s) - m
  BY <1>2
<1>7. ASSUME NEW w \in Seq(Token), NEW p \in Nat, Stands(s, w, p)
      PROVE  Stands(SubSeq(s, 1, m), w, p) /\ Stands(SubSeq(s, m + 1, Len(s)), w, p + m)
  BY <1>2, <1>7, TokensCut
<1> QED
  BY <1>1, <1>2, <1>3, <1>4, <1>5, <1>6, <1>7

\* r is the header of a record.
IsRecord(r, i, b, e, c, m, n) ==
  /\ r \in Seq(Token) /\ Len(r) = 1 + 2 * Flag(m)
  /\ r[1] = T("rec", <<Flag(b), Flag(e), Flag(c), Flag(m), n>>)
  /\ Flag(m) = 1 => r[2] = T("id", <<i>>)

\* What a record's header is made of.
LEMMA RecordIs ==
  ASSUME NEW i \in Nat, NEW b, NEW e, NEW c, NEW m, NEW n \in Nat
  PROVE  IsRecord(Record(i, b, e, c, m, n), i, b, e, c, m, n)
<1>1. Flag(b) \in Nat /\ Flag(e) \in Nat /\ Flag(c) \in Nat /\ Flag(m) \in Nat
  BY DEF Flag
<1>2. <<Flag(b), Flag(e), Flag(c), Flag(m), n>> \in Seq(Nat) /\ <<i>> \in Seq(Nat)
  BY <1>1
<1>3. PICK r, x, y : r = T("rec", <<Flag(b), Flag(e), Flag(c), Flag(m), n>>) /\ x = T("id", <<i>>) /\ y = T("type", <<i>>)
  OBVIOUS
<1>4. r \in Token /\ x \in Token /\ y \in Token
  BY <1>2, <1>3, TokensAre
<1>5. PICK u, v : u = <<r>> /\ v = IF m THEN <<x, y>> ELSE <<>>
  OBVIOUS
<1>6. u \in Seq(Token) /\ Len(u) = 1 /\ u[1] = r
  BY <1>4, <1>5
<1>7. v \in Seq(Token) /\ Len(v) = 2 * Flag(m) /\ (Flag(m) = 1 => v[1] = x)
  <2>1. <<x, y>> \in Seq(Token) /\ Len(<<x, y>>) = 2 /\ <<x, y>>[1] = x
    BY <1>4
  <2>2. <<>> \in Seq(Token) /\ Len(<<>>) = 0
    OBVIOUS
  <2> QED
    BY <1>5, <2>1, <2>2 DEF Flag
<1>8. Record(i, b, e, c, m, n) = u \o v
  BY <1>3, <1>5 DEF Record
<1>9. /\ u \o v \in Seq(Token) /\ Len(u \o v) = Len(u) + Len(v)
      /\ \A k \in 1..Len(u) : (u \o v)[k] = u[k]
      /\ \A k \in 1..Len(v) : (u \o v)[Len(u) + k] = v[k]
  BY <1>6, <1>7, TokensConcat
<1>10. (u \o v)[1] = r /\ (Flag(m) = 1 => (u \o v)[2] = x)
  <2>1. Flag(m) = 1 => 1 \in 1..Len(v) /\ Len(u) + 1 = 2
    BY <1>6, <1>7 DEF Flag
  <2>2. 1 \in 1..Len(u)
    BY <1>6
  <2> QED
    BY <1>6, <1>7, <1>9, <2>1, <2>2
<1>11. PICK q : q = u \o v
  OBVIOUS
<1>12. q \in Seq(Token) /\ Len(q) = 1 + 2 * Flag(m)
  BY <1>6, <1>7, <1>9, <1>11
<1> QED
  BY <1>3, <1>8, <1>10, <1>11, <1>12, Zenon DEF IsRecord

\* What is put after a payload.
LEMMA PaddingIs ==
  ASSUME NEW n \in Nat
  PROVE  PadTo(n) \in Nat /\ Padding(PadTo(n)) \in Seq(Token) /\ Len(Padding(PadTo(n))) = PadTo(n)
<1>1. PadTo(n) \in Nat
  BY DEF PadTo, ALIGN
<1>2. PICK m \in Nat : m = PadTo(n)
  BY <1>1
<1>3. T("pad", <<>>) \in Token
  <2>1. <<>> \in Seq(Nat)
    OBVIOUS
  <2> QED
    BY <2>1, TokensAre
<1>4. PICK s : s = Padding(m)
  OBVIOUS
<1>5. s \in [1..m -> Token]
  BY <1>3, <1>4 DEF Padding
<1>6. s \in Seq(Token) /\ Len(s) = m
  BY <1>5
<1> QED
  BY <1>2, <1>4, <1>6

\* What is around the payload of a part.
LEMMA AroundIs ==
  ASSUME session \in Sessions, boundary \in {0, 1}, NEW i \in 1..N
  PROVE  /\ HeaderOf(i) \in Seq(Token) /\ Len(HeaderOf(i)) > 0 /\ TrailerOf(i) \in Seq(Token)
         /\ MIME => HeaderOf(i) = TheBoundary(boundary) \o <<CRLF, T("H", <<i>>), CRLF, CRLF>>
                    /\ Len(HeaderOf(i)) = 8 /\ Len(TrailerOf(i)) = IF i = N THEN 6 ELSE 0
<1>1. N \in Nat \ {0} /\ Data(i) \in Seq(Token) /\ Len(Data(i)) \in Nat /\ MIME \in BOOLEAN /\ boundary \in Nat
  BY SessionIs
<1>2. CASE MIME
  <2>1. PICK b, t, h, e : /\ b = TheBoundary(boundary) /\ t = TermBoundary(boundary)
                          /\ h = <<CRLF, T("H", <<i>>), CRLF, CRLF>> /\ e = <<CRLF>>
    OBVIOUS
  <2>2. b \in Seq(Token) /\ Len(b) = 4 /\ t \in Seq(Token) /\ Len(t) = 5
    BY <1>1, <2>1, BoundaryIs
  <2>3. h \in Seq(Token) /\ Len(h) = 4 /\ e \in Seq(Token) /\ Len(e) = 1
    <3>1. <<i>> \in Seq(Nat)
      BY <1>1
    <3>2. CRLF \in Token /\ T("H", <<i>>) \in Token
      BY <3>1, TokensAre
    <3> QED
      BY <2>1, <3>2
  <2>4. b \o h \in Seq(Token) /\ Len(b \o h) = 8 /\ t \o e \in Seq(Token) /\ Len(t \o e) = 6
    <3>1. /\ b \o h \in Seq(Token) /\ Len(b \o h) = Len(b) + Len(h)
          /\ t \o e \in Seq(Token) /\ Len(t \o e) = Len(t) + Len(e)
      BY <2>2, <2>3, TokensConcat
    <3> QED
      BY <2>2, <2>3, <3>1
  <2>5. HeaderOf(i) = b \o h /\ TrailerOf(i) = IF i = N THEN t \o e ELSE <<>>
    BY <1>2, <2>1 DEF HeaderOf, TrailerOf
  <2>6. <<>> \in Seq(Token) /\ Len(<<>>) = 0
    OBVIOUS
  <2> QED
    BY <2>1, <2>4, <2>5, <2>6
<1>3. CASE ~MIME
  <2>1. PICK p, e, c, m, n : p = (i = 1) /\ e = (i = N) /\ c = FALSE /\ m = TRUE /\ n = Len(Data(i))
    OBVIOUS
  <2>2. HeaderOf(i) = Record(i, p, e, c, m, n) /\ TrailerOf(i) = Padding(PadTo(n))
    BY <1>3, <2>1 DEF HeaderOf, TrailerOf
  <2>3. i \in Nat /\ n \in Nat
    BY <1>1, <2>1
  <2>4. /\ Record(i, p, e, c, m, n) \in Seq(Token)
        /\ Len(Record(i, p, e, c, m, n)) = 1 + 2 * Flag(m)
    <3>1. IsRecord(Record(i, p, e, c, m, n), i, p, e, c, m, n)
      BY <2>3, RecordIs, Zenon
    <3> QED
      BY <3>1, Zenon DEF IsRecord
  <2>5. Flag(m) = 1
    BY <2>1 DEF Flag
  <2>6. TrailerOf(i) \in Seq(Token)
    BY <2>2, <2>3, PaddingIs
  <2>7. HeaderOf(i) \in Seq(Token) /\ Len(HeaderOf(i)) > 0
    <3>1. PICK h : h = HeaderOf(i)
      OBVIOUS
    <3>2. h \in Seq(Token) /\ Len(h) = 1 + 2 * 1
      BY <2>2, <2>4, <2>5, <3>1, Zenon
    <3> QED
      BY <3>1, <3>2
  <2> QED
    BY <1>3, <2>6, <2>7
<1> QED
  BY <1>1, <1>2, <1>3

\* Header, payload and trailer of a part are where those of the parts before end.
LEMMA SectionStands ==
  ASSUME session \in Sessions, boundary \in {0, 1}, NEW i \in 1..N
  PROVE  /\ Packaged \in Seq(Token) /\ At(1) = 0 /\ At(i) \in Nat
         /\ At(i + 1) = At(i) + Len(HeaderOf(i)) + Len(Data(i)) + Len(TrailerOf(i))
         /\ At(N + 1) = Len(Packaged)
         /\ Stands(HeaderOf(i), Packaged, At(i))
         /\ Stands(Data(i), Packaged, At(i) + Len(HeaderOf(i)))
         /\ Stands(TrailerOf(i), Packaged, At(i) + Len(HeaderOf(i)) + Len(Data(i)))
<1>1. N \in Nat \ {0} /\ \A k \in 1..N : Data(k) \in Seq(Token) /\ Len(Data(k)) \in Nat
  BY SessionIs
<1>2. \A k \in 1..N : HeaderOf(k) \in Seq(Token) /\ TrailerOf(k) \in Seq(Token)
  BY AroundIs
<1>3. \A k \in 1..N : (HeaderOf(k) \o Data(k)) \o TrailerOf(k) \in Seq(Token)
  <2>1. \A x, y, z \in Seq(Token) : (x \o y) \o z \in Seq(Token)
    OBVIOUS
  <2> QED
    BY <1>1, <1>2, <2>1
<1>4. PICK q : q = Sections
  OBVIOUS
<1>5. q \in Seq(Seq(Token)) /\ Len(q) = N /\ \A k \in 1..N : q[k] = (HeaderOf(k) \o Data(k)) \o TrailerOf(k)
  <2>1. q = [k \in 1..N |-> (HeaderOf(k) \o Data(k)) \o TrailerOf(k)]
    BY <1>4 DEF Sections
  <2>2. q \in [1..N -> Seq(Token)]
    BY <1>3, <2>1
  <2>3. q \in Seq(Seq(Token)) /\ Len(q) = N
    BY <1>1, <2>2
  <2> QED
    BY <2>1, <2>3
<1>6. PICK w : w = Packaged
  OBVIOUS
<1>7. w = FlattenSeq(q)
  BY <1>4, <1>6 DEF Packaged, Sections
<1>8. /\ w \in Seq(Token) /\ Before(q, 0) = 0 /\ Before(q, i - 1) \in Nat
      /\ Before(q, i) = Before(q, i - 1) + Len(q[i])
      /\ Before(q, N) = Len(w)
      /\ Stands(q[i], w, Before(q, i - 1))
  BY <1>5, <1>7, BeforeIs
<1>9. /\ At(1) = Before(q, 0) /\ At(i) = Before(q, i - 1) /\ At(i + 1) = Before(q, i) /\ At(N + 1) = Before(q, N)
  <2>1. 1 - 1 = 0 /\ (i + 1) - 1 = i /\ (N + 1) - 1 = N
    BY <1>1
  <2> QED
    BY <1>4, <2>1 DEF At
<1>10. PICK h, d, t, p : h = HeaderOf(i) /\ d = Data(i) /\ t = TrailerOf(i) /\ p = At(i)
  OBVIOUS
<1>11. /\ h \in Seq(Token) /\ d \in Seq(Token) /\ t \in Seq(Token) /\ p \in Nat
       /\ Stands((h \o d) \o t, w, p) /\ Len((h \o d) \o t) = Len(h) + Len(d) + Len(t)
  <2>1. h \in Seq(Token) /\ d \in Seq(Token) /\ t \in Seq(Token) /\ p \in Nat
    BY <1>1, <1>2, <1>8, <1>9, <1>10
  <2>2. Stands((h \o d) \o t, w, p)
    BY <1>5, <1>8, <1>9, <1>10
  <2> QED
    BY <2>1, <2>2
<1>12. Stands(h \o d, w, p) /\ Stands(t, w, p + Len(h \o d))
  <2>1. h \o d \in Seq(Token)
    BY <1>11
  <2> QED
    BY <1>8, <1>11, <2>1, StandsConcat
<1>13. Stands(h, w, p) /\ Stands(d, w, p + Len(h))
  BY <1>8, <1>11, <1>12, StandsConcat
<1>14. Len(h \o d) = Len(h) + Len(d) /\ p + (Len(h) + Len(d)) = p + Len(h) + Len(d)
  BY <1>11
<1>15. At(i + 1) = p + Len(h) + Len(d) + Len(t)
  <2>1. Len(q[i]) = Len(h) + Len(d) + Len(t)
    BY <1>5, <1>10, <1>11
  <2> QED
    BY <1>8, <1>9, <1>10, <1>11, <2>1
<1> QED
  BY <1>6, <1>8, <1>9, <1>10, <1>12, <1>13, <1>14, <1>15
-----------------------------------------------------------------------------
(* The message is read twice *)

\* A session does not change, and a boundary that was found good neither.
LEMMA SameMessage ==
  ASSUME UNCHANGED <<session, boundary>>
  PROVE  /\ N' = N /\ MIME' = MIME /\ Packaged' = Packaged /\ Sections' = Sections
         /\ \A i : Data(i)' = Data(i) /\ HeaderOf(i)' = HeaderOf(i) /\ TrailerOf(i)' = TrailerOf(i) /\ At(i)' = At(i)
<1>1. session' = session /\ boundary' = boundary
  OBVIOUS
<1>2. N' = N /\ MIME' = MIME /\ \A i : Data(i)' = Data(i)
  BY <1>1 DEF N, MIME, Data
<1>3. \A i : HeaderOf(i)' = HeaderOf(i) /\ TrailerOf(i)' = TrailerOf(i)
  BY <1>1, <1>2, Zenon DEF HeaderOf, TrailerOf
<1>4. Sections' = Sections
  BY <1>2, <1>3, Zenon DEF Sections
<1>5. Packaged' = Packaged
  BY <1>2, <1>3, Zenon DEF Packaged
<1>6. \A i : At(i)' = At(i)
  BY <1>4, Zenon DEF At
<1> QED
  BY <1>2, <1>3, <1>4, <1>5, <1>6

\* Before a pass nothing was told.
LEMMA PassStarts ==
  session \in Sessions /\ boundary \in {0, 1} /\ pc = "ask" /\ AtStart /\ got \in Seq(Token) /\ cb \in Nat => PassInv
<1> SUFFICES ASSUME session \in Sessions, boundary \in {0, 1}, pc = "ask", AtStart, got \in Seq(Token), cb \in Nat
             PROVE  PassInv
  OBVIOUS
<1>1. N \in Nat \ {0} /\ 1 \in 1..N /\ Data(1) \in Seq(Token) /\ Len(Data(1)) \in Nat
  BY SessionIs
<1>2. Packaged \in Seq(Token) /\ At(1) = 0
  BY <1>1, SectionStands
<1>3. cur = 1 /\ pos = WRITE_HEADER /\ rpos = [i \in 1..N |-> 0] /\ rbuf = <<>> /\ out = <<>>
  BY DEF AtStart
<1>4. Cursor
  <2>1. rpos \in [1..N -> Nat] /\ \A i \in 1..N : rpos[i] = 0
    BY <1>3
  <2>2. cur \in 1..N + 1 /\ cur # N + 1 /\ cur \in 1..N /\ \A i \in cur + 1..N : i \in 1..N
    BY <1>1, <1>3
  <2>3. rpos[cur] = 0 /\ Data(cur) = Data(1)
    BY <1>3, <2>1, <2>2
  <2> QED
    BY <1>1, <1>3, <2>1, <2>2, <2>3 DEF Cursor
<1>5. Current = <<>> /\ Offset = 0
  BY <1>2, <1>3 DEF Current, Offset
<1>6. <<>> \in Seq(Token) /\ Len(<<>>) = 0 /\ Stands(<<>>, Packaged, 0) /\ 0 + 0 = 0 /\ 0 + 0 + 0 = 0
  BY <1>2 DEF Stands
<1> QED
  BY <1>3, <1>4, <1>5, <1>6, Zenon DEF PassInv

\* The same of the state that a step leads to.
LEMMA PassStartsNext ==
  (session \in Sessions /\ boundary \in {0, 1} /\ pc = "ask" /\ AtStart /\ got \in Seq(Token) /\ cb \in Nat)' => PassInv'
BY PassStarts, PTL

\* While there is room m_readBuffer is empty.
LEMMA RoomIsLeft ==
  ASSUME PassInv, pc = "fill", cb > 0
  PROVE  rbuf = <<>> /\ Current = got /\ Len(out) + Len(got) = Offset /\ Len(out) \in Nat /\ Len(got) \in Nat
<1>1. rbuf = <<>> /\ Current = got
  BY DEF PassInv, Current
<1>2. Len(out) + Len(Current) + Len(rbuf) = Offset /\ Len(out) \in Nat /\ Len(got) \in Nat
  BY DEF PassInv
<1> QED
  BY <1>1, <1>2

\* What a read puts down is the next of the message, in its buffer and in m_readBuffer.
LEMMA PutsKeeps ==
  ASSUME session \in Sessions, boundary \in {0, 1}, PassInv, pc = "fill", cb > 0,
         NEW s \in Seq(Token), Packaged \in Seq(Token), Stands(s, Packaged, Offset), Puts(s)
  PROVE  /\ got' \in Seq(Token) /\ rbuf' \in Seq(Token) /\ cb' \in Nat
         /\ Stands(got', Packaged, Len(out)) /\ Stands(rbuf', Packaged, Len(out) + Len(got'))
         /\ Len(out) + Len(got') + Len(rbuf') = Offset + Len(s)
         /\ (rbuf' # <<>> => cb' = 0) /\ (got' = <<>> => cb' > 0)
<1>1. /\ rbuf = <<>> /\ Len(out) + Len(got) = Offset /\ Len(out) \in Nat /\ Len(got) \in Nat
      /\ got \in Seq(Token) /\ cb \in Nat /\ Stands(got, Packaged, Len(out))
  <2>1. rbuf = <<>> /\ Current = got /\ Len(out) + Len(got) = Offset /\ Len(out) \in Nat /\ Len(got) \in Nat
    BY RoomIsLeft
  <2>2. Stands(Current, Packaged, Len(out)) /\ got \in Seq(Token) /\ cb \in Nat
    BY DEF PassInv
  <2> QED
    BY <2>1, <2>2
<1>2. PICK u, f : u = Upto(s, cb) /\ f = From(s, cb + 1)
  OBVIOUS
<1>3. PICK m \in 0..Len(s) :
        /\ m = Least(cb, Len(s))
        /\ u \in Seq(Token) /\ Len(u) = m /\ f \in Seq(Token) /\ Len(f) = Len(s) - m
        /\ Stands(u, Packaged, Offset) /\ Stands(f, Packaged, Offset + m)
  <2>1. Offset \in Nat
    BY <1>1
  <2>2. PICK m \in 0..Len(s) :
          /\ m = Least(cb, Len(s))
          /\ Upto(s, cb) \in Seq(Token) /\ Len(Upto(s, cb)) = m
          /\ From(s, cb + 1) \in Seq(Token) /\ Len(From(s, cb + 1)) = Len(s) - m
          /\ \A w \in Seq(Token), p \in Nat :
               Stands(s, w, p) => Stands(Upto(s, cb), w, p) /\ Stands(From(s, cb + 1), w, p + m)
    BY <1>1, UptoFrom
  <2> QED
    BY <1>2, <2>1, <2>2
<1>4. got' = got \o u /\ cb' = cb - m /\ rbuf' = <<>> \o f
  BY <1>1, <1>2, <1>3 DEF Puts
<1>5. m \in Nat /\ m <= cb /\ Len(s) \in Nat /\ m <= Len(s) /\ (m < Len(s) => m = cb)
  BY <1>1, <1>3 DEF Least
<1>6. rbuf' = f
  BY <1>3, <1>4
<1>7. got \o u \in Seq(Token) /\ Len(got \o u) = Len(got) + m /\ Stands(got \o u, Packaged, Len(out))
  <2>1. got \o u \in Seq(Token) /\ Len(got \o u) = Len(got) + Len(u)
    BY <1>1, <1>3, TokensConcat
  <2>2. Stands(u, Packaged, Len(out) + Len(got))
    BY <1>1, <1>3
  <2>3. Stands(got \o u, Packaged, Len(out))
    BY <1>1, <1>3, <2>2, StandsConcat
  <2> QED
    BY <1>3, <2>1, <2>3
<1>8. Len(f) = Len(s) - m
  BY <1>3
<1>9. f # <<>> => cb' = 0
  <2>1. f # <<>> => Len(f) # 0
    BY <1>3
  <2>2. Len(f) # 0 => m = cb
    BY <1>5, <1>8
  <2> QED
    BY <1>1, <1>4, <2>1, <2>2
<1>10. got' = <<>> => cb' > 0
  <2>1. got' = <<>> => Len(got') = 0
    OBVIOUS
  <2>2. Len(got') = 0 => m = 0
    BY <1>1, <1>4, <1>5, <1>7
  <2> QED
    BY <1>1, <1>4, <2>1, <2>2
<1>11. Stands(f, Packaged, Len(out) + Len(got'))
  <2>1. Len(out) + Len(got') = Offset + m
    BY <1>1, <1>4, <1>5, <1>7
  <2> QED
    BY <1>3, <2>1
<1>12. Len(out) + Len(got') + Len(f) = Offset + Len(s) /\ cb' \in Nat
  BY <1>1, <1>4, <1>5, <1>7, <1>8
<1> QED
  BY <1>3, <1>4, <1>6, <1>7, <1>9, <1>10, <1>11, <1>12

\* A Read takes what was left over, and leaves what it has no room for.
LEMMA AskKeeps ==
  ASSUME session \in Sessions, boundary \in {0, 1}, PassInv, NEW n \in SendSizes, Ask(n)
  PROVE  PassInv'
<1>1. /\ pc = "ask" /\ pc' = "fill" /\ got' = Upto(rbuf, n) /\ rbuf' = From(rbuf, n + 1) /\ cb' = n - Len(got')
      /\ UNCHANGED <<session, boundary, cur, pos, rpos, out>>
  BY DEF Ask
<1>2. n \in Nat /\ n > 0
  BY AttachmentConstants
<1>3. /\ Cursor /\ out \in Seq(Token) /\ rbuf \in Seq(Token)
      /\ Stands(out, Packaged, 0) /\ Stands(rbuf, Packaged, Len(out) + Len(Current))
      /\ Len(out) + Len(Current) + Len(rbuf) = Offset /\ Current = <<>>
  BY <1>1 DEF PassInv, Current
<1>4. Len(out) \in Nat /\ Stands(rbuf, Packaged, Len(out)) /\ Len(out) + Len(rbuf) = Offset /\ Len(rbuf) \in Nat
  <2>1. Len(out) \in Nat /\ Len(Current) = 0 /\ Len(rbuf) \in Nat
    BY <1>3
  <2>2. Len(out) + Len(Current) = Len(out) /\ Len(out) + Len(Current) + Len(rbuf) = Len(out) + Len(rbuf)
    BY <2>1
  <2> QED
    BY <1>3, <2>1, <2>2
<1>5. N \in Nat \ {0} /\ 1 \in 1..N
  BY SessionIs
<1>6. Packaged \in Seq(Token)
  BY <1>5, SectionStands
<1>7. PICK m \in 0..Len(rbuf) :
        /\ m = Least(n, Len(rbuf))
        /\ got' \in Seq(Token) /\ Len(got') = m /\ rbuf' \in Seq(Token) /\ Len(rbuf') = Len(rbuf) - m
        /\ Stands(got', Packaged, Len(out)) /\ Stands(rbuf', Packaged, Len(out) + m)
  <2>1. PICK m \in 0..Len(rbuf) :
          /\ m = Least(n, Len(rbuf))
          /\ Upto(rbuf, n) \in Seq(Token) /\ Len(Upto(rbuf, n)) = m
          /\ From(rbuf, n + 1) \in Seq(Token) /\ Len(From(rbuf, n + 1)) = Len(rbuf) - m
          /\ \A w \in Seq(Token), p \in Nat :
               Stands(rbuf, w, p) => Stands(Upto(rbuf, n), w, p) /\ Stands(From(rbuf, n + 1), w, p + m)
    BY <1>2, <1>3, UptoFrom
  <2> QED
    BY <1>1, <1>4, <1>6, <2>1
<1>8. m \in Nat /\ m <= n /\ m <= Len(rbuf) /\ (m < Len(rbuf) => m = n)
  BY <1>2, <1>4, <1>7 DEF Least
<1>9. cb' = n - m /\ cb' \in Nat
  BY <1>1, <1>2, <1>7, <1>8
<1>10. rbuf' # <<>> => cb' = 0
  <2>1. rbuf' # <<>> => Len(rbuf') # 0
    BY <1>7
  <2>2. Len(rbuf') # 0 => m = n
    BY <1>4, <1>7, <1>8
  <2> QED
    BY <1>2, <1>9, <2>1, <2>2
<1>11. got' = <<>> => cb' > 0
  <2>1. got' = <<>> => Len(got') = 0
    OBVIOUS
  <2> QED
    BY <1>2, <1>7, <1>9, <2>1
<1>12. /\ N' = N /\ Packaged' = Packaged
       /\ \A i : Data(i)' = Data(i) /\ HeaderOf(i)' = HeaderOf(i) /\ At(i)' = At(i)
  BY <1>1, SameMessage
<1>13. Cursor' /\ Offset' = Offset /\ Current' = got'
  BY <1>1, <1>3, <1>12 DEF Cursor, Offset, Current
<1>14. Len(out) + Len(got') + Len(rbuf') = Offset /\ Len(out) + Len(got') = Len(out) + m
  BY <1>4, <1>7, <1>8
<1>15. /\ out' = out /\ out' \in Seq(Token) /\ pc' = "fill" /\ Stands(out', Packaged', 0)
       /\ Stands(got', Packaged', Len(out')) /\ Stands(rbuf', Packaged', Len(out') + Len(got'))
       /\ Len(out') + Len(got') + Len(rbuf') = Offset'
  BY <1>1, <1>3, <1>7, <1>12, <1>13, <1>14
<1> QED
  BY <1>7, <1>9, <1>10, <1>11, <1>13, <1>15, Zenon DEF PassInv

\* What the steps that put something down have in common.
LEMMA PutsPass ==
  ASSUME session \in Sessions, boundary \in {0, 1}, PassInv, pc = "fill", cb > 0,
         NEW s \in Seq(Token), Stands(s, Packaged, Offset), Puts(s), UNCHANGED <<session, pc, boundary, out>>,
         Cursor', Offset' = Offset + Len(s)
  PROVE  PassInv'
<1>1. N \in Nat \ {0} /\ 1 \in 1..N
  BY SessionIs
<1>2. Packaged \in Seq(Token)
  BY <1>1, SectionStands
<1>3. /\ got' \in Seq(Token) /\ rbuf' \in Seq(Token) /\ cb' \in Nat
      /\ Stands(got', Packaged, Len(out)) /\ Stands(rbuf', Packaged, Len(out) + Len(got'))
      /\ Len(out) + Len(got') + Len(rbuf') = Offset + Len(s)
      /\ (rbuf' # <<>> => cb' = 0) /\ (got' = <<>> => cb' > 0)
  BY <1>2, PutsKeeps
<1>4. Packaged' = Packaged /\ out' = out /\ pc' = "fill"
  BY SameMessage
<1>5. out \in Seq(Token) /\ Stands(out, Packaged, 0)
  BY DEF PassInv
<1>6. Current' = got'
  BY <1>4 DEF Current
<1>7. /\ out' \in Seq(Token) /\ Stands(out', Packaged', 0)
      /\ Stands(Current', Packaged', Len(out')) /\ Stands(rbuf', Packaged', Len(out') + Len(Current'))
      /\ Len(out') + Len(Current') + Len(rbuf') = Offset'
  BY <1>3, <1>4, <1>5, <1>6
<1> QED
  BY <1>3, <1>7, Zenon DEF PassInv

\* The header of a part, before its payload.
LEMMA HeaderKeeps ==
  ASSUME session \in Sessions, boundary \in {0, 1}, PassInv, AddCurrentHeader
  PROVE  PassInv'
<1>1. /\ pc = "fill" /\ cb > 0 /\ cur <= N /\ pos = WRITE_HEADER /\ Puts(HeaderOf(cur)) /\ pos' = 0
      /\ UNCHANGED <<session, pc, boundary, cur, rpos, out>>
  BY DEF AddCurrentHeader
<1>2. Cursor
  BY DEF PassInv
<1>3. N \in Nat \ {0} /\ cur \in 1..N /\ rpos[cur] = 0 /\ Len(Data(cur)) \in Nat
  <2>1. N \in Nat \ {0}
    BY SessionIs
  <2>2. cur \in 1..N /\ rpos[cur] = 0
    BY <1>1, <1>2, <2>1 DEF Cursor
  <2> QED
    BY <2>1, <2>2, SessionIs
<1>4. PICK h, p : h = HeaderOf(cur) /\ p = At(cur)
  OBVIOUS
<1>5. h \in Seq(Token) /\ Stands(h, Packaged, p) /\ p \in Nat
  BY <1>3, <1>4, AroundIs, SectionStands
<1>6. Offset = p
  BY <1>1, <1>4 DEF Offset
<1>7. N' = N /\ \A i : Data(i)' = Data(i) /\ HeaderOf(i)' = HeaderOf(i) /\ At(i)' = At(i)
  BY <1>1, SameMessage
<1>8. Cursor'
  BY <1>1, <1>2, <1>3, <1>7 DEF Cursor, WRITE_HEADER
<1>9. Offset' = Offset + Len(h)
  <2>1. Offset' = At(cur) + Len(HeaderOf(cur)) + rpos[cur]
    BY <1>1, <1>7 DEF Offset, WRITE_HEADER
  <2> QED
    BY <1>3, <1>4, <1>5, <1>6, <2>1
<1>10. Stands(h, Packaged, Offset) /\ Puts(h)
  BY <1>1, <1>4, <1>5, <1>6
<1> QED
  BY <1>1, <1>5, <1>8, <1>9, <1>10, PutsPass

\* A piece of a payload, or what follows it.
LEMMA ChunkKeeps ==
  ASSUME session \in Sessions, boundary \in {0, 1}, PassInv, AddNextChunk
  PROVE  PassInv'
<1>1. PICK d, r, bytes : d = Data(cur) /\ r = rpos[cur] /\ bytes = SubSeq(d, r + 1, Least(r + cb, Len(d)))
  OBVIOUS
<1>2. /\ pc = "fill" /\ cb > 0 /\ cur <= N /\ pos # WRITE_HEADER
      /\ rpos' = [rpos EXCEPT ![cur] = @ + Len(bytes)]
      /\ IF bytes = <<>> THEN Puts(TrailerOf(cur)) /\ cur' = cur + 1 /\ pos' = WRITE_HEADER
                         ELSE Puts(bytes) /\ pos' = pos + Len(bytes) /\ UNCHANGED cur
      /\ UNCHANGED <<session, pc, boundary, out>>
  BY <1>1 DEF AddNextChunk, Trailer
<1>3. Cursor /\ cb \in Nat
  BY DEF PassInv
<1>4. N \in Nat \ {0} /\ cur \in 1..N /\ d \in Seq(Token) /\ Len(d) \in Nat /\ r \in 0..Len(d) /\ pos \in Nat
  <2>1. N \in Nat \ {0}
    BY SessionIs
  <2>2. cur \in 1..N /\ rpos[cur] <= Len(Data(cur)) /\ rpos[cur] \in Nat /\ pos \in Nat
    BY <1>2, <1>3, <2>1 DEF Cursor
  <2>3. Data(cur) \in Seq(Token) /\ Len(Data(cur)) \in Nat
    BY <2>2, SessionIs
  <2> QED
    BY <1>1, <2>1, <2>2, <2>3
<1>5. PICK p, h, t, l : p = At(cur) /\ h = HeaderOf(cur) /\ t = TrailerOf(cur) /\ l = Len(h)
  OBVIOUS
<1>6. /\ Packaged \in Seq(Token) /\ p \in Nat /\ t \in Seq(Token) /\ l \in Nat
      /\ Stands(d, Packaged, p + l) /\ Stands(t, Packaged, p + l + Len(d))
      /\ At(cur + 1) = p + l + Len(d) + Len(t)
  <2>1. h \in Seq(Token) /\ t \in Seq(Token)
    BY <1>4, <1>5, AroundIs
  <2>2. /\ Packaged \in Seq(Token) /\ At(cur) \in Nat
        /\ Stands(Data(cur), Packaged, At(cur) + Len(HeaderOf(cur)))
        /\ Stands(TrailerOf(cur), Packaged, At(cur) + Len(HeaderOf(cur)) + Len(Data(cur)))
        /\ At(cur + 1) = At(cur) + Len(HeaderOf(cur)) + Len(Data(cur)) + Len(TrailerOf(cur))
    BY <1>4, SectionStands
  <2> QED
    BY <1>1, <1>5, <2>1, <2>2
<1>7. Offset = p + l + r
  BY <1>1, <1>2, <1>5 DEF Offset
<1>8. PICK n \in Nat : /\ Least(r + cb, Len(d)) = r + n /\ r + n <= Len(d)
                       /\ bytes = SubSeq(d, r + 1, r + n)
  <2>1. PICK e : e = r + cb
    OBVIOUS
  <2>2. e \in Nat /\ e >= r
    BY <1>3, <1>4, <2>1
  <2>3. PICK n \in Nat : /\ Least(e, Len(d)) = r + n /\ r + n <= Len(d)
                         /\ SubSeq(d, r + 1, Least(e, Len(d))) = SubSeq(d, r + 1, r + n)
    BY <1>4, <2>2, BytesStand
  <2> QED
    BY <1>1, <2>1, <2>3
<1>9. bytes \in Seq(Token) /\ Len(bytes) = n /\ (bytes = <<>> <=> n = 0) /\ Stands(bytes, d, r)
  <2>1. r \in Nat
    BY <1>4
  <2> QED
    BY <1>4, <1>8, <2>1, PieceIs, ZenonT(30)
<1>10. n = 0 => r = Len(d)
  BY <1>2, <1>3, <1>4, <1>8 DEF Least
<1>11. N' = N /\ \A i : Data(i)' = Data(i) /\ HeaderOf(i)' = HeaderOf(i) /\ At(i)' = At(i)
  BY <1>2, SameMessage
<1>12. /\ rpos' \in [1..N -> Nat] /\ rpos'[cur] = r + n
       /\ \A i \in cur + 1..N : rpos'[i] = 0
  <2>1. rpos \in [1..N -> Nat] /\ \A i \in cur + 1..N : rpos[i] = 0
    BY <1>3 DEF Cursor
  <2>2. rpos' = [rpos EXCEPT ![cur] = rpos[cur] + n] /\ rpos[cur] + n \in Nat
    BY <1>2, <1>4, <1>9, <2>1
  <2>3. rpos' \in [1..N -> Nat] /\ rpos'[cur] = rpos[cur] + n
    BY <1>4, <2>1, <2>2
  <2>4. ASSUME NEW i \in cur + 1..N PROVE rpos'[i] = 0
    <3>1. i \in 1..N /\ i # cur
      BY <1>4
    <3> QED
      BY <2>1, <2>2, <3>1
  <2> QED
    BY <1>1, <2>3, <2>4
<1>13. CASE bytes = <<>>
  <2>1. Puts(t) /\ cur' = cur + 1 /\ pos' = WRITE_HEADER
    BY <1>2, <1>5, <1>13
  <2>2. Cursor'
    <3>1. PICK c : c = cur + 1
      OBVIOUS
    <3>2. cur' = c /\ c \in 1..N + 1 /\ (c <= N => c \in cur + 1..N /\ c \in 1..N) /\ \A i \in c + 1..N : i \in cur + 1..N
      BY <1>4, <2>1, <3>1
    <3>3. c <= N => rpos'[c] = 0 /\ Len(Data(c)) \in Nat
      BY <1>12, <3>2, SessionIs
    <3>4. \A i \in c + 1..N : rpos'[i] = 0
      BY <1>12, <3>2
    <3>5. Data(c)' = Data(c) /\ N' = N
      BY <1>11
    <3>6. c <= N => rpos'[c] <= Len(Data(c))
      BY <3>3
    <3>7. pos' \in Nat \cup {WRITE_HEADER}
      BY <2>1
    <3> QED
      BY <1>12, <2>1, <3>2, <3>3, <3>4, <3>5, <3>6, <3>7 DEF Cursor
  <2>3. Offset' = At(cur + 1)
    BY <1>11, <2>1 DEF Offset
  <2>4. Offset = p + l + Len(d) /\ Offset' = Offset + Len(t)
    BY <1>4, <1>6, <1>7, <1>9, <1>10, <1>13, <2>3
  <2>5. Stands(t, Packaged, Offset)
    BY <1>6, <2>4
  <2> QED
    BY <1>2, <1>6, <2>1, <2>2, <2>4, <2>5, PutsPass
<1>14. CASE bytes # <<>>
  <2>1. Puts(bytes) /\ pos' = pos + Len(bytes) /\ cur' = cur
    BY <1>2, <1>14
  <2>2. pos' \in Nat /\ pos' # WRITE_HEADER
    BY <1>4, <1>9, <2>1 DEF WRITE_HEADER
  <2>3. Cursor'
    <3>1. cur # N + 1 /\ rpos'[cur] <= Len(Data(cur)) /\ cur \in 1..N + 1
      BY <1>1, <1>4, <1>8, <1>12
    <3> QED
      BY <1>11, <1>12, <2>1, <2>2, <3>1 DEF Cursor
  <2>4. Offset' = p + l + (r + n)
    BY <1>5, <1>11, <1>12, <2>1, <2>2 DEF Offset
  <2>5. Offset' = Offset + Len(bytes)
    BY <1>4, <1>6, <1>7, <1>9, <2>4
  <2>6. Stands(bytes, Packaged, Offset)
    <3>1. PICK u : u = p + l
      OBVIOUS
    <3>2. u \in Nat /\ Stands(d, Packaged, u) /\ Stands(bytes, d, r) /\ r \in Nat
      BY <1>4, <1>6, <1>9, <3>1
    <3>3. Stands(bytes, Packaged, u + r)
      <4>1. Len(bytes) = n /\ r + n <= Len(d) /\ u + Len(d) <= Len(Packaged) /\ Len(d) \in Nat /\ Len(Packaged) \in Nat
        BY <1>4, <1>6, <1>8, <1>9, <3>2 DEF Stands
      <4>2. ASSUME NEW k \in 1..n PROVE bytes[k] = Packaged[(u + r) + k]
        <5>1. bytes[k] = d[r + k]
          BY <3>2, <4>1, <4>2 DEF Stands
        <5>2. r + k \in 1..Len(d) /\ u + (r + k) = (u + r) + k
          BY <3>2, <4>1
        <5>3. d[r + k] = Packaged[u + (r + k)]
          BY <3>2, <5>2 DEF Stands
        <5> QED
          BY <5>1, <5>2, <5>3
      <4> QED
        BY <3>2, <4>1, <4>2 DEF Stands
    <3> QED
      BY <1>7, <3>1, <3>3
  <2> QED
    BY <1>2, <1>9, <2>1, <2>3, <2>5, <2>6, PutsPass
<1> QED
  BY <1>13, <1>14

\* A Read that gives nothing ends the pass: all of the message was read.
LEMMA PassIsWhole ==
  ASSUME session \in Sessions, boundary \in {0, 1}, PassInv, pc = "fill", got = <<>>, cb = 0 \/ cur > N
  PROVE  out = Packaged /\ rbuf = <<>>
<1>1. cb \in Nat /\ cb > 0 /\ cur > N
  BY DEF PassInv
<1>2. rbuf = <<>> /\ Len(out) + Len(got) = Offset /\ Len(out) \in Nat
  BY <1>1, RoomIsLeft
<1>3. N \in Nat \ {0} /\ 1 \in 1..N
  BY SessionIs
<1>4. cur = N + 1 /\ pos = WRITE_HEADER
  BY <1>1, <1>3 DEF PassInv, Cursor
<1>5. Packaged \in Seq(Token) /\ At(N + 1) = Len(Packaged)
  BY <1>3, SectionStands
<1>6. Len(out) = Len(Packaged)
  <2>1. Offset = Len(Packaged)
    BY <1>4, <1>5 DEF Offset
  <2>2. Len(got) = 0
    OBVIOUS
  <2> QED
    BY <1>2, <2>1, <2>2
<1>7. out \in Seq(Token) /\ Stands(out, Packaged, 0)
  BY DEF PassInv
<1>8. Stands(Packaged, Packaged, 0)
  BY <1>5 DEF Stands
<1>9. out = Packaged
  BY <1>5, <1>6, <1>7, <1>8, StandsSame
<1> QED
  BY <1>2, <1>9

\* What a Read gives is of the message; the pass that ends has it all.
LEMMA ReturnKeeps ==
  ASSUME session \in Sessions, boundary \in {0, 1}, PassInv, sized \in {-1, Len(Packaged)}, Return
  PROVE  SendInv'
<1>1. /\ pc = "fill" /\ (cb = 0 \/ cur > N)
      /\ UNCHANGED <<session, boundary, rbuf, cb, got>>
  BY DEF Return
<1>2. /\ N' = N /\ Packaged' = Packaged
      /\ \A i : Data(i)' = Data(i) /\ HeaderOf(i)' = HeaderOf(i) /\ At(i)' = At(i)
  BY <1>1, SameMessage
<1>3. N \in Nat \ {0} /\ 1 \in 1..N
  BY SessionIs
<1>4. Packaged \in Seq(Token) /\ Len(Packaged) \in Nat
  <2>1. Packaged \in Seq(Token)
    BY <1>3, SectionStands
  <2> QED
    BY <2>1
<1>5. /\ Cursor /\ out \in Seq(Token) /\ got \in Seq(Token) /\ rbuf \in Seq(Token) /\ cb \in Nat
      /\ Stands(out, Packaged, 0) /\ Stands(got, Packaged, Len(out))
      /\ Stands(rbuf, Packaged, Len(out) + Len(got))
      /\ Len(out) + Len(got) + Len(rbuf) = Offset
  BY <1>1, Zenon DEF PassInv, Current
<1>6. CASE got # <<>>
  <2>1. pc' = "ask" /\ out' = out \o got /\ UNCHANGED <<cur, pos, rpos, sized>>
    BY <1>6 DEF Return
  <2>2. /\ out \o got \in Seq(Token) /\ Len(out \o got) = Len(out) + Len(got)
        /\ Stands(out \o got, Packaged, 0)
    <3>1. 0 + Len(out) = Len(out)
      BY <1>5
    <3> QED
      BY <1>4, <1>5, <3>1, StandsConcat
  <2>3. Cursor' /\ Offset' = Offset /\ Current' = <<>>
    BY <1>1, <1>2, <1>5, <2>1 DEF Cursor, Offset, Current
  <2>4. /\ Len(<<>>) = 0 /\ Len(out) + Len(got) + 0 = Len(out) + Len(got)
        /\ Len(out) + Len(got) \in Nat /\ Len(out) + Len(got) <= Len(Packaged)
    BY <1>4, <1>5 DEF Stands
  <2>5. Stands(<<>>, Packaged, Len(out) + Len(got))
    BY <2>4 DEF Stands
  <2>6. PassInv'
    BY <1>1, <1>2, <1>5, <2>1, <2>2, <2>3, <2>4, <2>5 DEF PassInv
  <2> QED
    BY <1>2, <2>1, <2>6 DEF SendInv, Receiving
<1>7. CASE got = <<>> /\ sized = -1
  <2>1. pc' = "ask" /\ sized' = Len(out) /\ out' = <<>> /\ Reset
    BY <1>7 DEF Return
  <2>2. out = Packaged /\ rbuf = <<>>
    BY <1>1, <1>7, PassIsWhole
  <2>3. AtStart'
    BY <1>1, <1>2, <2>1, <2>2 DEF AtStart, Reset
  <2>4. (session \in Sessions /\ boundary \in {0, 1} /\ pc = "ask" /\ AtStart /\ got \in Seq(Token) /\ cb \in Nat)'
    BY <1>1, <1>5, <2>1, <2>3
  <2>5. PassInv'
    BY <2>4, PassStartsNext
  <2> QED
    BY <1>2, <2>1, <2>2, <2>5 DEF SendInv, Receiving
<1>8. CASE got = <<>> /\ sized # -1
  <2>1. pc' \in {"find", "record"} /\ UNCHANGED <<out, sized>>
    BY <1>8 DEF Return
  <2>2. out = Packaged
    BY <1>1, <1>8, PassIsWhole
  <2> QED
    BY <1>2, <1>8, <2>1, <2>2 DEF SendInv, Receiving
<1> QED
  BY <1>6, <1>7, <1>8

\* What unpacks does not pack.
Receives == ReceivesMime \/ ReceivesDime \/ GiveEnvelope

\* It goes on where it is, and leaves the message alone.
LEMMA ReceivesOnly ==
  ASSUME Receives
  PROVE  Receiving /\ Receiving' /\ UNCHANGED <<session, sender>>
<1>1. CASE ReadFails \/ ReadHeaders \/ FindBoundary
  BY <1>1 DEF ReadFails, Fails, FindBoundary, ReadHeaders, Receiving
<1>2. CASE ParseHeaders \/ Accumulate \/ CompletePart
  BY <1>2 DEF ParseHeaders, Accumulate, CompletePart, Receiving
<1>3. CASE ReadNext \/ TellLast \/ Drain
  BY <1>3 DEF ReadNext, TellLast, Drain, Receiving
<1>4. CASE ReceivesDime \/ GiveEnvelope
  BY <1>4 DEF ReceivesDime, ReadRecord, ReadPayload, EndRecord, Fails, GiveEnvelope, Receiving
<1> QED
  BY <1>1, <1>2, <1>3, <1>4 DEF Receives, ReceivesMime

\* What is checked, told and sent, from step to step.
LEMMA SendStep ==
  ASSUME CheckInv, SendInv, [Next]_vars
  PROVE  CheckInv' /\ SendInv'
<1>1. session \in Sessions /\ boundary \in {0, 1}
  BY DEF CheckInv
<1>2. ASSUME pc # "check", pc' # "check", UNCHANGED <<session, boundary>> PROVE CheckInv'
  <2>1. NoPartHasIt
    BY <1>2 DEF CheckInv
  <2>2. NoPartHasIt'
    <3>1. MIME' = MIME /\ N' = N /\ \A i : Data(i)' = Data(i)
      BY <1>2, SameMessage
    <3>2. \A s, n : Absent(s, n)' <=> Absent(s, n)
      BY <1>2 DEF Absent
    <3> QED
      BY <2>1, <3>1, <3>2 DEF NoPartHasIt
  <2> QED
    BY <1>1, <1>2, <2>2 DEF CheckInv
<1>3. CASE CheckBoundary
  <2>1. CheckInv'
    BY <1>3, CheckStep
  <2>2. /\ pc = "check" /\ pc' \in {"check", "ask"} /\ session' = session /\ boundary' \in {0, 1}
        /\ UNCHANGED <<cur, pos, rpos, rbuf, cb, got, out, sized>>
    BY <1>1, <1>3 DEF CheckBoundary
  <2>3. AtStart /\ got = <<>> /\ cb = 0 /\ sized = -1
    BY <2>2 DEF SendInv
  <2>4. AtStart'
    BY <2>2, <2>3 DEF AtStart, N
  <2>5. pc' = "ask" => PassInv'
    <3>1. <<>> \in Seq(Token)
      OBVIOUS
    <3>2. ASSUME pc' = "ask" PROVE
            (session \in Sessions /\ boundary \in {0, 1} /\ pc = "ask" /\ AtStart /\ got \in Seq(Token) /\ cb \in Nat)'
      BY <1>1, <2>2, <2>3, <2>4, <3>1, <3>2
    <3> QED
      BY <3>2, PassStartsNext
  <2> QED
    BY <2>1, <2>2, <2>3, <2>4, <2>5 DEF SendInv, Receiving
<1>4. CASE \E n \in SendSizes : Ask(n)
  <2>1. PICK n \in SendSizes : Ask(n)
    BY <1>4
  <2>2. pc = "ask" /\ pc' = "fill" /\ UNCHANGED <<session, boundary, sized>>
    BY <2>1 DEF Ask
  <2>3. PassInv /\ sized \in {-1, Len(Packaged)}
    BY <2>2 DEF SendInv
  <2>4. PassInv'
    BY <1>1, <2>1, <2>3, AskKeeps
  <2>5. Packaged' = Packaged
    BY <2>2, SameMessage
  <2> QED
    BY <1>2, <2>2, <2>3, <2>4, <2>5 DEF SendInv, Receiving
<1>5. CASE AddCurrentHeader \/ AddNextChunk
  <2>1. pc = "fill" /\ pc' = "fill" /\ UNCHANGED <<session, boundary, sized>>
    BY <1>5 DEF AddCurrentHeader, AddNextChunk
  <2>2. PassInv /\ sized \in {-1, Len(Packaged)}
    BY <2>1 DEF SendInv
  <2>3. PassInv'
    BY <1>1, <1>5, <2>2, HeaderKeeps, ChunkKeeps
  <2>4. Packaged' = Packaged
    BY <2>1, SameMessage
  <2> QED
    BY <1>2, <2>1, <2>2, <2>3, <2>4 DEF SendInv, Receiving
<1>6. CASE Return
  <2>1. pc = "fill" /\ pc' # "check" /\ UNCHANGED <<session, boundary>>
    BY <1>6 DEF Return
  <2>2. PassInv /\ sized \in {-1, Len(Packaged)}
    BY <2>1 DEF SendInv
  <2>3. SendInv'
    BY <1>1, <1>6, <2>2, ReturnKeeps
  <2> QED
    BY <1>2, <2>1, <2>3
<1>7. CASE Receives
  <2>1. Receiving /\ Receiving' /\ UNCHANGED <<session, sender>>
    BY <1>7, ReceivesOnly
  <2>2. Packaged' = Packaged
    BY <2>1, SameMessage DEF sender
  <2>3. out = Packaged /\ sized = Len(Packaged)
    BY <2>1 DEF SendInv
  <2>4. pc # "check" /\ pc' \notin {"check", "ask", "fill"}
    BY <2>1 DEF Receiving
  <2>5. SendInv'
    BY <2>1, <2>2, <2>3, <2>4 DEF SendInv, sender
  <2> QED
    BY <1>2, <2>1, <2>4, <2>5 DEF sender
<1>8. CASE UNCHANGED vars
  <2>1. UNCHANGED <<session, pc, boundary, at, window, cur, pos, rpos, rbuf, cb, got, out, sized>>
    BY <1>8 DEF vars, sender
  <2>2. Packaged' = Packaged /\ N' = N /\ MIME' = MIME
        /\ \A i : Data(i)' = Data(i) /\ HeaderOf(i)' = HeaderOf(i) /\ TrailerOf(i)' = TrailerOf(i) /\ At(i)' = At(i)
    BY <2>1, SameMessage
  <2>3. \A s, n : Absent(s, n)' <=> Absent(s, n)
    BY <2>1 DEF Absent
  <2>4. CheckInv'
    <3>1. Seen' <=> Seen
      BY <2>1, <2>2, <2>3 DEF Seen
    <3>2. NoPartHasIt' <=> NoPartHasIt
      BY <2>2, <2>3 DEF NoPartHasIt
    <3> QED
      BY <2>1, <3>1, <3>2 DEF CheckInv
  <2>5. SendInv'
    <3>1. AtStart' <=> AtStart
      BY <2>1, <2>2 DEF AtStart
    <3>2. PassInv' <=> PassInv
      <4>1. Cursor' <=> Cursor
        BY <2>1, <2>2 DEF Cursor
      <4>2. Offset' = Offset /\ Current' = Current
        BY <2>1, <2>2 DEF Offset, Current
      <4> QED
        BY <2>1, <2>2, <4>1, <4>2 DEF PassInv
    <3> QED
      BY <2>1, <2>2, <3>1, <3>2 DEF SendInv, Receiving
  <2> QED
    BY <2>4, <2>5
<1> QED
  BY <1>3, <1>4, <1>5, <1>6, <1>7, <1>8 DEF Next, Sends, Receives

\* At first nothing is checked, and nothing told.
LEMMA SendInit == Init => CheckInv /\ SendInv
<1> SUFFICES ASSUME Init PROVE CheckInv /\ SendInv
  OBVIOUS
<1>1. /\ session \in Sessions /\ pc = (IF MIME THEN "check" ELSE "ask")
      /\ boundary \in {0, 1} /\ at = <<1, 0>> /\ window = <<>>
      /\ AtStart /\ got = <<>> /\ cb = 0 /\ sized = -1
  BY DEF Init, AtStart
<1>2. N \in Nat \ {0} /\ 1 \in 1..N /\ Data(1) \in Seq(Token) /\ <<>> \in Seq(Token) /\ MIME \in BOOLEAN
  BY <1>1, SessionIs
<1>3. CheckInv
  <2>1. MIME => Seen
    <3>1. at[1] = 1 /\ at[2] = 0 /\ Len(window) = 0
      BY <1>1
    <3>2. Absent(Data(1), 0) /\ Stands(<<>>, Data(1), 0) /\ 0 \in 0..Len(Data(1))
      BY <1>2 DEF Absent, Stands
    <3> QED
      BY <1>1, <1>2, <3>1, <3>2 DEF Seen
  <2>2. ~MIME => NoPartHasIt
    BY DEF NoPartHasIt
  <2> QED
    BY <1>1, <1>2, <2>1, <2>2 DEF CheckInv
<1>4. SendInv
  <2>1. pc = "ask" => PassInv
    BY <1>1, <1>2, PassStarts
  <2>2. pc \in {"check", "ask"}
    BY <1>1
  <2> QED
    BY <1>1, <2>1, <2>2 DEF SendInv, Receiving
<1> QED
  BY <1>3, <1>4

\* The length that the first pass told is that of what the second sends, and no part has the
\* boundary between them.
LEMMA AnnouncedHolds == CheckInv /\ SendInv => Announced
<1> SUFFICES ASSUME CheckInv, SendInv PROVE Announced
  OBVIOUS
<1>1. session \in Sessions /\ boundary \in {0, 1}
  BY DEF CheckInv
<1>2. N \in Nat \ {0} /\ 1 \in 1..N /\ \A i \in 1..N : Data(i) \in Seq(Token)
  BY <1>1, SessionIs
<1>3. PICK w : w = Packaged
  OBVIOUS
<1>4. w \in Seq(Token) /\ Len(w) \in Nat
  <2>1. w \in Seq(Token)
    BY <1>1, <1>2, <1>3, SectionStands
  <2> QED
    BY <2>1
<1>5. ASSUME sized >= 0 PROVE sized = Len(w) /\ IsPrefix(out, w)
  <2>1. pc # "check"
    BY <1>5 DEF SendInv
  <2>2. CASE pc \in {"ask", "fill"}
    <3>1. PassInv /\ sized = Len(w)
      BY <1>3, <1>4, <1>5, <2>2 DEF SendInv
    <3>2. out \in Seq(Token) /\ Stands(out, w, 0)
      BY <1>3, <3>1 DEF PassInv
    <3>3. IsPrefix(out, w)
      BY <1>4, <3>2 DEF IsPrefix, Stands
    <3> QED
      BY <3>1, <3>3
  <2>3. CASE pc \notin {"ask", "fill"}
    <3>1. out = w /\ sized = Len(w)
      BY <1>3, <2>1, <2>3 DEF SendInv, Receiving
    <3>2. IsPrefix(w, w)
      BY <1>4 DEF IsPrefix
    <3> QED
      BY <3>1, <3>2
  <2> QED
    BY <2>2, <2>3
<1>6. ASSUME Receiving PROVE out = w
  BY <1>3, <1>6 DEF SendInv
<1>7. ASSUME Receiving, MIME, NEW i \in 1..N PROVE Search(Data(i), 0, Boundary(boundary)) = Len(Data(i))
  <2>1. Absent(Data(i), Len(Data(i)))
    BY <1>7 DEF Receiving, CheckInv, NoPartHasIt
  <2> QED
    BY <1>1, <1>2, <2>1, AbsentSearch
<1> QED
  BY <1>3, <1>5, <1>6, <1>7 DEF Announced

\* The transport reads the message twice, with buffers of any size, and the second time it gets
\* what the first told the length of; the boundary is in no part.
THEOREM RequestAnnounced == Spec => []Announced
<1>1. CheckInv /\ SendInv /\ [Next]_vars => (CheckInv /\ SendInv)'
  BY SendStep
<1> QED
  BY <1>1, SendInit, AnnouncedHolds, PTL DEF Spec
-----------------------------------------------------------------------------
(* What a buffer has of the message *)

\* What is in a buffer is in the message, as far as the buffer goes.
LEMMA StandsIn ==
  ASSUME NEW s \in Seq(Token), NEW b \in Seq(Token), NEW w \in Seq(Token), NEW p \in Nat, NEW i \in Nat,
         i + Len(s) <= Len(b), Stands(b, w, p)
  PROVE  Stands(s, b, i) <=> Stands(s, w, p + i)
<1>1. PICK l, m, n : l = Len(s) /\ m = Len(b) /\ n = Len(w)
  OBVIOUS
<1>2. /\ l \in Nat /\ m \in Nat /\ n \in Nat /\ p \in Nat /\ i \in Nat
      /\ i + l <= m /\ p + m <= n /\ \A k \in 1..m : b[k] = w[p + k]
  BY <1>1 DEF Stands
<1>3. ASSUME NEW k \in 1..l PROVE b[i + k] = w[(p + i) + k]
  <2>1. i + k \in 1..m /\ p + (i + k) = (p + i) + k
    BY <1>2
  <2> QED
    BY <1>2, <2>1
<1>4. (p + i) + l <= n /\ p + i \in Nat
  BY <1>2
<1>5. Stands(s, b, i) <=> \A k \in 1..l : s[k] = b[i + k]
  BY <1>1, <1>2 DEF Stands
<1>6. Stands(s, w, p + i) <=> \A k \in 1..l : s[k] = w[(p + i) + k]
  BY <1>1, <1>4 DEF Stands
<1> QED
  BY <1>3, <1>5, <1>6

\* What is sought in a buffer is found at the first place where the message has it, when the buffer
\* has it as a whole, and else not at all.
LEMMA FirstIs ==
  ASSUME NEW s \in Seq(Token), Len(s) > 0, NEW b \in Seq(Token), NEW w \in Seq(Token), NEW p \in Nat,
         Stands(b, w, p), NEW i \in 0..Len(b), NEW n \in Nat, p + i <= n, Stands(s, w, n),
         \A j \in p + i..n - 1 : ~Stands(s, w, j)
  PROVE  Search(b, i, s) = IF p + Len(b) >= n + Len(s) THEN n - p ELSE Len(b)
<1>1. PICK r, l, m : r = Search(b, i, s) /\ l = Len(s) /\ m = Len(b)
  OBVIOUS
<1>2. /\ r \in i..m /\ l \in Nat \ {0} /\ m \in Nat /\ i \in Nat /\ p \in Nat /\ n \in Nat
      /\ r < m => Stands(s, b, r)
      /\ \A j \in i..m : Stands(s, b, j) => r <= j /\ r < m
  <2>1. l \in Nat \ {0} /\ m \in Nat
    BY <1>1
  <2>2. /\ Search(b, i, s) \in i..Len(b)
        /\ Search(b, i, s) < Len(b) => Stands(s, b, Search(b, i, s))
        /\ \A j \in i..Len(b) : Stands(s, b, j) => Search(b, i, s) <= j /\ Search(b, i, s) < Len(b)
    BY SearchIs
  <2> QED
    BY <1>1, <2>1, <2>2
<1>3. r < m => r + l <= m /\ Stands(s, w, p + r)
  <2> SUFFICES ASSUME r < m PROVE r + l <= m /\ Stands(s, w, p + r)
    OBVIOUS
  <2>1. Stands(s, b, r) /\ r + l <= m /\ r \in Nat
    BY <1>1, <1>2 DEF Stands
  <2> QED
    BY <1>1, <2>1, StandsIn
<1>4. r < m => p + r >= n
  <2> SUFFICES ASSUME r < m, p + r < n PROVE FALSE
    BY <1>2
  <2>1. p + r \in p + i..n - 1
    BY <1>2
  <2> QED
    BY <1>3, <2>1
<1>5. CASE p + m >= n + l
  <2>1. PICK j : j = n - p
    OBVIOUS
  <2>2. j \in Nat /\ j \in i..m /\ j + l <= m /\ p + j = n
    BY <1>2, <1>5, <2>1
  <2>3. Stands(s, b, j)
    <3>1. Stands(s, w, p + j)
      BY <2>2
    <3> QED
      BY <1>1, <2>2, <3>1, StandsIn
  <2>4. r <= j /\ r < m
    BY <1>2, <2>2, <2>3
  <2>5. r = j
    BY <1>2, <1>4, <2>2, <2>4
  <2> QED
    BY <1>1, <1>5, <2>1, <2>5
<1>6. CASE p + m < n + l
  <2>1. r = m
    BY <1>2, <1>3, <1>4, <1>6
  <2> QED
    BY <1>1, <1>2, <1>6, <2>1
<1>7. p + m >= n + l \/ p + m < n + l
  BY <1>2
<1> QED
  BY <1>5, <1>6, <1>7

\* A read of the stream puts the next of the message behind what the buffer keeps.
LEMMA ReadKeeps ==
  ASSUME session \in Sessions, boundary \in {0, 1}, NEW p \in Nat, Wired(p), NEW i \in 0..Len(buff),
         NEW r \in ReadToBuffer(i), Holds(r), UNCHANGED <<session, boundary>>
  PROVE  Wired(p + i)' /\ Len(buff') >= Len(buff) - i /\ Len(buff') = Len(r.buff) /\ Len(buff') \in Nat
<1>1. /\ buff \in Seq(Token) /\ wire \in Seq(Token) /\ Len(buff) <= BUFF
      /\ Stands(buff, Packaged, p) /\ Stands(wire, Packaged, p + Len(buff))
  BY DEF Wired
<1>2. Packaged \in Seq(Token) /\ Packaged' = Packaged
  <2>1. 1 \in 1..N
    BY SessionIs
  <2> QED
    BY <2>1, SectionStands, SameMessage
<1>3. BUFF \in Nat /\ i \in Nat /\ Len(buff) \in Nat /\ BUFF - (Len(buff) - i) \in Nat /\ i <= Len(buff)
  BY <1>1, AttachmentConstants
<1>4. PICK n : /\ n \in Given(BUFF - (Len(buff) - i))
               /\ r = [buff |-> From(buff, i + 1) \o Upto(wire, n), wire |-> From(wire, n + 1)]
  BY DEF ReadToBuffer
<1>5. n \in Nat /\ n <= BUFF - (Len(buff) - i) /\ n <= Len(wire) /\ Len(wire) \in Nat
  <2>1. PICK q \in Pieces : n = Least(Least(q, BUFF - (Len(buff) - i)), Len(wire))
    BY <1>4 DEF Given
  <2>2. q \in Nat /\ Len(wire) \in Nat
    BY <1>1, <2>1, AttachmentConstants
  <2> QED
    BY <1>3, <2>1, <2>2 DEF Least
<1>6. PICK f, u, t : f = From(buff, i + 1) /\ u = Upto(wire, n) /\ t = From(wire, n + 1)
  OBVIOUS
<1>7. buff' = f \o u /\ wire' = t /\ r.buff = f \o u
  BY <1>4, <1>6 DEF Holds
<1>8. f \in Seq(Token) /\ Len(f) = Len(buff) - i /\ Stands(f, Packaged, p + i)
  <2>1. f = SubSeq(buff, i + 1, Len(buff))
    BY <1>6 DEF From
  <2>2. /\ SubSeq(buff, i + 1, Len(buff)) \in Seq(Token) /\ Len(SubSeq(buff, i + 1, Len(buff))) = Len(buff) - i
        /\ Stands(SubSeq(buff, i + 1, Len(buff)), Packaged, p + i)
    BY <1>1, <1>2, TokensCut
  <2> QED
    BY <2>1, <2>2
<1>9. /\ u \in Seq(Token) /\ Len(u) = n /\ t \in Seq(Token)
      /\ Stands(u, Packaged, p + Len(buff)) /\ Stands(t, Packaged, p + Len(buff) + n)
  <2>1. PICK m \in 0..Len(wire) :
          /\ m = Least(n, Len(wire))
          /\ Upto(wire, n) \in Seq(Token) /\ Len(Upto(wire, n)) = m
          /\ From(wire, n + 1) \in Seq(Token) /\ Len(From(wire, n + 1)) = Len(wire) - m
          /\ \A w \in Seq(Token), q \in Nat :
               Stands(wire, w, q) => Stands(Upto(wire, n), w, q) /\ Stands(From(wire, n + 1), w, q + m)
    BY <1>1, <1>5, UptoFrom
  <2>2. m = n
    <3>1. Least(n, Len(wire)) = n
      BY <1>5 DEF Least
    <3> QED
      BY <2>1, <3>1, Zenon
  <2>3. p + Len(buff) \in Nat
    BY <1>3
  <2> QED
    BY <1>1, <1>2, <1>6, <2>1, <2>2, <2>3
<1>10. f \o u \in Seq(Token) /\ Len(f \o u) = Len(f) + Len(u) /\ Stands(f \o u, Packaged, p + i)
  <2>1. f \o u \in Seq(Token) /\ Len(f \o u) = Len(f) + Len(u)
    BY <1>8, <1>9, TokensConcat
  <2>2. p + i \in Nat /\ (p + i) + Len(f) = p + Len(buff)
    BY <1>3, <1>8
  <2>3. Stands(u, Packaged, (p + i) + Len(f))
    BY <1>9, <2>2
  <2>4. Stands(f \o u, Packaged, p + i)
    BY <1>2, <1>8, <1>9, <2>2, <2>3, StandsConcat
  <2> QED
    BY <2>1, <2>4
<1>11. PICK b : b = f \o u
  OBVIOUS
<1>12. /\ b \in Seq(Token) /\ Len(b) = (Len(buff) - i) + n /\ Len(b) \in Nat /\ Len(b) <= BUFF
       /\ p + Len(buff) + n = (p + i) + Len(b) /\ p + i \in Nat
  <2>1. b \in Seq(Token) /\ Len(b) = (Len(buff) - i) + n
    BY <1>8, <1>9, <1>10, <1>11
  <2>2. PICK l, m : l = Len(buff) /\ m = Len(b)
    OBVIOUS
  <2>3. m = (l - i) + n /\ i \in Nat /\ l \in Nat /\ i <= l /\ n \in Nat /\ BUFF \in Nat /\ n <= BUFF - (l - i)
    BY <1>3, <1>5, <2>1, <2>2
  <2>4. m \in Nat /\ m <= BUFF /\ p + l + n = (p + i) + m /\ p + i \in Nat
    BY <2>3
  <2> QED
    BY <2>1, <2>2, <2>4
<1>13. Wired(p + i)'
  <2>1. /\ buff' = b /\ wire' = t /\ Stands(b, Packaged', p + i) /\ Stands(t, Packaged', (p + i) + Len(b))
    BY <1>2, <1>7, <1>9, <1>10, <1>11, <1>12
  <2> QED
    BY <1>9, <1>12, <2>1 DEF Wired
<1> QED
  BY <1>5, <1>7, <1>11, <1>12, <1>13
-----------------------------------------------------------------------------
(* Where parts and payloads go *)

PartType == [id : Nat, data : Seq(Token)]

\* Nothing was taken for the part to come.
LEMMA NoContent ==
  NoPart \in [payload : Seq(Token), toDisk : BOOLEAN, file : Seq(Token)] /\ (builder = NoPart => Content = <<>>)
<1>1. <<>> \in Seq(Token)
  OBVIOUS
<1> QED
  BY <1>1 DEF NoPart, Content

\* The same of the state that a step leads to.
LEMMA NoContentNext == (builder = NoPart)' => (Content = <<>> /\ BuilderType)'
<1>1. builder = NoPart => Content = <<>> /\ BuilderType
  BY NoContent DEF BuilderType
<1> QED
  BY <1>1, PTL

\* In memory or in a file that takes it, what is added to a payload comes after what it had.
LEMMA AddsContent ==
  ASSUME BuilderType, session.disk, NEW s \in Seq(Token), NEW r \in AddToPayload(s)
  PROVE  /\ r \in [payload : Seq(Token), toDisk : BOOLEAN, file : Seq(Token)]
         /\ (IF r.toDisk THEN r.file ELSE r.payload) = Content \o s
<1>1. PICK b \in IF ~builder.toDisk /\ s # <<>> /\ Spills(s) THEN MovedToDisk ELSE {builder} :
        r \in IF b.toDisk THEN {[b EXCEPT !.file = f] : f \in Written(b.file, s)}
                          ELSE {[b EXCEPT !.payload = b.payload \o s]}
  BY Zenon DEF AddToPayload
<1>2. /\ builder.payload \in Seq(Token) /\ builder.file \in Seq(Token) /\ builder.toDisk \in BOOLEAN
      /\ builder \in [payload : Seq(Token), toDisk : BOOLEAN, file : Seq(Token)]
  BY DEF BuilderType
<1>3. /\ b \in [payload : Seq(Token), toDisk : BOOLEAN, file : Seq(Token)]
      /\ Content = IF b.toDisk THEN b.file ELSE b.payload
  <2>1. CASE ~builder.toDisk /\ s # <<>> /\ Spills(s)
    <3>1. <<>> \in Seq(Token) /\ <<>> \o builder.payload = builder.payload
      BY <1>2
    <3>2. b = [payload |-> <<>>, toDisk |-> TRUE, file |-> builder.payload]
      BY <1>1, <2>1, <3>1 DEF MovedToDisk, Written
    <3> QED
      BY <1>2, <2>1, <3>1, <3>2 DEF Content
  <2>2. CASE ~(~builder.toDisk /\ s # <<>> /\ Spills(s))
    <3>1. b = builder
      BY <1>1, <2>2
    <3> QED
      BY <1>2, <3>1 DEF Content
  <2> QED
    BY <2>1, <2>2
<1>4. r = IF b.toDisk THEN [b EXCEPT !.file = b.file \o s] ELSE [b EXCEPT !.payload = b.payload \o s]
  BY <1>1 DEF Written
<1>5. b.payload \in Seq(Token) /\ b.file \in Seq(Token) /\ b.toDisk \in BOOLEAN
  BY <1>3
<1>6. b.payload \o s \in Seq(Token) /\ b.file \o s \in Seq(Token)
  BY <1>5, TokensConcat
<1>7. PICK x, y : x = b.payload \o s /\ y = b.file \o s
  OBVIOUS
<1>8. CASE b.toDisk
  <2>1. r = [b EXCEPT !.file = y]
    BY <1>4, <1>7, <1>8
  <2>2. /\ r \in [payload : Seq(Token), toDisk : BOOLEAN, file : Seq(Token)]
        /\ r.toDisk = b.toDisk /\ r.file = y
    BY <1>3, <1>6, <1>7, <2>1
  <2>3. Content = b.file
    BY <1>3, <1>8
  <2> QED
    BY <1>7, <1>8, <2>2, <2>3
<1>9. CASE ~b.toDisk
  <2>1. r = [b EXCEPT !.payload = x]
    BY <1>4, <1>7, <1>9
  <2>2. /\ r \in [payload : Seq(Token), toDisk : BOOLEAN, file : Seq(Token)]
        /\ r.toDisk = b.toDisk /\ r.payload = x
    BY <1>3, <1>6, <1>7, <2>1
  <2>3. Content = b.payload
    BY <1>3, <1>9
  <2> QED
    BY <1>7, <1>9, <2>2, <2>3
<1> QED
  BY <1>8, <1>9

\* The parts as they are expected.
LEMMA ExpectedIs ==
  ASSUME session \in Sessions
  PROVE  /\ Expected \in Seq(PartType) /\ Len(Expected) = N
         /\ \A i \in 1..N : Expected[i] = [id |-> i, data |-> Data(i)]
<1>1. N \in Nat \ {0} /\ \A i \in 1..N : Data(i) \in Seq(Token)
  BY SessionIs
<1>2. PICK q : q = Expected
  OBVIOUS
<1>3. q = [i \in 1..N |-> [id |-> i, data |-> Data(i)]]
  BY <1>2 DEF Expected
<1>4. \A i \in 1..N : [id |-> i, data |-> Data(i)] \in PartType
  BY <1>1 DEF PartType
<1> HIDE DEF PartType
<1>5. q \in [1..N -> PartType]
  BY <1>3, <1>4
<1>6. q \in Seq(PartType) /\ Len(q) = N
  BY <1>1, <1>5
<1> QED
  BY <1>2, <1>3, <1>6

\* The part that comes after the first k - 1 makes them k.
LEMMA NextArrives ==
  ASSUME session \in Sessions, NEW k \in 1..N, Arrived(k - 1)
  PROVE  Append(parts, [id |-> k, data |-> Data(k)]) = session.old \o SubSeq(Expected, 1, k)
<1>1. PICK o, e, x, a, b : /\ o = session.old /\ e = Expected /\ x = [id |-> k, data |-> Data(k)]
                           /\ a = SubSeq(e, 1, k - 1) /\ b = SubSeq(e, 1, k)
  OBVIOUS
<1>2. /\ o \in Seq(PartType) /\ e \in Seq(PartType) /\ Len(e) = N /\ e[k] = x /\ N \in Nat \ {0} /\ k \in Nat /\ k <= N
      /\ parts = o \o a
  <2>1. session.old \in Seq(PartType) /\ N \in Nat \ {0}
    BY SessionIs DEF PartType
  <2>2. parts = o \o a
    BY <1>1 DEF Arrived
  <2> QED
    BY <1>1, <2>1, <2>2, ExpectedIs
<1> HIDE DEF PartType
<1>3. x \in PartType
  BY <1>2
<1>4. /\ a \in Seq(PartType) /\ Len(a) = k - 1 /\ b \in Seq(PartType) /\ Len(b) = k
      /\ (\A i \in 1..k - 1 : a[i] = e[i]) /\ \A i \in 1..k : b[i] = e[i]
  BY <1>1, <1>2
<1>5. Append(o \o a, x) = o \o b
  <2>1. PICK u, v, n : u = Append(o \o a, x) /\ v = o \o b /\ n = Len(o)
    OBVIOUS
  <2>2. /\ o \o a \in Seq(PartType) /\ Len(o \o a) = n + (k - 1) /\ n \in Nat
        /\ (\A i \in 1..n : (o \o a)[i] = o[i]) /\ \A i \in 1..k - 1 : (o \o a)[n + i] = a[i]
    <3>1. /\ o \o a \in Seq(PartType) /\ Len(o \o a) = Len(o) + Len(a) /\ Len(o) \in Nat
          /\ (\A i \in 1..Len(o) : (o \o a)[i] = o[i]) /\ \A i \in 1..Len(a) : (o \o a)[Len(o) + i] = a[i]
      <4>1. o \in Seq(PartType) /\ a \in Seq(PartType) /\ Len(o) \in Nat
        BY <1>2, <1>4
      <4> QED
        BY <4>1, ConcatIs
    <3> QED
      BY <1>4, <2>1, <3>1
  <2>3. /\ v \in Seq(PartType) /\ Len(v) = n + k
        /\ (\A i \in 1..n : v[i] = o[i]) /\ \A i \in 1..k : v[n + i] = b[i]
    <3>1. /\ o \o b \in Seq(PartType) /\ Len(o \o b) = Len(o) + Len(b)
          /\ (\A i \in 1..Len(o) : (o \o b)[i] = o[i]) /\ \A i \in 1..Len(b) : (o \o b)[Len(o) + i] = b[i]
      <4>1. o \in Seq(PartType) /\ b \in Seq(PartType)
        BY <1>2, <1>4
      <4> QED
        BY <4>1, ConcatIs
    <3> QED
      BY <1>4, <2>1, <3>1
  <2>4. PICK z, m : z = o \o a /\ m = n + (k - 1)
    OBVIOUS
  <2>5. u \in Seq(PartType) /\ Len(u) = m + 1 /\ (\A i \in 1..m : u[i] = z[i]) /\ u[m + 1] = x
    BY <1>3, <2>1, <2>2, <2>4
  <2>6. m + 1 = n + k /\ m \in Nat
    BY <1>2, <2>2, <2>4
  <2>7. ASSUME NEW i \in 1..n + k PROVE u[i] = v[i]
    <3>1. CASE i \in 1..n
      <4>1. i \in 1..m
        BY <1>2, <2>2, <2>4, <3>1
      <4> QED
        BY <2>2, <2>3, <2>4, <2>5, <3>1, <4>1
    <3>2. CASE i = n + k
      <4>1. k \in 1..k
        BY <1>2
      <4> QED
        BY <1>2, <1>4, <2>3, <2>5, <2>6, <3>2, <4>1
    <3>3. CASE i \notin 1..n /\ i # n + k
      <4>1. PICK j : j = i - n
        OBVIOUS
      <4>2. j \in 1..k - 1 /\ j \in 1..k /\ i = n + j /\ i \in 1..m
        BY <1>2, <2>2, <2>4, <3>3, <4>1
      <4>3. u[i] = a[j] /\ v[i] = b[j]
        BY <2>2, <2>3, <2>4, <2>5, <4>2
      <4> QED
        BY <1>4, <4>2, <4>3
    <3> QED
      BY <3>1, <3>2, <3>3
  <2>8. u = v
    BY <2>3, <2>5, <2>6, <2>7, SeqEqual
  <2> QED
    BY <2>1, <2>8
<1> QED
  BY <1>1, <1>2, <1>5

\* A part that is complete is the next of the answer.
LEMMA GeneratesNext ==
  ASSUME session \in Sessions, NEW k \in 1..N, Arrived(k - 1), NEW b,
         (IF b.toDisk THEN b.file ELSE b.payload) = Data(k), Generate(b, k), UNCHANGED session
  PROVE  Arrived(k)' /\ Content' = <<>> /\ BuilderType'
<1>1. parts' = session.old \o SubSeq(Expected, 1, k)
  <2>1. parts' = Append(parts, [id |-> k, data |-> Data(k)])
    BY DEF Generate
  <2> QED
    BY <2>1, NextArrives
<1>2. session.old' = session.old /\ Expected' = Expected
  BY DEF Expected, N, Data
<1>3. Arrived(k)'
  BY <1>1, <1>2 DEF Arrived
<1>4. (builder = NoPart)'
  BY DEF Generate, NoPart
<1> QED
  BY <1>3, <1>4, NoContentNext

\* The parts of a whole answer are unpacked, and the envelope is the first of them.
LEMMA UnpackedHolds ==
  ASSUME session \in Sessions, ReceiveInv
  PROVE  Unpacked
<1>1. PICK o, e : o = session.old /\ e = Expected
  OBVIOUS
<1>2. o \in Seq(PartType) /\ e \in Seq(PartType) /\ Len(e) = N /\ N \in Nat
  BY <1>1, SessionIs, ExpectedIs DEF PartType
<1> HIDE DEF PartType
<1>3. ASSUME NEW k \in 0..N, Arrived(k) PROVE New = SubSeq(e, 1, k)
  <2>1. PICK a : a = SubSeq(e, 1, k)
    OBVIOUS
  <2>2. a \in Seq(PartType) /\ parts = o \o a
    BY <1>1, <1>2, <1>3, <2>1 DEF Arrived
  <2>3. New = SubSeq(o \o a, Len(o) + 1, Len(o \o a))
    BY <1>1, <2>2 DEF New, From
  <2>4. SubSeq(o \o a, Len(o) + 1, Len(o \o a)) = a
    <3>1. PICK z, n, l : z = o \o a /\ n = Len(o) /\ l = Len(a)
      OBVIOUS
    <3>2. z \in Seq(PartType) /\ n \in Nat /\ l \in Nat /\ Len(z) = n + l /\ \A i \in 1..l : z[n + i] = a[i]
      <4>1. /\ o \o a \in Seq(PartType) /\ Len(o \o a) = Len(o) + Len(a)
            /\ \A i \in 1..Len(a) : (o \o a)[Len(o) + i] = a[i]
        BY <1>2, <2>2, ConcatIs
      <4> QED
        BY <1>2, <2>2, <3>1, <4>1
    <3>3. PICK y : y = SubSeq(z, n + 1, n + l)
      OBVIOUS
    <3>4. y \in Seq(PartType) /\ Len(y) = l /\ \A i \in 1..l : y[i] = z[n + i]
      BY <3>2, <3>3, SMTT(30)
    <3>5. y = a
      BY <2>2, <3>1, <3>2, <3>4, SeqEqual
    <3> QED
      BY <3>1, <3>2, <3>3, <3>5
  <2> QED
    BY <2>1, <2>3, <2>4
<1>4. PICK k \in 0..N : Arrived(k)
  BY DEF ReceiveInv
<1>5. Len(New) = k /\ \A i \in 1..k : New[i] = [id |-> i, data |-> Data(i)]
  <2>1. PICK a : a = SubSeq(e, 1, k)
    OBVIOUS
  <2>2. a \in Seq(PartType) /\ Len(a) = k /\ \A i \in 1..k : a[i] = e[i]
    BY <1>2, <2>1
  <2>3. \A i \in 1..k : e[i] = [id |-> i, data |-> Data(i)]
    BY <1>1, <1>2, ExpectedIs
  <2> QED
    BY <1>3, <1>4, <2>1, <2>2, <2>3
<1>6. Len(New) <= N /\ \A i \in DOMAIN New : New[i].id = i /\ New[i].data = Data(i)
  <2>1. DOMAIN New = 1..k
    <3>1. New \in Seq(PartType)
      BY <1>2, <1>3, <1>4
    <3> QED
      BY <1>5, <3>1
  <2> QED
    BY <1>2, <1>5, <2>1
<1>7. ASSUME pc = "done" PROVE Len(New) = N /\ (session.old = <<>> => envelope = Data(1))
  <2>1. Arrived(N) /\ (session.old = <<>> => envelope = Data(1))
    BY <1>7 DEF ReceiveInv
  <2>2. New = SubSeq(e, 1, N) /\ Len(SubSeq(e, 1, N)) = N
    BY <1>2, <1>3, <2>1
  <2> QED
    BY <2>1, <2>2
<1> QED
  BY <1>6, <1>7 DEF Unpacked
-----------------------------------------------------------------------------
(* A MIME message *)

DataEnd(k) == DataAt(k) + Len(Data(k))

\* A part begins with the boundary and its headers.
LEMMA MimeHeader ==
  ASSUME session \in Sessions, boundary \in {0, 1}, MIME, NEW k \in 1..N
  PROVE  /\ Packaged \in Seq(Token) /\ At(1) = 0 /\ At(k) \in Nat /\ DataAt(k) = At(k) + 8
         /\ DataEnd(k) \in Nat /\ DataAt(k) <= DataEnd(k) /\ DataEnd(k) <= Len(Packaged)
         /\ Stands(TheBoundary(boundary), Packaged, At(k))
         /\ Stands(<<CRLF, T("H", <<k>>), CRLF, CRLF>>, Packaged, At(k) + 4)
         /\ Stands(Data(k), Packaged, DataAt(k))
         /\ Stands(TrailerOf(k), Packaged, DataEnd(k))
         /\ At(k + 1) = DataEnd(k) + Len(TrailerOf(k)) /\ At(N + 1) = Len(Packaged)
<1>1. PICK b, h, d, t, w, p : /\ b = TheBoundary(boundary) /\ h = <<CRLF, T("H", <<k>>), CRLF, CRLF>>
                              /\ d = Data(k) /\ t = TrailerOf(k) /\ w = Packaged /\ p = At(k)
  OBVIOUS
<1>2. /\ w \in Seq(Token) /\ At(1) = 0 /\ p \in Nat
      /\ At(k + 1) = p + Len(HeaderOf(k)) + Len(d) + Len(t)
      /\ At(N + 1) = Len(w)
      /\ Stands(HeaderOf(k), w, p) /\ Stands(d, w, p + Len(HeaderOf(k)))
      /\ Stands(t, w, p + Len(HeaderOf(k)) + Len(d))
  BY <1>1, SectionStands
<1>3. HeaderOf(k) = b \o h /\ Len(HeaderOf(k)) = 8 /\ t \in Seq(Token)
  BY <1>1, AroundIs
<1>4. b \in Seq(Token) /\ Len(b) = 4 /\ h \in Seq(Token) /\ d \in Seq(Token) /\ k \in Nat
  <2>1. k \in Nat /\ d \in Seq(Token) /\ <<k>> \in Seq(Nat)
    BY <1>1, SessionIs
  <2>2. CRLF \in Token /\ T("H", <<k>>) \in Token
    BY <2>1, TokensAre
  <2>3. b \in Seq(Token) /\ Len(b) = 4
    <3>1. boundary \in Nat
      OBVIOUS
    <3> QED
      BY <1>1, <3>1, BoundaryIs
  <2> QED
    BY <1>1, <2>1, <2>2, <2>3
<1>5. Stands(b, w, p) /\ Stands(h, w, p + 4)
  <2>1. Stands(b \o h, w, p)
    BY <1>2, <1>3
  <2>2. b \in Seq(Token) /\ h \in Seq(Token) /\ w \in Seq(Token) /\ p \in Nat
    BY <1>2, <1>4
  <2>3. Stands(b, w, p) /\ Stands(h, w, p + Len(b))
    BY <2>1, <2>2, StandsConcat
  <2> QED
    BY <1>4, <2>3
<1>6. DataAt(k) = p + 8 /\ DataEnd(k) = p + 8 + Len(d)
  BY <1>1, <1>3 DEF DataAt, DataEnd
<1>7. Len(d) \in Nat /\ Len(w) \in Nat /\ Len(t) \in Nat
  BY <1>2, <1>3, <1>4
<1>8. Stands(d, w, p + 8) /\ p + 8 + Len(d) <= Len(w)
  BY <1>2, <1>3 DEF Stands
<1>9. PICK l : l = p + 8 + Len(d)
  OBVIOUS
<1>10. DataEnd(k) = l /\ DataAt(k) = p + 8 /\ l \in Nat /\ p + 8 <= l /\ l <= Len(w) /\ Stands(t, w, l)
       /\ At(k + 1) = l + Len(t)
  BY <1>2, <1>3, <1>6, <1>7, <1>8, <1>9
<1> QED
  BY <1>1, <1>2, <1>5, <1>8, <1>10, Zenon

\* Its data goes to the next boundary, which tells whether it is the last.
LEMMA MimeText ==
  ASSUME session \in Sessions, boundary \in {0, 1}, MIME, NEW k \in 1..N
  PROVE  /\ k < N => At(k + 1) = DataEnd(k)
         /\ Stands(TheBoundary(boundary), Packaged, DataEnd(k))
         /\ DataEnd(k) + 5 <= Len(Packaged)
         /\ Packaged[DataEnd(k) + 5] = IF k = N THEN T("D", <<>>) ELSE CRLF
<1>1. PICK b, w, e : b = TheBoundary(boundary) /\ w = Packaged /\ e = DataEnd(k)
  OBVIOUS
<1>2. w \in Seq(Token) /\ e \in Nat /\ Stands(TrailerOf(k), w, e) /\ At(k + 1) = e + Len(TrailerOf(k))
  BY <1>1, MimeHeader
<1>3. N \in Nat \ {0} /\ Len(w) \in Nat
  BY <1>2, SessionIs
<1>4. CASE k < N
  <2>1. PICK h, x : h = <<CRLF, T("H", <<k + 1>>), CRLF, CRLF>> /\ x = At(k + 1)
    OBVIOUS
  <2>2. x = e /\ k + 1 \in 1..N
    <3>1. Len(TrailerOf(k)) = 0
      <4>1. Len(TrailerOf(k)) = IF k = N THEN 6 ELSE 0
        BY AroundIs
      <4>2. k # N
        BY <1>3, <1>4
      <4> QED
        BY <4>1, <4>2
    <3> QED
      BY <1>2, <1>3, <1>4, <2>1, <3>1
  <2>3. Stands(b, w, e) /\ Stands(h, w, e + 4)
    BY <1>1, <2>1, <2>2, MimeHeader
  <2>4. Len(h) = 4 /\ h[1] = CRLF
    BY <2>1
  <2>5. (e + 4) + 4 <= Len(w) /\ w[(e + 4) + 1] = CRLF /\ (e + 4) + 1 = e + 5
    <3>1. PICK q \in Nat : q = e + 4
      BY <1>2
    <3>2. q + Len(h) <= Len(w) /\ \A j \in 1..Len(h) : h[j] = w[q + j]
      BY <2>3, <3>1 DEF Stands
    <3>3. q + 4 <= Len(w) /\ w[q + 1] = CRLF
      BY <2>4, <3>2
    <3>4. q + 1 = e + 5
      BY <1>2, <3>1
    <3> QED
      BY <3>1, <3>3, <3>4
  <2>6. e + 5 <= Len(w)
    BY <1>2, <1>3, <2>5
  <2> QED
    BY <1>1, <1>3, <1>4, <2>1, <2>2, <2>3, <2>5, <2>6
<1>5. CASE k = N
  <2>1. PICK t, d, c : t = TermBoundary(boundary) /\ d = <<T("D", <<>>)>> /\ c = <<CRLF>>
    OBVIOUS
  <2>2. /\ b \in Seq(Token) /\ Len(b) = 4 /\ t \in Seq(Token) /\ Len(t) = 5
        /\ d \in Seq(Token) /\ Len(d) = 1 /\ d[1] = T("D", <<>>) /\ c \in Seq(Token)
    <3>1. <<>> \in Seq(Nat)
      OBVIOUS
    <3>2. CRLF \in Token /\ T("D", <<>>) \in Token
      BY <3>1, TokensAre
    <3>3. boundary \in Nat
      OBVIOUS
    <3>4. b \in Seq(Token) /\ Len(b) = 4 /\ t \in Seq(Token) /\ Len(t) = 5
      BY <1>1, <2>1, <3>3, BoundaryIs
    <3> QED
      BY <2>1, <3>2, <3>4
  <2>3. t = b \o d
    BY <1>1, <2>1 DEF TermBoundary
  <2>4. TrailerOf(k) = t \o c
    BY <1>5, <2>1 DEF TrailerOf
  <2>5. Stands(t, w, e)
    <3>1. Stands(t \o c, w, e)
      BY <1>2, <2>4
    <3> QED
      BY <1>2, <2>2, <3>1, StandsConcat
  <2>6. Stands(b, w, e) /\ Stands(d, w, e + 4)
    <3>1. Stands(b \o d, w, e)
      BY <2>3, <2>5
    <3>2. Stands(b, w, e) /\ Stands(d, w, e + Len(b))
      BY <1>2, <2>2, <3>1, StandsConcat
    <3> QED
      BY <2>2, <3>2
  <2>7. (e + 4) + 1 <= Len(w) /\ w[(e + 4) + 1] = T("D", <<>>) /\ (e + 4) + 1 = e + 5
    BY <1>2, <2>2, <2>6 DEF Stands
  <2>8. e + 5 <= Len(w)
    BY <1>2, <1>3, <2>7
  <2> QED
    BY <1>1, <1>3, <1>5, <2>6, <2>7, <2>8
<1> QED
  BY <1>3, <1>4, <1>5

\* The tokens of a message, when they are wanted one by one.
LEMMA MimeTokens ==
  ASSUME session \in Sessions, boundary \in {0, 1}, MIME, NEW k \in 1..N
  PROVE  /\ At(k) + 8 <= Len(Packaged)
         /\ Packaged[At(k) + 1].t = "N" /\ Packaged[At(k) + 2].t = "D" /\ Packaged[At(k) + 3].t = "M"
         /\ Packaged[At(k) + 4].t = "b"
         /\ Packaged[At(k) + 5] = CRLF /\ Packaged[At(k) + 6] = T("H", <<k>>)
         /\ Packaged[At(k) + 7] = CRLF /\ Packaged[At(k) + 8] = CRLF
         /\ Packaged[DataEnd(k) + 1] = CRLF
<1>1. PICK b, h, w, p, e : /\ b = TheBoundary(boundary) /\ h = <<CRLF, T("H", <<k>>), CRLF, CRLF>> /\ w = Packaged
                           /\ p = At(k) /\ e = DataEnd(k)
  OBVIOUS
<1>2. /\ w \in Seq(Token) /\ p \in Nat /\ e \in Nat /\ Stands(b, w, p) /\ Stands(h, w, p + 4)
      /\ Stands(b, w, e)
  BY <1>1, MimeHeader, MimeText
<1>3. b = <<CRLF, T("D", <<>>), T("M", <<>>), T("b", <<boundary>>)>> /\ Len(b) = 4
  BY <1>1, BoundaryIs
<1>4. b[1] = CRLF /\ b[2] = T("D", <<>>) /\ b[3] = T("M", <<>>) /\ b[4] = T("b", <<boundary>>)
  BY <1>3
<1>5. w[p + 1] = b[1] /\ w[p + 2] = b[2] /\ w[p + 3] = b[3] /\ w[p + 4] = b[4] /\ w[e + 1] = b[1]
  <2>1. Len(b) = 4
    BY <1>3
  <2>2. (\A j \in 1..4 : b[j] = w[p + j]) /\ \A j \in 1..4 : b[j] = w[e + j]
    BY <1>2, <2>1 DEF Stands
  <2> QED
    BY <2>2
<1>6. h[1] = CRLF /\ h[2] = T("H", <<k>>) /\ h[3] = CRLF /\ h[4] = CRLF /\ Len(h) = 4
  BY <1>1
<1>7. /\ (p + 4) + 1 = p + 5 /\ (p + 4) + 2 = p + 6 /\ (p + 4) + 3 = p + 7 /\ (p + 4) + 4 = p + 8
      /\ p + 4 \in Nat
  BY <1>2
<1>8. /\ w[p + 5] = h[1] /\ w[p + 6] = h[2] /\ w[p + 7] = h[3] /\ w[p + 8] = h[4] /\ p + 8 <= Len(w)
  <2>1. (p + 4) + 4 <= Len(w) /\ \A j \in 1..4 : h[j] = w[(p + 4) + j]
    BY <1>2, <1>6 DEF Stands
  <2> QED
    BY <1>7, <2>1
<1>9. CRLF.t = "N" /\ T("D", <<>>).t = "D" /\ T("M", <<>>).t = "M" /\ T("b", <<boundary>>).t = "b"
  BY DEF CRLF, T
<1> QED
  BY <1>1, <1>4, <1>5, <1>6, <1>8, <1>9

\* Neither the message nor the parts that are expected change when the boundary does not.
LEMMA SameExpected ==
  ASSUME UNCHANGED <<session, boundary>>
  PROVE  /\ N' = N /\ MIME' = MIME /\ Packaged' = Packaged /\ session.old' = session.old /\ Expected' = Expected
         /\ \A i : Data(i)' = Data(i) /\ At(i)' = At(i) /\ DataAt(i)' = DataAt(i) /\ DataEnd(i)' = DataEnd(i)
<1>1. /\ N' = N /\ MIME' = MIME /\ Packaged' = Packaged
      /\ \A i : Data(i)' = Data(i) /\ HeaderOf(i)' = HeaderOf(i) /\ At(i)' = At(i)
  BY SameMessage
<1>2. session.old' = session.old /\ Expected' = Expected
  BY <1>1 DEF Expected
<1>3. \A i : DataAt(i)' = DataAt(i)
  BY <1>1 DEF DataAt
<1>4. \A i : DataEnd(i)' = DataEnd(i)
  BY <1>1, <1>3 DEF DataEnd
<1> QED
  BY <1>1, <1>2, <1>3, <1>4

\* Nor do the parts that arrived and what was taken for the next, when nothing is added.
LEMMA SameResult ==
  ASSUME UNCHANGED <<session, boundary, builder, parts>>
  PROVE  Content' = Content /\ (BuilderType' <=> BuilderType) /\ \A k : Arrived(k)' <=> Arrived(k)
<1>1. session.old' = session.old /\ Expected' = Expected
  BY SameExpected
<1> QED
  BY <1>1 DEF Content, BuilderType, Arrived

\* The first boundary is the one of part 1, which starts the message or ends its first line.
LEMMA FindsFirst ==
  ASSUME session \in Sessions, boundary \in {0, 1}, MIME, NEW p \in Nat, FindAt(p), FindBoundary
  PROVE  /\ UNCHANGED <<session, boundary, builder, parts>> /\ pc' \in {"find", "headers", "beyond", "failed"}
         /\ pc' = "find" => FindAt(p)'
         /\ pc' = "headers" => HeadersAt(p, 1)'
<1>1. PICK r \in ReadToBuffer(0) :
        /\ Holds(r)
        /\ bdy' = Search(r.buff, 0, Tail(TheBoundary(boundary))) + Len(TheBoundary(boundary))
        /\ pc' = CASE Search(r.buff, 0, Tail(TheBoundary(boundary))) = Len(r.buff)
                        -> IF Len(r.buff) < BUFF THEN "find" ELSE "failed"
                   [] /\ Search(r.buff, 0, Tail(TheBoundary(boundary))) < Len(r.buff)
                      /\ bdy' > Len(r.buff) -> "beyond"
                   [] OTHER -> "headers"
  BY DEF FindBoundary
<1>2. UNCHANGED <<session, boundary, builder, parts>>
  BY DEF FindBoundary, sender, result
<1>3. PICK b, w, s, t : b = r.buff /\ w = Packaged /\ s = Tail(TheBoundary(boundary)) /\ t = TheBoundary(boundary)
  OBVIOUS
<1>4. PICK i : i = Search(b, 0, s)
  OBVIOUS
<1>5. /\ bdy' = i + Len(t)
      /\ pc' = CASE i = Len(b) -> IF Len(b) < BUFF THEN "find" ELSE "failed"
                 [] i < Len(b) /\ bdy' > Len(b) -> "beyond"
                 [] OTHER -> "headers"
  BY <1>1, <1>3, <1>4
<1>6. 1 \in 1..N /\ w \in Seq(Token) /\ At(1) = 0 /\ Stands(t, w, 0)
  <2>1. 1 \in 1..N
    BY SessionIs
  <2> QED
    BY <1>3, <2>1, MimeHeader
<1>7. FindAt(p)' /\ buff' = b /\ b \in Seq(Token) /\ Stands(b, w, p) /\ p \in {0, 1}
  <2>1. Wired(p) /\ p \in {0, 1} /\ Arrived(0) /\ Content = <<>> /\ buff \in Seq(Token)
    BY DEF FindAt, Wired
  <2>2. 0 \in 0..Len(buff)
    BY <2>1
  <2>3. Wired(p + 0)'
    BY <1>1, <1>2, <2>1, <2>2, ReadKeeps
  <2>4. p + 0 = p
    OBVIOUS
  <2>5. Wired(p)'
    BY <2>3, <2>4 DEF Wired
  <2>6. Arrived(0)' /\ Content' = <<>>
    BY <1>2, <2>1, SameResult
  <2>7. buff' = b
    BY <1>1, <1>3 DEF Holds
  <2>8. b \in Seq(Token) /\ Stands(b, w, p)
    <3>1. Packaged' = w
      BY <1>2, <1>3, SameExpected
    <3> QED
      BY <2>5, <2>7, <3>1 DEF Wired
  <2> QED
    BY <2>1, <2>5, <2>6, <2>7, <2>8 DEF FindAt
<1>8. t \in Seq(Token) /\ Len(t) = 4 /\ t = <<CRLF, T("D", <<>>), T("M", <<>>), T("b", <<boundary>>)>>
  <2>1. boundary \in Nat
    OBVIOUS
  <2> QED
    BY <1>3, <2>1, BoundaryIs
<1>9. s \in Seq(Token) /\ Len(s) = 3 /\ \A k \in 1..3 : s[k] = t[k + 1]
  <2>1. s = Tail(t) /\ t # <<>>
    BY <1>3, <1>8
  <2> QED
    BY <1>8, <2>1
<1>10. Stands(s, w, 1) /\ ~Stands(s, w, 0)
  <2>1. 0 + 4 <= Len(w) /\ \A k \in 1..4 : t[k] = w[0 + k]
    BY <1>6, <1>8 DEF Stands
  <2>2. Len(w) \in Nat
    BY <1>6
  <2>3. \A k \in 1..3 : s[k] = w[1 + k]
    <3>1. \A k \in 1..3 : k + 1 \in 1..4 /\ 0 + (k + 1) = 1 + k
      OBVIOUS
    <3> QED
      BY <1>9, <2>1, <3>1
  <2>4. w[1].t = "N" /\ s[1].t = "D"
    <3>1. CRLF.t = "N" /\ T("D", <<>>).t = "D"
      BY DEF CRLF, T
    <3>2. t[1] = CRLF /\ t[2] = T("D", <<>>)
      BY <1>8
    <3>3. t[1] = w[0 + 1] /\ s[1] = t[1 + 1]
      BY <1>9, <2>1
    <3> QED
      BY <3>1, <3>2, <3>3
  <2>5. Stands(s, w, 1)
    BY <1>9, <2>1, <2>2, <2>3 DEF Stands
  <2>6. ~Stands(s, w, 0)
    <3>1. "N" # "D"
      OBVIOUS
    <3> QED
      BY <1>9, <2>4, <3>1 DEF Stands
  <2> QED
    BY <2>5, <2>6
<1>11. i = IF p + Len(b) >= 1 + 3 THEN 1 - p ELSE Len(b)
  <2>1. /\ Len(s) > 0 /\ 0 \in 0..Len(b) /\ 1 \in Nat /\ p + 0 <= 1
        /\ \A j \in p + 0..1 - 1 : ~Stands(s, w, j)
    <3>1. \A j \in p + 0..1 - 1 : j = 0
      BY <1>7
    <3>2. Len(b) \in Nat
      BY <1>7
    <3> QED
      BY <1>7, <1>9, <1>10, <3>1, <3>2
  <2>2. Search(b, 0, s) = IF p + Len(b) >= 1 + Len(s) THEN 1 - p ELSE Len(b)
    <3>1. /\ s \in Seq(Token) /\ b \in Seq(Token) /\ w \in Seq(Token) /\ p \in Nat /\ Stands(b, w, p) /\ Stands(s, w, 1)
      BY <1>6, <1>7, <1>9, <1>10
    <3> QED
      BY <2>1, <3>1, FirstIs
  <2> QED
    BY <1>4, <1>9, <2>2
<1>12. Len(b) \in Nat
  BY <1>7
<1>13. pc' \in {"find", "headers", "beyond", "failed"}
  BY <1>5
<1>14. ASSUME pc' = "headers" PROVE HeadersAt(p, 1)'
  <2>1. i # Len(b) /\ ~(i < Len(b) /\ bdy' > Len(b))
    <3>1. CASE i = Len(b)
      BY <1>5, <1>14, <3>1
    <3>2. CASE i # Len(b) /\ i < Len(b) /\ bdy' > Len(b)
      BY <1>5, <1>14, <3>2
    <3> QED
      BY <3>1, <3>2
  <2>2. i = 1 - p /\ bdy' = 5 - p /\ bdy' \in 0..Len(b)
    BY <1>5, <1>7, <1>8, <1>11, <1>12, <2>1
  <2>3. At(1)' = 0
    BY <1>2, <1>6, SameExpected
  <2>4. p + bdy' = 0 + 5 /\ 1 - 1 = 0
    BY <1>7, <2>2
  <2> QED
    BY <1>7, <2>2, <2>3, <2>4 DEF FindAt, HeadersAt
<1> QED
  BY <1>2, <1>7, <1>13, <1>14

\* An empty line ends the headers of a part, and its data follows; the part has the id they name.
LEMMA ParsesHeaders ==
  ASSUME session \in Sessions, boundary \in {0, 1}, MIME, NEW p \in Nat, NEW k \in 1..N, HeadersAt(p, k), ParseHeaders
  PROVE  UNCHANGED <<session, boundary, builder, parts>> /\ pc' = "body" /\ BodyAt(p, k)'
<1>1. /\ EndOfHeaders < Len(buff) /\ cid' = ContentId(bdy, EndOfHeaders) /\ search' = EndOfHeaders + 2 /\ pc' = "body"
      /\ UNCHANGED <<session, boundary, builder, parts, buff, wire>>
  BY DEF ParseHeaders, sender, result
<1>2. PICK b, w, s, e, y, a : /\ b = buff /\ w = Packaged /\ s = <<CRLF, CRLF>> /\ e = EndOfHeaders /\ y = bdy
                              /\ a = At(k)
  OBVIOUS
<1>3. /\ Wired(p) /\ Arrived(k - 1) /\ Content = <<>> /\ y \in 0..Len(b) /\ p + y \in {a + 4, a + 5}
      /\ b \in Seq(Token) /\ Stands(b, w, p)
  BY <1>2 DEF HeadersAt, Wired
<1>4. /\ w \in Seq(Token) /\ a \in Nat /\ DataAt(k) = a + 8 /\ a + 8 <= Len(w)
      /\ w[a + 5] = CRLF /\ w[a + 6] = T("H", <<k>>) /\ w[a + 7] = CRLF /\ w[a + 8] = CRLF
  BY <1>2, MimeHeader, MimeTokens
<1>5. /\ s \in Seq(Token) /\ Len(s) = 2 /\ s[1] = CRLF /\ s[2] = CRLF /\ Len(b) \in Nat /\ Len(w) \in Nat /\ y \in Nat
      /\ k \in Nat
  <2>1. <<>> \in Seq(Nat)
    OBVIOUS
  <2>2. CRLF \in Token
    BY <2>1, TokensAre
  <2>3. k \in Nat
    BY SessionIs
  <2>4. s \in Seq(Token) /\ Len(s) = 2 /\ s[1] = CRLF /\ s[2] = CRLF
    BY <1>2, <2>2
  <2>5. Len(b) \in Nat /\ Len(w) \in Nat
    BY <1>3, <1>4
  <2>6. y \in Nat
    BY <1>3, <2>5
  <2> QED
    BY <2>3, <2>4, <2>5, <2>6
<1>6. CRLF.t = "N" /\ T("H", <<k>>).t = "H" /\ T("H", <<k>>).v[1] = k /\ "N" # "H"
  BY DEF CRLF, T
<1>7. PICK n : n = a + 6
  OBVIOUS
<1>8. Stands(s, w, n)
  <2>1. n \in Nat /\ n + 1 = a + 7 /\ n + 2 = a + 8 /\ n + 2 <= Len(w)
    BY <1>4, <1>7
  <2>2. w[n + 1] = s[1] /\ w[n + 2] = s[2]
    BY <1>4, <1>5, <2>1
  <2> QED
    BY <1>5, <2>1, <2>2 DEF Stands
<1>9. ASSUME NEW j \in p + y..n - 1 PROVE ~Stands(s, w, j)
  <2>1. j = a + 4 \/ j = a + 5
    BY <1>3, <1>4, <1>5, <1>7
  <2>2. ASSUME Stands(s, w, j) PROVE w[j + 1] = CRLF /\ w[j + 2] = CRLF
    BY <1>5, <2>2 DEF Stands
  <2>3. w[a + 6] # CRLF
    BY <1>4, <1>6
  <2>4. (a + 4) + 2 = a + 6 /\ (a + 5) + 1 = a + 6
    BY <1>4
  <2> QED
    BY <2>1, <2>2, <2>3, <2>4
<1>10. e = IF p + Len(b) >= n + 2 THEN n - p ELSE Len(b)
  <2>1. /\ s \in Seq(Token) /\ Len(s) > 0 /\ b \in Seq(Token) /\ w \in Seq(Token) /\ Stands(b, w, p)
        /\ y \in 0..Len(b) /\ n \in Nat /\ p + y <= n /\ Stands(s, w, n) /\ \A j \in p + y..n - 1 : ~Stands(s, w, j)
    BY <1>3, <1>4, <1>5, <1>7, <1>8, <1>9
  <2>2. Search(b, y, s) = IF p + Len(b) >= n + Len(s) THEN n - p ELSE Len(b)
    BY <2>1, FirstIs
  <2> QED
    BY <1>2, <1>5, <2>2 DEF EndOfHeaders
<1>11. e = n - p /\ p + Len(b) >= n + 2 /\ e + 2 \in 0..Len(b) /\ e \in Nat /\ p + e = a + 6
  <2>1. e < Len(b)
    BY <1>1, <1>2
  <2>2. PICK m \in Nat : m = Len(b)
    BY <1>5
  <2>3. e < m /\ e = IF p + m >= n + 2 THEN n - p ELSE m
    BY <1>10, <2>1, <2>2
  <2>4. y \in Nat /\ a \in Nat /\ n = a + 6 /\ p + y <= n
    BY <1>3, <1>4, <1>5, <1>7
  <2>5. p + m >= n + 2 /\ e = n - p
    BY <2>3, <2>4
  <2>6. e \in Nat /\ e + 2 \in 0..m /\ p + e = a + 6
    BY <2>4, <2>5
  <2> QED
    BY <2>2, <2>5, <2>6
<1>12. cid' = k
  <2>1. PICK h : h = {j \in y + 1..e : b[j].t = "H"}
    OBVIOUS
  <2>2. ContentId(y, e) = IF h = {} THEN 0 ELSE b[CHOOSE j \in h : TRUE].v[1]
    BY <1>2, <2>1 DEF ContentId
  <2>3. e \in y + 1..e /\ e \in 1..Len(b)
    <3>1. PICK m \in Nat : m = Len(b)
      BY <1>5
    <3>2. /\ e \in Nat /\ e + 2 \in 0..m /\ y \in Nat /\ a \in Nat /\ p + e = a + 6
          /\ p + y = a + 4 \/ p + y = a + 5
      BY <1>3, <1>4, <1>5, <1>11, <3>1
    <3>3. y + 1 <= e /\ e <= m /\ 1 <= e
      BY <3>2
    <3> QED
      BY <3>1, <3>2, <3>3
  <2>4. b[e] = T("H", <<k>>)
    <3>1. b[e] = w[p + e]
      BY <1>3, <2>3 DEF Stands
    <3> QED
      BY <1>4, <1>11, <3>1
  <2>5. ASSUME NEW j \in h PROVE j = e
    <3>1. j \in y + 1..e /\ b[j].t = "H"
      BY <2>1
    <3>2. ASSUME j # e PROVE FALSE
      <4>1. p + j = a + 5 /\ j \in 1..Len(b)
        <5>1. PICK m \in Nat : m = Len(b)
          BY <1>5
        <5>2. /\ y \in Nat /\ e \in Nat /\ a \in Nat /\ p + e = a + 6 /\ e + 2 <= m /\ p + y >= a + 4
              /\ j \in y + 1..e /\ j # e
          <6>1. y \in Nat /\ a \in Nat
            BY <1>3, <1>4
          <6>2. e \in Nat /\ p + e = a + 6 /\ e + 2 <= m
            BY <1>5, <1>11, <5>1
          <6>3. p + y >= a + 4
            BY <1>3, <1>4, <1>5, <6>1
          <6> QED
            BY <3>1, <3>2, <6>1, <6>2, <6>3
        <5>3. p + j = a + 5 /\ j \in 1..m
          BY <5>2
        <5> QED
          BY <5>1, <5>3
      <4>2. b[j] = w[p + j]
        BY <1>3, <4>1 DEF Stands
      <4> QED
        BY <1>4, <1>6, <3>1, <4>1, <4>2
    <3> QED
      BY <3>2
  <2>6. e \in h
    BY <1>6, <2>1, <2>3, <2>4
  <2>7. (CHOOSE j \in h : TRUE) = e
    BY <2>5, <2>6
  <2> QED
    BY <1>1, <1>2, <1>6, <2>2, <2>4, <2>6, <2>7
<1>13. BodyAt(p, k)'
  <2>1. /\ Packaged' = Packaged /\ DataAt(k)' = DataAt(k) /\ Data(k)' = Data(k)
    BY <1>1, SameExpected
  <2>2. Arrived(k - 1)' /\ Content' = <<>>
    BY <1>1, <1>3, SameResult
  <2>3. Wired(p)'
    BY <1>1, <1>3, <2>1 DEF Wired
  <2>4. Data(k) \in Seq(Token)
    BY SessionIs
  <2>5. Stands(<<>>, Data(k), 0) /\ Len(<<>>) = 0
    BY <2>4 DEF Stands
  <2>6. search' = e + 2 /\ buff' = b /\ p + (e + 2) = (a + 8) + 0 /\ e + 2 \in 0..Len(b)
    <3>1. search' = e + 2 /\ buff' = b
      BY <1>1, <1>2
    <3>2. p + (e + 2) = (a + 8) + 0
      BY <1>4, <1>11, SMTT(30)
    <3> QED
      BY <1>11, <3>1, <3>2
  <2> QED
    BY <1>4, <1>12, <2>1, <2>2, <2>3, <2>5, <2>6 DEF BodyAt
<1> QED
  BY <1>1, <1>13

\* More of the headers is read behind what the buffer has of them.
LEMMA ReadsHeaders ==
  ASSUME session \in Sessions, boundary \in {0, 1}, MIME, NEW p \in Nat, NEW k \in 1..N, HeadersAt(p, k), ReadHeaders
  PROVE  /\ UNCHANGED <<session, boundary, builder, parts>> /\ pc' \in {"headers", "too big", "astray"}
         /\ \E q \in Nat : HeadersAt(q, k)'
<1>1. PICK r \in ReadToBuffer(bdy) : Holds(r)
  BY DEF ReadHeaders
<1>2. UNCHANGED <<session, boundary, builder, parts>> /\ pc' \in {"headers", "too big", "astray"} /\ bdy' = 0
  BY DEF ReadHeaders, sender, result
<1>3. PICK c, q, a : c = bdy /\ q = p + c /\ a = At(k)
  OBVIOUS
<1>4. Wired(p) /\ Arrived(k - 1) /\ Content = <<>> /\ c \in 0..Len(buff) /\ q \in {a + 4, a + 5} /\ buff \in Seq(Token)
  BY <1>3 DEF HeadersAt, Wired
<1>5. q \in Nat /\ Wired(q)'
  <2>1. Wired(p + c)'
    BY <1>1, <1>2, <1>3, <1>4, ReadKeeps
  <2>2. c \in Nat
    BY <1>4
  <2> QED
    BY <1>3, <2>1, <2>2 DEF Wired
<1>6. At(k)' = a /\ Arrived(k - 1)' /\ Content' = <<>>
  BY <1>2, <1>3, <1>4, SameExpected, SameResult
<1>7. bdy' \in 0..Len(buff') /\ q + bdy' = q
  <2>1. buff' \in Seq(Token)
    BY <1>5 DEF Wired
  <2>2. 0 \in 0..Len(buff') /\ q + 0 = q
    BY <1>5, <2>1
  <2> QED
    BY <1>2, <2>2
<1>8. HeadersAt(q, k)'
  BY <1>4, <1>5, <1>6, <1>7 DEF HeadersAt
<1> QED
  BY <1>2, <1>5, <1>8

\* No boundary is found in a part's data, nor across its end: the first is the one behind it.
LEMMA NoBoundaryInside ==
  ASSUME session \in Sessions, boundary \in {0, 1}, MIME, NoPartHasIt, NEW k \in 1..N, NEW j \in DataAt(k)..DataEnd(k) - 1
  PROVE  ~Stands(TheBoundary(boundary), Packaged, j)
<1>1. PICK t, w, d, a, e : t = TheBoundary(boundary) /\ w = Packaged /\ d = Data(k) /\ a = DataAt(k) /\ e = DataEnd(k)
  OBVIOUS
<1>2. /\ w \in Seq(Token) /\ a \in Nat /\ Stands(d, w, a) /\ d \in Seq(Token) /\ Len(d) \in Nat /\ e = a + Len(d)
      /\ w[e + 1] = CRLF
  <2>1. /\ Packaged \in Seq(Token) /\ At(k) \in Nat /\ DataAt(k) = At(k) + 8 /\ Stands(Data(k), Packaged, DataAt(k))
    BY MimeHeader
  <2>2. Packaged[DataEnd(k) + 1] = CRLF
    BY MimeTokens
  <2>3. Data(k) \in Seq(Token) /\ Len(Data(k)) \in Nat
    BY SessionIs
  <2> QED
    BY <1>1, <2>1, <2>2, <2>3, SMTT(30) DEF DataEnd
<1>3. Len(t) = 4 /\ t = <<CRLF, T("D", <<>>), T("M", <<>>), T("b", <<boundary>>)>>
  <2>1. boundary \in Nat
    OBVIOUS
  <2> QED
    BY <1>1, <2>1, BoundaryIs
<1>4. t[2].t = "D" /\ t[3].t = "M" /\ t[4].t = "b" /\ CRLF.t = "N" /\ t[3] = T("M", <<>>) /\ t[4] = T("b", <<boundary>>)
  BY <1>3 DEF T, CRLF
<1>5. "D" # "N" /\ "M" # "N" /\ "b" # "N"
  OBVIOUS
<1>6. j \in Nat /\ a <= j /\ j < e /\ e \in Nat
  BY <1>1, <1>2, SMTT(30)
<1> SUFFICES ASSUME Stands(t, w, j) PROVE FALSE
  BY <1>1
<1>7. \A i \in 1..4 : t[i] = w[j + i]
  BY <1>3 DEF Stands
<1>8. CASE e - j <= 3
  <2>1. PICK c : c = e - j
    OBVIOUS
  <2>2. c \in 1..3 /\ c + 1 \in 1..4 /\ j + (c + 1) = e + 1
    BY <1>6, <1>8, <2>1
  <2>3. t[c + 1] = CRLF
    BY <1>2, <1>7, <2>2
  <2>4. c = 1 \/ c = 2 \/ c = 3
    BY <2>2
  <2> QED
    BY <1>4, <1>5, <2>3, <2>4
<1>9. CASE e - j >= 4
  <2>1. PICK l, i : l = Len(d) /\ i = (j - a) + 3
    OBVIOUS
  <2>2. i \in 1..l - 1 /\ i \in 1..l /\ i + 1 \in 1..l /\ a + i = j + 3 /\ a + (i + 1) = j + 4
    BY <1>2, <1>6, <1>9, <2>1
  <2>3. d[i] = w[a + i] /\ d[i + 1] = w[a + (i + 1)]
    BY <1>2, <2>1, <2>2 DEF Stands
  <2>4. t[3] = w[j + 3] /\ t[4] = w[j + 4]
    BY <1>7
  <2>5. d[i] = T("M", <<>>) /\ d[i + 1] = T("b", <<boundary>>)
    BY <1>4, <2>2, <2>3, <2>4
  <2>6. Absent(d, l)
    BY <1>1, <2>1 DEF NoPartHasIt
  <2> QED
    BY <2>2, <2>5, <2>6 DEF Absent
<1> QED
  BY <1>6, <1>8, <1>9

\* The builder has tokens.
LEMMA ContentIs ==
  ASSUME BuilderType
  PROVE  Content \in Seq(Token) /\ Len(Content) \in Nat
<1>1. Content \in Seq(Token)
  BY DEF BuilderType, Content
<1> QED
  BY <1>1

\* So a part's data ends where it does, as soon as the buffer has the boundary behind it.
LEMMA DataEnds ==
  ASSUME session \in Sessions, boundary \in {0, 1}, MIME, NoPartHasIt, BuilderType, NEW p \in Nat, NEW k \in 1..N,
         BodyAt(p, k)
  PROVE  /\ EndOfPart = IF p + Len(buff) >= DataEnd(k) + 4 THEN DataEnd(k) - p ELSE Len(buff)
         /\ p + search <= DataEnd(k) /\ Len(TheBoundary(boundary)) = 4 /\ DataEnd(k) \in Nat
         /\ Len(Content) <= Len(Data(k)) /\ Len(Content) \in Nat
<1>1. PICK t, b, w, c, e, y : /\ t = TheBoundary(boundary) /\ b = buff /\ w = Packaged /\ c = Len(Content)
                              /\ e = DataEnd(k) /\ y = search
  OBVIOUS
<1>2. /\ b \in Seq(Token) /\ Stands(b, w, p) /\ y \in 0..Len(b) /\ p + y = DataAt(k) + c
      /\ Stands(Content, Data(k), 0)
  BY <1>1 DEF BodyAt, Wired
<1>3. /\ w \in Seq(Token) /\ e \in Nat /\ DataAt(k) \in Nat /\ e = DataAt(k) + Len(Data(k)) /\ Stands(t, w, e)
      /\ Data(k) \in Seq(Token) /\ Len(Data(k)) \in Nat /\ Len(b) \in Nat
  <2>1. /\ Packaged \in Seq(Token) /\ At(k) \in Nat /\ DataAt(k) = At(k) + 8 /\ DataEnd(k) \in Nat
    BY MimeHeader
  <2>2. Stands(TheBoundary(boundary), Packaged, DataEnd(k))
    BY MimeText
  <2>3. Data(k) \in Seq(Token) /\ Len(Data(k)) \in Nat
    BY SessionIs
  <2>4. Len(b) \in Nat
    BY <1>2
  <2>5. e = DataAt(k) + Len(Data(k))
    BY <1>1 DEF DataEnd
  <2>6. DataAt(k) \in Nat
    BY <2>1
  <2> QED
    BY <1>1, <2>1, <2>2, <2>3, <2>4, <2>5, <2>6, Zenon
<1>4. c \in Nat /\ c <= Len(Data(k)) /\ p + y <= e /\ DataAt(k) <= p + y
  <2>1. c \in Nat
    BY <1>1, ContentIs
  <2>2. 0 + c <= Len(Data(k))
    BY <1>1, <1>2 DEF Stands
  <2>3. PICK l, a : l = Len(Data(k)) /\ a = DataAt(k)
    OBVIOUS
  <2>4. l \in Nat /\ a \in Nat /\ c <= l /\ e = a + l /\ p + y = a + c
    BY <1>2, <1>3, <2>1, <2>2, <2>3
  <2>5. p + y <= e /\ a <= p + y
    BY <2>1, <2>4
  <2> QED
    BY <2>1, <2>3, <2>4, <2>5
<1>5. t \in Seq(Token) /\ Len(t) = 4
  <2>1. boundary \in Nat
    OBVIOUS
  <2> QED
    BY <1>1, <2>1, BoundaryIs
<1>6. \A j \in p + y..e - 1 : ~Stands(t, w, j)
  <2>1. y \in Nat
    BY <1>2
  <2>2. \A j \in p + y..e - 1 : j \in DataAt(k)..DataEnd(k) - 1
    BY <1>1, <1>3, <1>4, <2>1
  <2> QED
    BY <1>1, <2>2, NoBoundaryInside
<1>7. EndOfPart = IF p + Len(b) >= e + 4 THEN e - p ELSE Len(b)
  <2>1. /\ t \in Seq(Token) /\ Len(t) > 0 /\ b \in Seq(Token) /\ w \in Seq(Token) /\ Stands(b, w, p)
        /\ y \in 0..Len(b) /\ e \in Nat /\ p + y <= e /\ Stands(t, w, e) /\ \A j \in p + y..e - 1 : ~Stands(t, w, j)
    BY <1>2, <1>3, <1>4, <1>5, <1>6
  <2>2. Search(b, y, t) = IF p + Len(b) >= e + Len(t) THEN e - p ELSE Len(b)
    BY <2>1, FirstIs
  <2> QED
    BY <1>1, <1>5, <2>2 DEF EndOfPart
<1> QED
  BY <1>1, <1>3, <1>4, <1>5, <1>7

\* What was taken of a payload goes on with what the buffer has of it next.
LEMMA TakesMore ==
  ASSUME session \in Sessions, boundary \in {0, 1}, MIME, NoPartHasIt, BuilderType, NEW p \in Nat, NEW k \in 1..N,
         BodyAt(p, k), NEW e \in 0..Len(buff), search <= e, p + e <= DataEnd(k)
  PROVE  /\ SubSeq(buff, search + 1, e) \in Seq(Token)
         /\ Content \o SubSeq(buff, search + 1, e) \in Seq(Token)
         /\ Stands(Content \o SubSeq(buff, search + 1, e), Data(k), 0)
         /\ p + e = DataAt(k) + Len(Content \o SubSeq(buff, search + 1, e))
<1>1. PICK b, w, d, c, y, a : /\ b = buff /\ w = Packaged /\ d = Data(k) /\ c = Content /\ y = search /\ a = DataAt(k)
  OBVIOUS
<1>2. /\ b \in Seq(Token) /\ Stands(b, w, p) /\ y \in 0..Len(b) /\ p + y = a + Len(c)
      /\ Stands(c, d, 0)
  BY <1>1 DEF BodyAt, Wired
<1>3. c \in Seq(Token) /\ Len(c) \in Nat
  BY <1>1, ContentIs
<1>4. w \in Seq(Token) /\ a \in Nat /\ Stands(d, w, a) /\ d \in Seq(Token) /\ Len(d) \in Nat /\ p + e <= a + Len(d)
  <2>1. /\ Packaged \in Seq(Token) /\ At(k) \in Nat /\ DataAt(k) = At(k) + 8 /\ Stands(Data(k), Packaged, DataAt(k))
    BY MimeHeader
  <2>2. Data(k) \in Seq(Token) /\ Len(Data(k)) \in Nat
    BY SessionIs
  <2> QED
    BY <1>1, <2>1, <2>2 DEF DataEnd
<1>5. PICK n : n = e - y
  OBVIOUS
<1>6. y \in Nat /\ e \in Nat /\ n \in Nat /\ e = y + n /\ y + n <= Len(b)
  <2>1. Len(b) \in Nat
    BY <1>2
  <2> QED
    BY <1>1, <1>2, <1>5, <2>1
<1>7. PICK u : u = SubSeq(b, y + 1, y + n)
  OBVIOUS
<1>8. u \in Seq(Token) /\ Len(u) = n /\ Stands(u, b, y)
  BY <1>2, <1>6, <1>7, PieceIs
<1>9. Stands(u, w, p + y)
  <2>1. y + Len(u) <= Len(b)
    BY <1>6, <1>8
  <2> QED
    BY <1>2, <1>4, <1>6, <1>8, <2>1, StandsIn
<1>10. Stands(u, d, Len(c))
  <2>1. Len(c) + Len(u) <= Len(d)
    <3>1. p + (y + n) <= a + Len(d) /\ p + y = a + Len(c) /\ Len(u) = n
      BY <1>2, <1>4, <1>6, <1>8
    <3> QED
      BY <1>3, <1>4, <1>6, <3>1
  <2>2. Stands(u, w, a + Len(c))
    BY <1>2, <1>9
  <2> QED
    BY <1>3, <1>4, <1>8, <2>1, <2>2, StandsIn
<1>11. c \o u \in Seq(Token) /\ Len(c \o u) = Len(c) + Len(u)
  BY <1>3, <1>8, TokensConcat
<1>12. Stands(c \o u, d, 0)
  <2>1. 0 + Len(c) = Len(c) /\ 0 \in Nat
    BY <1>3
  <2>2. Stands(c, d, 0) /\ Stands(u, d, 0 + Len(c))
    BY <1>2, <1>10, <2>1
  <2> QED
    BY <1>3, <1>4, <1>8, <2>1, <2>2, StandsConcat
<1>13. p + e = a + Len(c \o u)
  <2>1. PICK l \in Nat : l = Len(c)
    BY <1>3
  <2>2. Len(c \o u) = l + n
    BY <1>8, <1>11, <2>1
  <2>3. p + y = a + l
    BY <1>2, <2>1
  <2>4. y \in Nat /\ n \in Nat /\ a \in Nat /\ e = y + n
    BY <1>4, <1>6
  <2>5. p + e = a + (l + n)
    BY <2>1, <2>3, <2>4
  <2> QED
    BY <2>2, <2>5
<1>14. u = SubSeq(buff, search + 1, e)
  BY <1>1, <1>6, <1>7
<1> QED
  BY <1>1, <1>8, <1>11, <1>12, <1>13, <1>14

\* A part is complete when the boundary behind it is there.
LEMMA CompletesPart ==
  ASSUME session \in Sessions, session.disk, boundary \in {0, 1}, MIME, NoPartHasIt, BuilderType, NEW p \in Nat, NEW k \in 1..N,
         BodyAt(p, k), CompletePart
  PROVE  /\ UNCHANGED <<session, boundary>> /\ pc' = "next" /\ BuilderType' /\ Arrived(k)' /\ NextAt(p, k)'
<1>1. PICK e, u : e = EndOfPart /\ u = SubSeq(buff, search + 1, e)
  OBVIOUS
<1>2. /\ e < Len(buff) /\ (\E b \in AddToPayload(u) : Generate(b, cid)) /\ bdy' = e /\ pc' = "next"
      /\ UNCHANGED <<session, boundary, wire, buff>>
  BY <1>1 DEF CompletePart, sender
<1>3. Wired(p) /\ Arrived(k - 1) /\ cid = k /\ buff \in Seq(Token) /\ Len(buff) \in Nat /\ search \in 0..Len(buff)
  BY DEF BodyAt, Wired
<1>4. e = DataEnd(k) - p /\ p + search <= DataEnd(k) /\ DataEnd(k) \in Nat
  <2>1. /\ e = IF p + Len(buff) >= DataEnd(k) + 4 THEN DataEnd(k) - p ELSE Len(buff)
        /\ p + search <= DataEnd(k) /\ DataEnd(k) \in Nat
    BY <1>1, DataEnds
  <2> QED
    BY <1>2, <1>3, <2>1
<1>5. e \in 0..Len(buff) /\ search <= e /\ p + e <= DataEnd(k) /\ p + e = DataEnd(k)
  <2>1. search \in Nat
    BY <1>3
  <2> QED
    BY <1>2, <1>3, <1>4, <2>1
<1>6. PICK c : c = Content \o u
  OBVIOUS
<1>7. u \in Seq(Token) /\ c \in Seq(Token) /\ Stands(c, Data(k), 0) /\ p + e = DataAt(k) + Len(c)
  BY <1>1, <1>5, <1>6, TakesMore
<1>8. c = Data(k)
  <2>1. Data(k) \in Seq(Token) /\ Len(Data(k)) \in Nat /\ Len(c) \in Nat /\ DataAt(k) \in Nat
    <3>1. DataAt(k) = At(k) + 8 /\ At(k) \in Nat
      BY MimeHeader
    <3> QED
      BY <1>7, <3>1, SessionIs
  <2>2. Len(c) = Len(Data(k))
    BY <1>5, <1>7, <2>1 DEF DataEnd
  <2>3. Stands(Data(k), Data(k), 0)
    BY <2>1 DEF Stands
  <2> QED
    BY <1>7, <2>1, <2>2, <2>3, StandsSame
<1>9. PICK b \in AddToPayload(u) : Generate(b, cid)
  BY <1>2
<1>10. (IF b.toDisk THEN b.file ELSE b.payload) = Data(k)
  BY <1>6, <1>7, <1>8, AddsContent
<1>11. Arrived(k)' /\ Content' = <<>> /\ BuilderType'
  <2>1. Generate(b, k)
    BY <1>2, <1>3, <1>9
  <2> QED
    BY <1>2, <1>3, <1>10, <2>1, GeneratesNext
<1>12. NextAt(p, k)'
  <2>1. Packaged' = Packaged /\ DataAt(k)' = DataAt(k) /\ Data(k)' = Data(k)
    BY <1>2, SameExpected
  <2>2. Wired(p)'
    BY <1>2, <1>3, <2>1 DEF Wired
  <2>3. buff' = buff /\ bdy' = e /\ p + e = DataAt(k) + Len(Data(k))
    BY <1>2, <1>5 DEF DataEnd
  <2> QED
    BY <1>5, <1>11, <2>1, <2>2, <2>3 DEF NextAt
<1> QED
  BY <1>2, <1>11, <1>12

\* Until then what cannot be the start of it is the part's.
LEMMA Accumulates ==
  ASSUME session \in Sessions, session.disk, boundary \in {0, 1}, MIME, NoPartHasIt, BuilderType, NEW p \in Nat, NEW k \in 1..N,
         BodyAt(p, k), Accumulate
  PROVE  /\ UNCHANGED <<session, boundary, parts, pc>> /\ BuilderType' /\ \E q \in Nat : BodyAt(q, k)'
<1>1. PICK e, u, q : e = Accumulable /\ u = SubSeq(buff, search + 1, e) /\ q = p + e
  OBVIOUS
<1>2. /\ EndOfPart = Len(buff) /\ builder' \in AddToPayload(u) /\ search' = 0
      /\ UNCHANGED <<session, boundary, parts, pc, cid>>
  BY <1>1 DEF Accumulate, sender
<1>3. PICK r \in ReadToBuffer(e) : Holds(r)
  BY <1>1 DEF Accumulate
<1>4. Wired(p) /\ Arrived(k - 1) /\ cid = k /\ buff \in Seq(Token) /\ Len(buff) \in Nat /\ search \in 0..Len(buff)
  BY DEF BodyAt, Wired
<1>5. /\ Len(buff) = IF p + Len(buff) >= DataEnd(k) + 4 THEN DataEnd(k) - p ELSE Len(buff)
      /\ p + search <= DataEnd(k) /\ DataEnd(k) \in Nat /\ Len(TheBoundary(boundary)) = 4
  BY <1>2, DataEnds
<1>6. e \in 0..Len(buff) /\ search <= e /\ p + e <= DataEnd(k) /\ e \in Nat
  <2>1. PICK l, y, n : l = Len(buff) /\ y = search /\ n = DataEnd(k)
    OBVIOUS
  <2>2. /\ l \in Nat /\ y \in 0..l /\ n \in Nat /\ p + y <= n
        /\ l = IF p + l >= n + 4 THEN n - p ELSE l
    BY <1>4, <1>5, <2>1
  <2>3. p + l < n + 4
    BY <2>2
  <2>4. e = IF l - y > 4 THEN l - 4 ELSE y
    BY <1>1, <1>5, <2>1 DEF Accumulable
  <2>5. e \in 0..l /\ y <= e /\ p + e <= n /\ e \in Nat
    BY <2>2, <2>3, <2>4
  <2> QED
    BY <2>1, <2>5
<1>7. PICK c : c = Content \o u
  OBVIOUS
<1>8. u \in Seq(Token) /\ c \in Seq(Token) /\ Stands(c, Data(k), 0) /\ p + e = DataAt(k) + Len(c)
  BY <1>1, <1>6, <1>7, TakesMore
<1>9. BuilderType' /\ Content' = c
  <2>1. PICK b \in AddToPayload(u) : builder' = b
    BY <1>2
  <2>2. /\ b \in [payload : Seq(Token), toDisk : BOOLEAN, file : Seq(Token)]
        /\ (IF b.toDisk THEN b.file ELSE b.payload) = c
    BY <1>7, <1>8, AddsContent
  <2> QED
    BY <2>1, <2>2 DEF BuilderType, Content
<1>10. q \in Nat /\ Wired(q)'
  <2>1. Wired(p + e)'
    BY <1>2, <1>3, <1>4, <1>6, ReadKeeps
  <2> QED
    BY <1>1, <1>6, <2>1 DEF Wired
<1>11. BodyAt(q, k)'
  <2>1. Data(k)' = Data(k) /\ DataAt(k)' = DataAt(k) /\ session.old' = session.old /\ Expected' = Expected
    BY <1>2, SameExpected
  <2>2. Arrived(k - 1)'
    BY <1>2, <1>4, <2>1 DEF Arrived
  <2>3. buff' \in Seq(Token)
    BY <1>10 DEF Wired
  <2>4. 0 \in 0..Len(buff') /\ q + 0 = DataAt(k) + Len(c)
    BY <1>1, <1>6, <1>8, <2>3
  <2> QED
    BY <1>2, <1>4, <1>8, <1>9, <1>10, <2>1, <2>2, <2>4 DEF BodyAt
<1> QED
  BY <1>2, <1>9, <1>10, <1>11

\* More is read, to tell the last boundary from another.
LEMMA ReadsNext ==
  ASSUME session \in Sessions, boundary \in {0, 1}, MIME, NEW p \in Nat, NEW k \in 1..N, NextAt(p, k), ReadNext
  PROVE  UNCHANGED <<session, boundary, builder, parts, pc>> /\ \E q \in Nat : NextAt(q, k)'
<1>1. PICK r \in ReadToBuffer(bdy) : Holds(r)
  BY DEF ReadNext
<1>2. UNCHANGED <<session, boundary, builder, parts, pc>> /\ bdy' = 0
  BY DEF ReadNext, sender, result
<1>3. PICK c, q : c = bdy /\ q = p + c
  OBVIOUS
<1>4. /\ Wired(p) /\ Arrived(k) /\ Content = <<>> /\ c \in 0..Len(buff) /\ q = DataAt(k) + Len(Data(k))
      /\ buff \in Seq(Token)
  BY <1>3 DEF NextAt, Wired
<1>5. q \in Nat /\ Wired(q)'
  <2>1. Wired(p + c)'
    BY <1>1, <1>2, <1>3, <1>4, ReadKeeps
  <2>2. c \in Nat
    BY <1>4
  <2> QED
    BY <1>3, <2>1, <2>2 DEF Wired
<1>6. Data(k)' = Data(k) /\ DataAt(k)' = DataAt(k) /\ Arrived(k)' /\ Content' = <<>>
  BY <1>2, <1>4, SameExpected, SameResult
<1>7. bdy' \in 0..Len(buff') /\ q + bdy' = q
  <2>1. buff' \in Seq(Token)
    BY <1>5 DEF Wired
  <2>2. 0 \in 0..Len(buff') /\ q + 0 = q
    BY <1>5, <2>1
  <2> QED
    BY <1>2, <2>2
<1>8. NextAt(q, k)'
  BY <1>4, <1>5, <1>6, <1>7 DEF NextAt
<1> QED
  BY <1>2, <1>5, <1>8

\* The boundary behind the last part, and no other, ends the message.
LEMMA TellsLast ==
  ASSUME session \in Sessions, boundary \in {0, 1}, MIME, NEW p \in Nat, NEW k \in 1..N, NextAt(p, k), TellLast
  PROVE  /\ UNCHANGED <<session, boundary, builder, parts>>
         /\ (pc' = "drain" /\ k = N) \/ (pc' = "headers" /\ k < N /\ HeadersAt(p, k + 1)')
<1>1. PICK b, w, y, e, x, f : /\ b = buff /\ w = Packaged /\ y = bdy /\ e = DataEnd(k) /\ x = TermBoundary(boundary)
                              /\ f = From(b, y + 1)
  OBVIOUS
<1>2. /\ Len(b) - y >= Len(x)
      /\ IF IsPrefix(x, f) THEN pc' = "drain" /\ UNCHANGED bdy
                           ELSE pc' = "headers" /\ bdy' = y + Len(TheBoundary(boundary))
      /\ UNCHANGED <<session, boundary, builder, parts, wire, buff>>
  BY <1>1 DEF TellLast, Told, sender, result
<1>3. /\ Wired(p) /\ Arrived(k) /\ Content = <<>> /\ b \in Seq(Token) /\ Stands(b, w, p)
      /\ y \in 0..Len(b) /\ p + y = e
  BY <1>1 DEF NextAt, Wired, DataEnd
<1>4. /\ TheBoundary(boundary) = <<CRLF, T("D", <<>>), T("M", <<>>), T("b", <<boundary>>)>>
      /\ x = <<CRLF, T("D", <<>>), T("M", <<>>), T("b", <<boundary>>), T("D", <<>>)>>
      /\ Len(TheBoundary(boundary)) = 4 /\ Len(x) = 5 /\ x \in Seq(Token)
  <2>1. boundary \in Nat
    OBVIOUS
  <2> QED
    BY <1>1, <2>1, BoundaryIs
<1>5. /\ w \in Seq(Token) /\ e \in Nat /\ N \in Nat \ {0} /\ Stands(TheBoundary(boundary), w, e) /\ e + 5 <= Len(w)
      /\ w[e + 5] = (IF k = N THEN T("D", <<>>) ELSE CRLF) /\ (k < N => At(k + 1) = e)
  BY <1>1, MimeHeader, MimeText, SessionIs
<1>6. Len(b) \in Nat /\ y \in Nat /\ y + 5 <= Len(b)
  <2>1. Len(b) \in Nat /\ y \in Nat
    BY <1>3
  <2> QED
    BY <1>2, <1>4, <2>1
<1>7. f \in Seq(Token) /\ Len(f) = Len(b) - y /\ Stands(f, w, e)
  <2>1. /\ SubSeq(b, y + 1, Len(b)) \in Seq(Token) /\ Len(SubSeq(b, y + 1, Len(b))) = Len(b) - y
        /\ Stands(SubSeq(b, y + 1, Len(b)), w, p + y)
    BY <1>3, <1>5, TokensCut
  <2> QED
    BY <1>1, <1>3, <2>1 DEF From
<1>8. \A i \in 1..5 : f[i] = w[e + i]
  <2>1. Len(f) >= 5 /\ Len(f) \in Nat
    BY <1>6, <1>7
  <2> QED
    BY <1>7, <2>1 DEF Stands
<1>9. \A i \in 1..4 : f[i] = x[i]
  <2>1. \A i \in 1..4 : TheBoundary(boundary)[i] = x[i]
    BY <1>4
  <2>2. \A i \in 1..4 : TheBoundary(boundary)[i] = w[e + i]
    BY <1>4, <1>5 DEF Stands
  <2> QED
    BY <1>8, <2>1, <2>2
<1>10. x[5] = T("D", <<>>) /\ T("D", <<>>) # CRLF
  BY <1>4 DEF T, CRLF
<1>11. IsPrefix(x, f) <=> f[5] = x[5]
  <2>1. PICK g : g = SubSeq(f, 1, 5)
    OBVIOUS
  <2>2. g \in Seq(Token) /\ Len(g) = 5 /\ \A i \in 1..5 : g[i] = f[i]
    BY <1>6, <1>7, <2>1
  <2>3. IsPrefix(x, f) <=> x = g
    BY <1>4, <1>6, <1>7, <2>1 DEF IsPrefix
  <2>4. x = g <=> \A i \in 1..5 : x[i] = g[i]
    BY <1>4, <2>2, SeqEqual
  <2>5. \A i \in 1..5 : i \in 1..4 \/ i = 5
    OBVIOUS
  <2> QED
    BY <1>9, <2>2, <2>3, <2>4, <2>5
<1>12. CASE k = N
  <2>1. f[5] = x[5]
    BY <1>5, <1>8, <1>10, <1>12, SMTT(30)
  <2>2. IsPrefix(x, f)
    BY <1>11, <2>1
  <2> QED
    BY <1>2, <1>12, <2>2
<1>13. CASE k # N
  <2>1. k < N /\ k + 1 \in 1..N /\ (k + 1) - 1 = k
    BY <1>5, <1>13
  <2>2. ~IsPrefix(x, f)
    BY <1>5, <1>8, <1>10, <1>11, <1>13
  <2>3. pc' = "headers" /\ bdy' = y + 4
    BY <1>2, <1>4, <2>2
  <2>4. Packaged' = Packaged /\ At(k + 1)' = At(k + 1)
    BY <1>2, SameExpected
  <2>5. Arrived((k + 1) - 1)' /\ Content' = <<>>
    BY <1>2, <1>3, <2>1, SameResult
  <2>6. Wired(p)'
    BY <1>2, <1>3, <2>4 DEF Wired
  <2>7. y + 4 \in 0..Len(b) /\ p + (y + 4) = At(k + 1) + 4 /\ buff' = b
    <3>1. PICK l \in Nat : l = Len(b)
      BY <1>6
    <3>2. y + 4 \in 0..l
      BY <1>6, <3>1
    <3>3. p + y = e /\ At(k + 1) = e
      BY <1>3, <1>5, <2>1
    <3>4. p + (y + 4) = e + 4
      BY <1>5, <1>6, <3>3
    <3> QED
      BY <1>1, <1>2, <3>1, <3>2, <3>3, <3>4
  <2>8. HeadersAt(p, k + 1)'
    BY <2>3, <2>4, <2>5, <2>6, <2>7 DEF HeadersAt
  <2> QED
    BY <1>2, <2>1, <2>3, <2>8
<1> QED
  BY <1>12, <1>13
-----------------------------------------------------------------------------
(* The answer begins *)

\* The stream has the answer, or the beginning of it.
LEMMA WireStarts ==
  ASSUME Answer \in Seq(Token), NEW v,
         IF session.whole THEN v = Answer ELSE \E n \in 0..Len(Answer) - 1 : v = Upto(Answer, n)
  PROVE  v \in Seq(Token) /\ Stands(v, Answer, 0)
<1>1. PICK s : s = Answer
  OBVIOUS
<1>2. s \in Seq(Token) /\ Stands(s, s, 0) /\ Len(s) \in Nat
  <2>1. s \in Seq(Token)
    BY <1>1
  <2> QED
    BY <2>1 DEF Stands
<1>3. CASE session.whole
  BY <1>1, <1>2, <1>3
<1>4. CASE ~session.whole
  <2>1. PICK n \in 0..Len(s) - 1 : v = Upto(s, n)
    BY <1>1, <1>4
  <2>2. n \in Nat
    BY <1>2
  <2>3. PICK m \in 0..Len(s) :
          /\ Upto(s, n) \in Seq(Token)
          /\ \A w \in Seq(Token), p \in Nat : Stands(s, w, p) => Stands(Upto(s, n), w, p)
    BY <1>2, <2>2, UptoFrom
  <2>4. 0 \in Nat
    OBVIOUS
  <2> QED
    BY <1>1, <1>2, <2>1, <2>3, <2>4
<1> QED
  BY <1>3, <1>4

\* A MIME answer is the message, at times without its first line end.
LEMMA MimeAnswer ==
  ASSUME session \in Sessions, boundary \in {0, 1}, MIME
  PROVE  Answer \in Seq(Token) /\ \E p \in {0, 1} : Stands(Answer, Packaged, p)
<1>1. PICK w : w = Packaged
  OBVIOUS
<1>2. w \in Seq(Token) /\ Len(w) \in Nat /\ Len(w) >= 8
  <2>1. 1 \in 1..N
    BY SessionIs
  <2>2. w \in Seq(Token) /\ At(1) = 0 /\ At(1) + 8 <= Len(w)
    BY <1>1, <2>1, MimeHeader, MimeTokens
  <2>3. Len(w) \in Nat
    BY <2>2
  <2> QED
    BY <2>2, <2>3
<1>3. Stands(w, w, 0)
  BY <1>2 DEF Stands
<1>4. CASE session.preamble
  <2>1. Answer = w
    BY <1>1, <1>4 DEF Answer
  <2> QED
    BY <1>1, <1>2, <1>3, <2>1
<1>5. CASE ~session.preamble
  <2>1. Answer = Tail(w)
    BY <1>1, <1>5 DEF Answer
  <2>2. Tail(w) = SubSeq(w, 1 + 1, Len(w))
    <3>1. PICK u, v, l : u = Tail(w) /\ v = SubSeq(w, 2, l) /\ l = Len(w)
      OBVIOUS
    <3>2. u \in Seq(Token) /\ Len(u) = l - 1 /\ \A i \in 1..l - 1 : u[i] = w[i + 1]
      <4>1. w # <<>>
        BY <1>2
      <4> QED
        BY <1>2, <3>1, <4>1
    <3>3. v \in Seq(Token) /\ Len(v) = l - 1 /\ \A i \in 1..l - 1 : v[i] = w[i + 1]
      BY <1>2, <3>1
    <3>4. u = v
      BY <3>2, <3>3, SeqEqual
    <3> QED
      BY <3>1, <3>4
  <2>3. Stands(SubSeq(w, 1 + 1, Len(w)), w, 0 + 1) /\ SubSeq(w, 1 + 1, Len(w)) \in Seq(Token)
    <3>1. 0 \in Nat /\ 1 \in 0..Len(w)
      BY <1>2
    <3> QED
      BY <1>2, <1>3, <3>1, TokensCut
  <2>4. 0 + 1 = 1
    OBVIOUS
  <2> QED
    BY <1>1, <2>1, <2>2, <2>3, <2>4
<1> QED
  BY <1>4, <1>5

\* When it is asked for, nothing of it was seen.
LEMMA StartsMime ==
  ASSUME session \in Sessions, boundary \in {0, 1}, MIME, Return, pc' = "find",
         Arrived(0), builder = NoPart, buff = <<>>
  PROVE  \E p \in Nat : FindAt(p)'
<1>1. got = <<>> /\ sized # -1
  BY DEF Return
<1>2. /\ IF session.whole THEN wire' = Answer ELSE \E n \in 0..Len(Answer) - 1 : wire' = Upto(Answer, n)
      /\ UNCHANGED <<session, boundary, buff, builder, parts>>
  BY <1>1 DEF Return, mime, result
<1>3. PICK v : v = wire'
  OBVIOUS
<1>4. Answer \in Seq(Token) /\ \E p \in {0, 1} : Stands(Answer, Packaged, p)
  BY MimeAnswer
<1>5. v \in Seq(Token) /\ Stands(v, Answer, 0)
  BY <1>2, <1>3, <1>4, WireStarts
<1>6. PICK p \in {0, 1} : Stands(Answer, Packaged, p)
  BY <1>4
<1>7. Packaged \in Seq(Token) /\ Packaged' = Packaged
  <2>1. 1 \in 1..N
    BY SessionIs
  <2> QED
    BY <1>2, <2>1, SectionStands, SameExpected
<1>8. Stands(v, Packaged, p)
  <2>1. p \in Nat /\ 0 \in Nat /\ 0 + Len(v) <= Len(Answer)
    BY <1>5 DEF Stands
  <2>2. Stands(v, Packaged, p + 0)
    BY <1>4, <1>5, <1>6, <1>7, <2>1, StandsIn
  <2>3. p + 0 = p
    BY <2>1
  <2> QED
    BY <2>2, <2>3
<1>9. Wired(p)'
  <2>1. buff' = <<>> /\ wire' = v /\ <<>> \in Seq(Token) /\ Len(<<>>) = 0 /\ 0 <= BUFF /\ p \in Nat /\ p + 0 = p
    BY <1>2, <1>3, AttachmentConstants
  <2>2. Stands(<<>>, Packaged, p)
    <3>1. p + Len(v) <= Len(Packaged) /\ Len(v) \in Nat /\ Len(Packaged) \in Nat
      BY <1>5, <1>7, <1>8 DEF Stands
    <3>2. p + Len(<<>>) <= Len(Packaged)
      BY <2>1, <3>1
    <3> QED
      BY <2>1, <3>2 DEF Stands
  <2> QED
    BY <1>5, <1>7, <1>8, <2>1, <2>2 DEF Wired
<1>10. Arrived(0)' /\ Content' = <<>>
  BY <1>2, NoContent, SameResult
<1> QED
  BY <1>6, <1>9, <1>10 DEF FindAt

\* Step by step the parts of a MIME answer arrive.
LEMMA MimeStep ==
  ASSUME session.disk, CheckInv, ReceiveInv, ReceivesMime
  PROVE  ReceiveInv'
<1>1. Receiving /\ UNCHANGED <<session, boundary>>
  BY ReceivesOnly DEF Receives, sender
<1>2. session \in Sessions /\ boundary \in {0, 1} /\ NoPartHasIt /\ BuilderType
  BY <1>1 DEF CheckInv, ReceiveInv, Receiving
<1>3. pc \in {"find", "headers", "body", "next", "drain"} /\ MIME
  <2>1. pc \in {"find", "headers", "body", "next", "drain"}
    BY DEF ReceivesMime, ReadFails, FindBoundary, ParseHeaders, ReadHeaders, Accumulate, CompletePart,
           ReadNext, TellLast, Drain
  <2> QED
    BY <2>1 DEF ReceiveInv
<1>4. N \in Nat \ {0} /\ N' = N /\ MIME' = MIME
  BY <1>1, <1>2, SessionIs, SameExpected
<1>5. ASSUME UNCHANGED <<builder, parts>> PROVE BuilderType' /\ \E k \in 0..N : Arrived(k)'
  <2>1. PICK k \in 0..N : Arrived(k)
    BY DEF ReceiveInv
  <2> QED
    BY <1>1, <1>2, <1>5, <2>1, SameResult
<1>6. CASE ReadFails
  <2>1. pc' = "failed" /\ builder' = NoPart /\ UNCHANGED parts
    BY <1>6 DEF ReadFails, Fails
  <2>2. BuilderType'
    BY <2>1, NoContentNext DEF NoPart
  <2>3. \E k \in 0..N : Arrived(k)'
    <3>1. PICK k \in 0..N : Arrived(k)
      BY DEF ReceiveInv
    <3>2. session.old' = session.old /\ Expected' = Expected
      BY <1>1, SameExpected
    <3>3. Arrived(k)'
      BY <2>1, <3>1, <3>2 DEF Arrived
    <3> QED
      BY <3>3
  <2> QED
    BY <1>4, <2>1, <2>2, <2>3 DEF ReceiveInv, MimeInv, DimeInv
<1>7. CASE FindBoundary
  <2>1. pc = "find"
    BY <1>7 DEF FindBoundary
  <2>2. PICK p \in Nat : FindAt(p)
    BY <2>1 DEF ReceiveInv, MimeInv
  <2>3. /\ UNCHANGED <<session, boundary, builder, parts>> /\ pc' \in {"find", "headers", "beyond", "failed"}
        /\ pc' = "find" => FindAt(p)'
        /\ pc' = "headers" => HeadersAt(p, 1)'
    BY <1>2, <1>3, <1>7, <2>2, FindsFirst
  <2>4. 1 \in 1..N
    BY <1>4
  <2> QED
    BY <1>3, <1>4, <1>5, <2>3, <2>4 DEF ReceiveInv, MimeInv, DimeInv
<1>8. CASE ParseHeaders \/ ReadHeaders
  <2>1. pc = "headers"
    BY <1>8 DEF ParseHeaders, ReadHeaders
  <2>2. PICK p \in Nat, k \in 1..N : HeadersAt(p, k)
    BY <2>1 DEF ReceiveInv, MimeInv
  <2>3. CASE ParseHeaders
    <3>1. UNCHANGED <<session, boundary, builder, parts>> /\ pc' = "body" /\ BodyAt(p, k)'
      BY <1>2, <1>3, <2>2, <2>3, ParsesHeaders
    <3> QED
      BY <1>3, <1>4, <1>5, <3>1 DEF ReceiveInv, MimeInv, DimeInv
  <2>4. CASE ReadHeaders
    <3>1. /\ UNCHANGED <<session, boundary, builder, parts>> /\ pc' \in {"headers", "too big", "astray"}
          /\ \E q \in Nat : HeadersAt(q, k)'
      BY <1>2, <1>3, <2>2, <2>4, ReadsHeaders
    <3> QED
      BY <1>3, <1>4, <1>5, <3>1 DEF ReceiveInv, MimeInv, DimeInv
  <2> QED
    BY <1>8, <2>3, <2>4
<1>9. CASE Accumulate \/ CompletePart
  <2>1. pc = "body"
    BY <1>9 DEF Accumulate, CompletePart
  <2>2. PICK p \in Nat, k \in 1..N : BodyAt(p, k)
    BY <2>1 DEF ReceiveInv, MimeInv
  <2>3. CASE Accumulate
    <3>1. UNCHANGED <<session, boundary, parts, pc>> /\ BuilderType' /\ \E q \in Nat : BodyAt(q, k)'
      BY <1>2, <1>3, <2>2, <2>3, Accumulates
    <3>2. \E j \in 0..N : Arrived(j)'
      <4>1. Arrived(k - 1)' /\ k - 1 \in 0..N
        BY <1>4, <3>1 DEF BodyAt
      <4> QED
        BY <4>1
    <3> QED
      BY <1>3, <1>4, <2>1, <3>1, <3>2 DEF ReceiveInv, MimeInv, DimeInv
  <2>4. CASE CompletePart
    <3>1. pc' = "next" /\ BuilderType' /\ Arrived(k)' /\ NextAt(p, k)'
      BY <1>2, <1>3, <2>2, <2>4, CompletesPart
    <3>2. k \in 0..N
      BY <1>4
    <3> QED
      BY <1>3, <1>4, <3>1, <3>2 DEF ReceiveInv, MimeInv, DimeInv
  <2> QED
    BY <1>9, <2>3, <2>4
<1>10. CASE ReadNext \/ TellLast
  <2>1. pc = "next"
    BY <1>10 DEF ReadNext, TellLast
  <2>2. PICK p \in Nat, k \in 1..N : NextAt(p, k)
    BY <2>1 DEF ReceiveInv, MimeInv
  <2>3. CASE ReadNext
    <3>1. UNCHANGED <<session, boundary, builder, parts, pc>> /\ \E q \in Nat : NextAt(q, k)'
      BY <1>2, <1>3, <2>2, <2>3, ReadsNext
    <3> QED
      BY <1>3, <1>4, <1>5, <2>1, <3>1 DEF ReceiveInv, MimeInv, DimeInv
  <2>4. CASE TellLast
    <3>1. /\ UNCHANGED <<session, boundary, builder, parts>>
          /\ (pc' = "drain" /\ k = N) \/ (pc' = "headers" /\ k < N /\ HeadersAt(p, k + 1)')
      BY <1>2, <1>3, <2>2, <2>4, TellsLast
    <3>2. CASE pc' = "drain" /\ k = N
      <4>1. Arrived(N)'
        <5>1. Arrived(k)
          BY <2>2 DEF NextAt
        <5>2. Arrived(k)'
          BY <3>1, <5>1, SameResult
        <5> QED
          BY <1>4, <3>2, <5>2 DEF Arrived
      <4> QED
        BY <1>3, <1>4, <1>5, <3>1, <3>2, <4>1 DEF ReceiveInv, MimeInv, DimeInv
    <3>3. CASE pc' = "headers" /\ k < N /\ HeadersAt(p, k + 1)'
      <4>1. PICK j \in 1..N : j = k + 1
        BY <1>4, <3>3
      <4>2. HeadersAt(p, j)'
        BY <3>3, <4>1
      <4> QED
        BY <1>3, <1>4, <1>5, <3>1, <3>3, <4>2 DEF ReceiveInv, MimeInv, DimeInv
    <3> QED
      BY <3>1, <3>2, <3>3
  <2> QED
    BY <1>10, <2>3, <2>4
<1>11. CASE Drain
  <2>1. pc = "drain" /\ pc' = "start" /\ UNCHANGED <<builder, parts>>
    BY <1>11 DEF Drain, result
  <2>2. Arrived(N)
    BY <2>1 DEF ReceiveInv, MimeInv
  <2>3. Arrived(N)'
    <3>1. session.old' = session.old /\ Expected' = Expected
      BY <1>1, SameExpected
    <3> QED
      BY <1>4, <2>1, <2>2, <3>1 DEF Arrived
  <2> QED
    BY <1>4, <1>5, <2>1, <2>3 DEF ReceiveInv, MimeInv, DimeInv
<1> QED
  BY <1>6, <1>7, <1>8, <1>9, <1>10, <1>11 DEF ReceivesMime

\* The envelope is the first part that there is.
LEMMA EnvelopeStep ==
  ASSUME CheckInv, ReceiveInv, GiveEnvelope
  PROVE  ReceiveInv'
<1>1. pc = "start" /\ pc' = "done" /\ envelope' = parts[StartPart].data /\ UNCHANGED <<session, boundary, builder, parts>>
  BY DEF GiveEnvelope, sender
<1>2. session \in Sessions /\ BuilderType /\ Arrived(N)
  BY <1>1 DEF CheckInv, ReceiveInv
<1>3. N \in Nat \ {0} /\ N' = N /\ MIME' = MIME /\ session.old' = session.old /\ Data(1)' = Data(1)
  BY <1>1, <1>2, SessionIs, SameExpected
<1>4. BuilderType' /\ Arrived(N)' /\ N \in 0..N
  <2>1. Expected' = Expected
    BY <1>1, SameExpected
  <2> QED
    BY <1>1, <1>2, <1>3, <2>1 DEF BuilderType, Arrived
<1>5. ASSUME session.old = <<>> PROVE envelope' = Data(1)
  <2>1. PICK e : e = Expected
    OBVIOUS
  <2>2. e \in Seq(PartType) /\ Len(e) = N /\ e[1] = [id |-> 1, data |-> Data(1)]
    BY <1>2, <1>3, <2>1, ExpectedIs
  <2>3. parts = e
    <3> HIDE DEF PartType
    <3>1. SubSeq(e, 1, N) = e /\ <<>> \o e = e
      BY <2>2
    <3> QED
      BY <1>2, <1>5, <2>1, <3>1 DEF Arrived
  <2>4. PICK found : found = {k \in DOMAIN parts : ~session.mime \/ ~session.start \/ parts[k].id = 1}
    OBVIOUS
  <2>5. StartPart = CHOOSE k \in found : \A l \in found : k <= l
    BY <2>4 DEF StartPart
  <2>6. DOMAIN parts = 1..N
    BY <1>3, <2>2, <2>3 DEF PartType
  <2>7. 1 \in found /\ \A l \in found : l \in Nat /\ 1 <= l
    <3>1. 1 \in 1..N /\ e[1].id = 1
      BY <1>3, <2>2
    <3> QED
      BY <1>3, <2>3, <2>4, <2>6, <3>1
  <2>8. StartPart \in found /\ \A l \in found : StartPart <= l
    BY <2>5, <2>7
  <2>9. StartPart = 1
    BY <2>7, <2>8
  <2> QED
    BY <1>1, <2>2, <2>3, <2>9
<1> QED
  BY <1>1, <1>3, <1>4, <1>5 DEF ReceiveInv, MimeInv, DimeInv
-----------------------------------------------------------------------------
(* A DIME answer *)

\* What is not a multiple is between two.
LEMMA DivIs ==
  ASSUME NEW a \in Nat, NEW c \in Nat \ {0}
  PROVE  a \div c \in Nat /\ (a \div c) * c <= a /\ a < (a \div c) * c + c
OBVIOUS

\* The number of records is the least that takes all of the payload.
LEMMA CountIs ==
  ASSUME NEW l \in Nat \ {0}, NEW c \in Nat \ {0}, NEW n, n = (l + c - 1) \div c
  PROVE  n \in Nat \ {0} /\ n * c >= l /\ (n - 1) * c < l
<1>1. PICK a : a = l + c - 1
  OBVIOUS
<1>2. a \in Nat /\ a >= c /\ a = (l + c) - 1
  BY <1>1
<1>3. n \in Nat /\ n * c <= a /\ a < n * c + c
  BY <1>1, <1>2, DivIs
<1>4. PICK m : m = n * c
  OBVIOUS
<1>5. m \in Nat
  BY <1>3, <1>4
<1>6. m <= a /\ a < m + c
  BY <1>3, <1>4
<1>7. m >= l /\ m - c < l /\ m # 0
  BY <1>2, <1>5, <1>6
<1>8. n # 0
  <2>1. n = 0 => m = 0
    BY <1>4
  <2> QED
    BY <1>7, <2>1
<1>9. (n - 1) * c = m - c
  BY <1>3, <1>4
<1> QED
  BY <1>3, <1>4, <1>7, <1>8, <1>9

\* Less than all of them are less than all of the payload.
LEMMA BelowCount ==
  ASSUME NEW c \in Nat \ {0}, NEW k \in Nat, NEW n \in Nat, k <= n
  PROVE  k * c \in Nat /\ k * c <= n * c
OBVIOUS

\* A payload is cut where a chunk ends, and at its end.
LEMMA EndsAre ==
  ASSUME session \in Sessions, NEW i \in 1..N
  PROVE  /\ Count(i) \in Nat \ {0} /\ End(i, 0) = 0 /\ End(i, Count(i)) = Len(Data(i))
         /\ \A k \in 1..Count(i) :
              /\ End(i, k - 1) \in Nat /\ End(i, k) \in Nat /\ (k - 1) * session.chunk = End(i, k - 1)
              /\ End(i, k - 1) <= End(i, k) /\ End(i, k) <= Len(Data(i))
<1>1. PICK l, c, n : l = Len(Data(i)) /\ c = session.chunk /\ n = Count(i)
  OBVIOUS
<1>2. l \in Nat /\ c \in Nat \ {0}
  BY <1>1, SessionIs
<1>3. \A k : End(i, k) = Least(k * c, l)
  BY <1>1 DEF End
<1>4. n = IF l = 0 THEN 1 ELSE (l + c - 1) \div c
  BY <1>1 DEF Count
<1>5. n \in Nat \ {0} /\ n * c \in Nat /\ n * c >= l /\ (l > 0 => (n - 1) * c < l)
  <2>1. CASE l = 0
    BY <1>2, <1>4, <2>1
  <2>2. CASE l # 0
    <3>1. l \in Nat \ {0} /\ n = (l + c - 1) \div c
      BY <1>2, <1>4, <2>2
    <3>2. n \in Nat \ {0} /\ n * c >= l /\ (n - 1) * c < l
      BY <1>2, <3>1, CountIs
    <3> QED
      BY <1>2, <3>2
  <2> QED
    BY <2>1, <2>2
<1>6. End(i, 0) = 0
  BY <1>2, <1>3 DEF Least
<1>7. End(i, n) = l
  BY <1>2, <1>3, <1>5 DEF Least
<1>8. ASSUME NEW k \in 1..n
      PROVE  /\ End(i, k - 1) \in Nat /\ End(i, k) \in Nat /\ (k - 1) * c = End(i, k - 1)
             /\ End(i, k - 1) <= End(i, k) /\ End(i, k) <= l
  <2>1. PICK x, y, z : x = (k - 1) * c /\ y = k * c /\ z = (n - 1) * c
    OBVIOUS
  <2>2. k \in Nat /\ k - 1 \in Nat /\ n - 1 \in Nat /\ k - 1 <= n - 1
    BY <1>5
  <2>3. x \in Nat /\ x <= z
    BY <1>2, <2>1, <2>2, BelowCount
  <2>4. y = x + c
    BY <1>2, <2>1, <2>2
  <2>5. End(i, k - 1) = Least(x, l) /\ End(i, k) = Least(y, l)
    BY <1>3, <2>1
  <2>6. CASE l = 0
    <3>1. n = 1 /\ k = 1 /\ x = 0
      <4>1. n = 1
        BY <1>4, <2>6
      <4>2. k = 1
        BY <4>1
      <4> QED
        BY <1>2, <2>1, <4>1, <4>2
    <3> QED
      BY <1>2, <2>1, <2>4, <2>5, <2>6, <3>1 DEF Least
  <2>7. CASE l > 0
    <3>1. x < l
      BY <1>2, <1>5, <2>1, <2>3, <2>7
    <3> QED
      BY <1>2, <2>1, <2>3, <2>4, <2>5, <3>1 DEF Least
  <2> QED
    BY <1>2, <2>6, <2>7
<1> QED
  BY <1>1, <1>5, <1>6, <1>7, <1>8

\* A record has what is between two of these places.
LEMMA PiecesAre ==
  ASSUME session \in Sessions, NEW i \in 1..N, NEW k \in 1..Count(i)
  PROVE  /\ Piece(i, k) \in Seq(Token) /\ Len(Piece(i, k)) = End(i, k) - End(i, k - 1) /\ Len(Piece(i, k)) \in Nat
         /\ Stands(Piece(i, k), Data(i), End(i, k - 1))
<1>1. PICK d, x, y, n : d = Data(i) /\ x = End(i, k - 1) /\ y = End(i, k) /\ n = y - x
  OBVIOUS
<1>2. d \in Seq(Token) /\ x \in Nat /\ y \in Nat /\ (k - 1) * session.chunk = x /\ x <= y /\ y <= Len(d)
  BY <1>1, SessionIs, EndsAre
<1>3. n \in Nat /\ y = x + n /\ x + n <= Len(d)
  BY <1>1, <1>2
<1>4. Piece(i, k) = SubSeq(d, x + 1, x + n)
  BY <1>1, <1>2, <1>3 DEF Piece
<1>5. SubSeq(d, x + 1, x + n) \in Seq(Token) /\ Len(SubSeq(d, x + 1, x + n)) = n /\ Stands(SubSeq(d, x + 1, x + n), d, x)
  BY <1>2, <1>3, PieceIs
<1> QED
  BY <1>1, <1>3, <1>4, <1>5

\* Its header says which it is, and how much it has.
LEMMA HeadIs ==
  ASSUME session \in Sessions, NEW i \in 1..N, NEW k \in 1..Count(i)
  PROVE  IsRecord(HeadOf(i, k), i, i = 1 /\ k = 1, i = N /\ k = Count(i), k < Count(i), k = 1, Len(Piece(i, k)))
<1>1. PICK b, e, c, m, n : /\ b = (i = 1 /\ k = 1) /\ e = (i = N /\ k = Count(i)) /\ c = (k < Count(i)) /\ m = (k = 1)
                           /\ n = Len(Piece(i, k))
  OBVIOUS
<1>2. i \in Nat /\ n \in Nat
  <2>1. N \in Nat
    BY SessionIs
  <2> QED
    BY <1>1, <2>1, PiecesAre
<1>3. HeadOf(i, k) = Record(i, b, e, c, m, n)
  BY <1>1, Zenon DEF HeadOf
<1>4. IsRecord(Record(i, b, e, c, m, n), i, b, e, c, m, n)
  BY <1>2, RecordIs, Zenon
<1> QED
  BY <1>1, <1>3, <1>4, Zenon

\* A record is made of its header, its payload and its padding.
LEMMA WholeRecordIs ==
  ASSUME session \in Sessions, NEW i \in 1..N, NEW k \in 1..Count(i)
  PROVE  /\ HeadOf(i, k) \in Seq(Token) /\ Piece(i, k) \in Seq(Token) /\ Padding(PadTo(Len(Piece(i, k)))) \in Seq(Token)
         /\ Len(HeadOf(i, k)) = 1 + 2 * Flag(k = 1) /\ Len(Piece(i, k)) \in Nat /\ PadTo(Len(Piece(i, k))) \in Nat
         /\ WholeRecord(i, k) = (HeadOf(i, k) \o Piece(i, k)) \o Padding(PadTo(Len(Piece(i, k))))
         /\ WholeRecord(i, k) \in Seq(Token)
         /\ Len(WholeRecord(i, k)) = Len(HeadOf(i, k)) + Len(Piece(i, k)) + PadTo(Len(Piece(i, k)))
<1>1. PICK h, p, n, q : h = HeadOf(i, k) /\ p = Piece(i, k) /\ n = PadTo(Len(p)) /\ q = Padding(n)
  OBVIOUS
<1>2. h \in Seq(Token) /\ Len(h) = 1 + 2 * Flag(k = 1)
  <2>1. IsRecord(h, i, i = 1 /\ k = 1, i = N /\ k = Count(i), k < Count(i), k = 1, Len(Piece(i, k)))
    BY <1>1, HeadIs, Zenon
  <2> QED
    BY <2>1, Zenon DEF IsRecord
<1>3. p \in Seq(Token) /\ Len(p) \in Nat
  BY <1>1, PiecesAre
<1>4. n \in Nat /\ q \in Seq(Token) /\ Len(q) = n
  BY <1>1, <1>3, PaddingIs
<1>5. WholeRecord(i, k) = (h \o p) \o q
  BY <1>1 DEF WholeRecord
<1>6. h \o p \in Seq(Token) /\ Len(h \o p) = Len(h) + Len(p)
  BY <1>2, <1>3, TokensConcat
<1>7. (h \o p) \o q \in Seq(Token) /\ Len((h \o p) \o q) = Len(h \o p) + Len(q)
  BY <1>4, <1>6, TokensConcat
<1>8. Len((h \o p) \o q) = Len(h) + Len(p) + n
  BY <1>4, <1>6, <1>7
<1> QED
  BY <1>1, <1>2, <1>3, <1>4, <1>5, <1>7, <1>8, Zenon

\* The records of a part, and those of all parts.
LEMMA RecordsAre ==
  ASSUME session \in Sessions
  PROVE  /\ \A i \in 1..N : /\ Records(i) \in Seq(Seq(Token)) /\ Len(Records(i)) = Count(i)
                            /\ \A k \in 1..Count(i) : Records(i)[k] = WholeRecord(i, k)
         /\ AllRecords \in Seq(Seq(Token)) /\ Len(AllRecords) = N
         /\ \A i \in 1..N : AllRecords[i] = FlattenSeq(Records(i))
<1>1. N \in Nat \ {0}
  BY SessionIs
<1>2. ASSUME NEW i \in 1..N
      PROVE  /\ Records(i) \in Seq(Seq(Token)) /\ Len(Records(i)) = Count(i)
             /\ \A k \in 1..Count(i) : Records(i)[k] = WholeRecord(i, k)
             /\ FlattenSeq(Records(i)) \in Seq(Token)
  <2>1. PICK q, n : q = Records(i) /\ n = Count(i)
    OBVIOUS
  <2>2. n \in Nat \ {0}
    BY <2>1, EndsAre
  <2>3. \A k \in 1..n : WholeRecord(i, k) \in Seq(Token)
    BY <2>1, WholeRecordIs
  <2>4. q = [k \in 1..n |-> WholeRecord(i, k)]
    BY <2>1 DEF Records
  <2>5. q \in [1..n -> Seq(Token)]
    BY <2>3, <2>4
  <2>6. q \in Seq(Seq(Token)) /\ Len(q) = n /\ \A k \in 1..n : q[k] = WholeRecord(i, k)
    BY <2>2, <2>4, <2>5
  <2>7. 1 \in 1..Len(q)
    BY <2>2, <2>6
  <2>8. FlattenSeq(q) \in Seq(Token)
    BY <2>6, <2>7, BeforeIs
  <2> QED
    BY <2>1, <2>6, <2>8
<1>3. PICK a : a = AllRecords
  OBVIOUS
<1>4. a = [i \in 1..N |-> FlattenSeq(Records(i))]
  BY <1>3 DEF AllRecords
<1>5. a \in [1..N -> Seq(Token)]
  BY <1>2, <1>4
<1>6. a \in Seq(Seq(Token)) /\ Len(a) = N /\ \A i \in 1..N : a[i] = FlattenSeq(Records(i))
  BY <1>1, <1>4, <1>5
<1> QED
  BY <1>2, <1>3, <1>6

\* The server's DIME records of a part.
LEMMA ChunksAre == \A i : Chunks(i) = FlattenSeq(Records(i))
BY DEF Chunks, Records, WholeRecord, HeadOf, Piece, Count, End

\* The same of the state that a step leads to.
LEMMA ChunksAreNext == (\A i : Chunks(i) = FlattenSeq(Records(i)))'
BY ChunksAre, PTL

\* A DIME answer is the records of all parts.
LEMMA DimeAnswer ==
  ASSUME ~MIME
  PROVE  Answer = FlattenSeq(AllRecords)
<1>1. \A i : Chunks(i) = FlattenSeq(Records(i))
  BY ChunksAre
<1>2. Answer = FlattenSeq([i \in 1..N |-> Chunks(i)])
  BY DEF Answer
<1> QED
  BY <1>1, <1>2, Zenon DEF AllRecords

\* A record, and what it is made of, is where those before it end.
LEMMA RecordStands ==
  ASSUME session \in Sessions, ~MIME, NEW i \in 1..N, NEW k \in 1..Count(i)
  PROVE  /\ Answer \in Seq(Token) /\ RecordAt(i, k) \in Nat
         /\ Stands(HeadOf(i, k), Answer, RecordAt(i, k))
         /\ Stands(Piece(i, k), Answer, RecordAt(i, k) + Len(HeadOf(i, k)))
         /\ RecordAt(i, k) + Len(WholeRecord(i, k)) <= Len(Answer)
         /\ k < Count(i) => RecordAt(i, k + 1) = RecordAt(i, k) + Len(WholeRecord(i, k))
         /\ k = Count(i) /\ i < N => RecordAt(i + 1, 1) = RecordAt(i, k) + Len(WholeRecord(i, k))
         /\ RecordAt(1, 1) = 0
<1>1. PICK a, q, w, f, n : a = AllRecords /\ q = Records(i) /\ w = Answer /\ f = FlattenSeq(q) /\ n = Count(i)
  OBVIOUS
<1>2. /\ a \in Seq(Seq(Token)) /\ Len(a) = N /\ a[i] = f /\ q \in Seq(Seq(Token)) /\ Len(q) = n
      /\ q[k] = WholeRecord(i, k) /\ w = FlattenSeq(a) /\ N \in Nat \ {0} /\ n \in Nat \ {0}
  BY <1>1, RecordsAre, DimeAnswer, SessionIs, EndsAre
<1>3. PICK x, y, x1, y1 : x = Before(a, i - 1) /\ x1 = Before(a, i) /\ y = Before(q, k - 1) /\ y1 = Before(q, k)
  OBVIOUS
<1>4. /\ w \in Seq(Token) /\ f \in Seq(Token) /\ x \in Nat /\ Before(a, 0) = 0
      /\ x1 = x + Len(f) /\ Stands(f, w, x)
  <2>1. i \in 1..Len(a)
    BY <1>2
  <2>2. /\ FlattenSeq(a) \in Seq(Token) /\ a[i] \in Seq(Token) /\ Before(a, 0) = 0 /\ Before(a, i - 1) \in Nat
        /\ Before(a, i) = Before(a, i - 1) + Len(a[i])
        /\ Stands(a[i], FlattenSeq(a), Before(a, i - 1))
    BY <1>2, <2>1, BeforeIs
  <2> QED
    BY <1>2, <1>3, <2>2
<1>5. PICK r : r = WholeRecord(i, k)
  OBVIOUS
<1>6. /\ r \in Seq(Token) /\ y \in Nat /\ y1 = y + Len(r) /\ Stands(r, f, y) /\ Before(q, n) = Len(f)
      /\ Before(q, 0) = 0
  <2>1. k \in 1..Len(q)
    BY <1>1, <1>2
  <2>2. /\ q[k] \in Seq(Token) /\ Before(q, 0) = 0 /\ Before(q, k - 1) \in Nat
        /\ Before(q, k) = Before(q, k - 1) + Len(q[k]) /\ Before(q, Len(q)) = Len(FlattenSeq(q))
        /\ Stands(q[k], FlattenSeq(q), Before(q, k - 1))
    BY <1>2, <2>1, BeforeIs
  <2> QED
    BY <1>1, <1>2, <1>3, <1>5, <2>2
<1>7. PICK p : p = RecordAt(i, k)
  OBVIOUS
<1>8. p = x + y /\ p \in Nat
  <2>1. p = x + y
    BY <1>1, <1>3, <1>7, Zenon DEF RecordAt
  <2> QED
    BY <1>4, <1>6, <2>1
<1>9. Stands(r, w, p)
  <2>1. y + Len(r) <= Len(f)
    BY <1>6 DEF Stands
  <2> QED
    BY <1>4, <1>6, <1>8, <2>1, StandsIn
<1>10. PICK h, c, g : h = HeadOf(i, k) /\ c = Piece(i, k) /\ g = Padding(PadTo(Len(c)))
  OBVIOUS
<1>11. h \in Seq(Token) /\ c \in Seq(Token) /\ g \in Seq(Token) /\ r = (h \o c) \o g
  BY <1>5, <1>10, WholeRecordIs
<1>12. h \o c \in Seq(Token)
  BY <1>11, TokensConcat
<1>13. Stands(h \o c, w, p)
  <2>1. Stands((h \o c) \o g, w, p)
    BY <1>9, <1>11
  <2> QED
    BY <1>4, <1>8, <1>11, <1>12, <2>1, StandsConcat
<1>14. Stands(h, w, p) /\ Stands(c, w, p + Len(h))
  BY <1>4, <1>8, <1>11, <1>13, StandsConcat
<1>15. k < n => RecordAt(i, k + 1) = p + Len(r)
  <2>1. (k + 1) - 1 = k
    BY <1>1, <1>2
  <2>2. RecordAt(i, k + 1) = x + y1
    BY <1>1, <1>3, <2>1 DEF RecordAt
  <2>3. Len(r) \in Nat
    BY <1>6
  <2> QED
    BY <1>4, <1>6, <1>8, <2>2, <2>3
<1>16. ASSUME k = n, i < N PROVE RecordAt(i + 1, 1) = p + Len(r)
  <2>1. PICK j : j = i + 1
    OBVIOUS
  <2>2. j \in 1..N /\ j - 1 = i
    BY <1>2, <1>16, <2>1
  <2>3. Before(Records(j), 0) = 0
    <3>1. Records(j) \in Seq(Seq(Token)) /\ Len(Records(j)) = Count(j) /\ Count(j) \in Nat \ {0}
      BY <2>2, RecordsAre, EndsAre
    <3>2. 1 \in 1..Len(Records(j))
      BY <3>1
    <3> QED
      BY <3>1, <3>2, BeforeIs
  <2>4. RecordAt(j, 1) = x1 + 0
    <3>1. 1 - 1 = 0
      OBVIOUS
    <3> QED
      BY <1>1, <1>3, <2>2, <2>3, <3>1 DEF RecordAt
  <2>5. y1 = Len(f) /\ Len(f) \in Nat /\ Len(r) \in Nat
    <3>1. y1 = Len(f)
      BY <1>3, <1>6, <1>16, Zenon
    <3>2. Len(f) \in Nat /\ Len(r) \in Nat
      BY <1>4, <1>6
    <3> QED
      BY <3>1, <3>2
  <2> QED
    BY <1>4, <1>6, <1>8, <2>1, <2>4, <2>5
<1>17. RecordAt(1, 1) = 0
  <2>1. 1 \in 1..N /\ 1 - 1 = 0
    BY <1>2
  <2>2. Before(Records(1), 0) = 0
    <3>1. Records(1) \in Seq(Seq(Token)) /\ Len(Records(1)) = Count(1) /\ Count(1) \in Nat \ {0}
      BY <2>1, RecordsAre, EndsAre
    <3>2. 1 \in 1..Len(Records(1))
      BY <3>1
    <3> QED
      BY <3>1, <3>2, BeforeIs
  <2> QED
    BY <1>1, <1>4, <2>1, <2>2 DEF RecordAt
<1>18. p + Len(r) <= Len(w)
  BY <1>9 DEF Stands
<1> QED
  BY <1>1, <1>4, <1>5, <1>7, <1>8, <1>10, <1>14, <1>15, <1>16, <1>17, <1>18

\* The records of an answer do not change.
LEMMA SameRecords ==
  ASSUME UNCHANGED <<session, boundary>>
  PROVE  /\ Answer' = Answer
         /\ \A i, k : /\ Count(i)' = Count(i) /\ End(i, k)' = End(i, k) /\ Piece(i, k)' = Piece(i, k)
                      /\ HeadOf(i, k)' = HeadOf(i, k) /\ RecordAt(i, k)' = RecordAt(i, k)
<1>1. N' = N /\ MIME' = MIME /\ Packaged' = Packaged /\ session' = session /\ \A i : Data(i)' = Data(i)
  BY SameExpected
<1>2. \A i, k : Count(i)' = Count(i) /\ End(i, k)' = End(i, k)
  BY <1>1, Zenon DEF Count, End
<1>3. \A i, k : Piece(i, k)' = Piece(i, k)
  BY <1>1, <1>2, Zenon DEF Piece
<1>4. \A i, k : HeadOf(i, k)' = HeadOf(i, k)
  BY <1>1, <1>2, <1>3, Zenon DEF HeadOf
<1>5. \A i, k : WholeRecord(i, k)' = WholeRecord(i, k)
  BY <1>3, <1>4, Zenon DEF WholeRecord
<1>6. ASSUME NEW i PROVE Records(i)' = Records(i)
  <2>1. Count(i)' = Count(i)
    BY <1>2, Zenon
  <2>2. \A k : WholeRecord(i, k)' = WholeRecord(i, k)
    BY <1>5, Zenon
  <2> QED
    BY <2>1, <2>2, Zenon DEF Records
<1>7. AllRecords' = AllRecords
  BY <1>1, <1>6, Zenon DEF AllRecords
<1>8. \A i, k : RecordAt(i, k)' = RecordAt(i, k)
  BY <1>6, <1>7, Zenon DEF RecordAt
<1>9. Answer' = Answer
  <2>1. \A i : Chunks(i)' = Chunks(i)
    BY <1>6, ChunksAre, ChunksAreNext, Zenon
  <2> QED
    BY <1>1, <2>1, Zenon DEF Answer
<1> QED
  BY <1>2, <1>3, <1>4, <1>8, <1>9

\* The first record of the first part comes first.
LEMMA StartsDime ==
  ASSUME session \in Sessions, boundary \in {0, 1}, ~MIME, Return, pc' = "record",
         Arrived(0), builder = NoPart, first = <<>>
  PROVE  StartsRecord(1, 1)'
<1>1. got = <<>> /\ sized # -1
  BY DEF Return
<1>2. /\ IF session.whole THEN wire' = Answer ELSE \E n \in 0..Len(Answer) - 1 : wire' = Upto(Answer, n)
      /\ UNCHANGED <<session, boundary, builder, parts, first>>
  BY <1>1 DEF Return, dime, result
<1>3. 1 \in 1..N /\ 1 \in 1..Count(1) /\ End(1, 0) = 0 /\ Data(1) \in Seq(Token)
  <2>1. 1 \in 1..N /\ Data(1) \in Seq(Token)
    BY SessionIs
  <2>2. Count(1) \in Nat \ {0} /\ End(1, 0) = 0
    BY <2>1, EndsAre
  <2> QED
    BY <2>1, <2>2
<1>4. Answer \in Seq(Token) /\ RecordAt(1, 1) = 0
  BY <1>3, RecordStands
<1>5. PICK v : v = wire'
  OBVIOUS
<1>6. v \in Seq(Token) /\ Stands(v, Answer, 0)
  BY <1>2, <1>4, <1>5, WireStarts
<1>7. Arrived(0)' /\ Content' = <<>>
  BY <1>2, NoContent, SameResult
<1>8. Answer' = Answer /\ RecordAt(1, 1)' = RecordAt(1, 1) /\ End(1, 0)' = End(1, 0) /\ Data(1)' = Data(1)
  BY <1>2, SameRecords, SameExpected
<1>9. Stands(<<>>, Data(1), 0) /\ Len(<<>>) = 0 /\ 1 - 1 = 0
  BY <1>3 DEF Stands
<1> QED
  BY <1>2, <1>3, <1>4, <1>5, <1>6, <1>7, <1>8, <1>9 DEF StartsRecord, Naming

\* What a flag says.
LEMMA FlagIs ==
  ASSUME NEW c \in BOOLEAN
  PROVE  (Flag(c) = 1 <=> c) /\ Flag(c) \in {0, 1}
BY DEF Flag

\* The header of a record tells what follows.
LEMMA ReadsRecord ==
  ASSUME session \in Sessions, boundary \in {0, 1}, ~MIME, NEW i \in 1..N, NEW k \in 1..Count(i),
         StartsRecord(i, k), ReadRecord, pc' # "failed"
  PROVE  UNCHANGED <<session, boundary, builder, parts>> /\ pc' = "payload" /\ InPayload(i, k)'
<1>1. PICK h, size : h = wire[1].v /\ size = 1 + 2 * h[4]
  OBVIOUS
<1>2. PICK head : head = [end |-> h[2] = 1, chunked |-> h[3] = 1, id |-> IF h[4] = 1 THEN wire[2].v[1] ELSE 0]
  OBVIOUS
<1>3. wire # <<>> /\ StreamToBuffer(size)
  <2>1. IF wire # <<>> /\ StreamToBuffer(size) THEN TRUE ELSE Fails
    BY <1>1 DEF ReadRecord
  <2> QED
    BY <2>1 DEF Fails
<1>4. /\ wire' = From(wire, size + 1) /\ rec' = head /\ first' = (IF first = <<>> /\ head.chunked THEN <<head>> ELSE first)
      /\ left' = h[5] /\ pad' = PadTo(h[5]) /\ pc' = "payload"
      /\ UNCHANGED <<session, boundary, builder, parts>>
  BY <1>1, <1>2, <1>3 DEF ReadRecord, sender, result
<1>5. PICK b, e, c, m, n, r, p : /\ b = (i = 1 /\ k = 1) /\ e = (i = N /\ k = Count(i)) /\ c = (k < Count(i)) /\ m = (k = 1)
                                 /\ n = Len(Piece(i, k)) /\ r = HeadOf(i, k) /\ p = RecordAt(i, k)
  OBVIOUS
<1>6. b \in BOOLEAN /\ e \in BOOLEAN /\ c \in BOOLEAN /\ m \in BOOLEAN /\ n \in Nat /\ N \in Nat \ {0} /\ i \in Nat
      /\ Count(i) \in Nat \ {0} /\ k \in Nat
  BY <1>5, SessionIs, EndsAre, PiecesAre
<1>7. IsRecord(r, i, b, e, c, m, n)
  <2>1. IsRecord(HeadOf(i, k), i, i = 1 /\ k = 1, i = N /\ k = Count(i), k < Count(i), k = 1, Len(Piece(i, k)))
    BY HeadIs, Zenon
  <2> QED
    BY <1>5, <2>1, Zenon
<1>8. /\ r \in Seq(Token) /\ Len(r) = 1 + 2 * Flag(m)
      /\ r[1] = T("rec", <<Flag(b), Flag(e), Flag(c), Flag(m), n>>)
      /\ Flag(m) = 1 => r[2] = T("id", <<i>>)
  BY <1>7, Zenon DEF IsRecord
<1>9. Flag(m) \in {0, 1} /\ (Flag(m) = 1 <=> m) /\ (Flag(e) = 1 <=> e) /\ (Flag(c) = 1 <=> c)
  BY <1>6, FlagIs, Zenon
<1>10. /\ wire \in Seq(Token) /\ Stands(wire, Answer, p) /\ Answer \in Seq(Token) /\ p \in Nat /\ Stands(r, Answer, p)
       /\ Arrived(i - 1) /\ Stands(Content, Data(i), 0) /\ Len(Content) = End(i, k - 1) /\ Naming(i, k)
  BY <1>5, RecordStands DEF StartsRecord
<1>11. wire[1] = r[1]
  <2>1. 1 \in 1..Len(wire) /\ 1 \in 1..Len(r)
    BY <1>3, <1>8, <1>9, <1>10, SMTT(30)
  <2>2. wire[1] = Answer[p + 1] /\ r[1] = Answer[p + 1]
    BY <1>10, <2>1 DEF Stands
  <2> QED
    BY <2>2
<1>12. h = <<Flag(b), Flag(e), Flag(c), Flag(m), n>>
  BY <1>1, <1>8, <1>11 DEF T
<1>13. h[2] = Flag(e) /\ h[3] = Flag(c) /\ h[4] = Flag(m) /\ h[5] = n
  BY <1>12
<1>14. size = Len(r) /\ Len(wire) >= size /\ size \in Nat /\ Len(wire) \in Nat
  BY <1>1, <1>3, <1>8, <1>9, <1>10, <1>13 DEF StreamToBuffer
<1>15. m => head.id = i
  <2> SUFFICES ASSUME m PROVE head.id = i
    OBVIOUS
  <2>1. h[4] = 1 /\ size = 3 /\ r[2] = T("id", <<i>>)
    <3>1. Flag(m) = 1
      BY <1>9, Zenon
    <3>2. h[4] = 1 /\ r[2] = T("id", <<i>>)
      BY <1>8, <1>13, <3>1, Zenon
    <3> QED
      BY <1>1, <3>2
  <2>2. wire[2] = Answer[p + 2] /\ r[2] = Answer[p + 2]
    <3>1. 2 \in 1..Len(wire) /\ 2 \in 1..Len(r)
      BY <1>14, <2>1
    <3> QED
      BY <1>10, <3>1 DEF Stands
  <2>3. wire[2].v[1] = i
    BY <2>1, <2>2 DEF T
  <2> QED
    BY <1>2, <2>1, <2>3
<1>16. (head.end <=> e) /\ (head.chunked <=> c) /\ head.end \in BOOLEAN /\ head.chunked \in BOOLEAN
  BY <1>2, <1>9, <1>13
<1>17. PICK v : v = From(wire, size + 1)
  OBVIOUS
<1>18. v \in Seq(Token) /\ Stands(v, Answer, p + Len(r))
  <2>1. size \in 0..Len(wire)
    BY <1>14
  <2>2. Stands(SubSeq(wire, size + 1, Len(wire)), Answer, p + size) /\ SubSeq(wire, size + 1, Len(wire)) \in Seq(Token)
    BY <1>10, <2>1, TokensCut
  <2> QED
    BY <1>14, <1>17, <2>2 DEF From
<1>19. /\ Answer' = Answer /\ Count(i)' = Count(i) /\ N' = N /\ Data(i)' = Data(i) /\ Piece(i, k)' = Piece(i, k)
       /\ HeadOf(i, k)' = r /\ RecordAt(i, k)' = p /\ End(i, k)' = End(i, k)
  BY <1>4, <1>5, SameRecords, SameExpected
<1>20. Arrived(i - 1)' /\ Content' = Content
  BY <1>4, <1>10, SameResult
<1>21. Len(Content) = End(i, k) - n /\ n \in 0..n /\ p + Len(r) + n - n = p + Len(r)
  <2>1. n = End(i, k) - End(i, k - 1) /\ End(i, k) \in Nat /\ End(i, k - 1) \in Nat
    BY <1>5, PiecesAre, EndsAre
  <2>2. PICK l, x, y, z : l = Len(r) /\ x = End(i, k) /\ y = End(i, k - 1) /\ z = Len(Content)
    OBVIOUS
  <2>3. l \in Nat /\ x \in Nat /\ y \in Nat /\ n = x - y /\ z = y /\ n \in Nat /\ p \in Nat
    BY <1>6, <1>8, <1>10, <2>1, <2>2
  <2>4. z = x - n /\ n \in 0..n /\ p + l + n - n = p + l
    BY <2>3
  <2> QED
    BY <2>2, <2>4
<1>22. IF k = 1 /\ k = Count(i) THEN first' = <<>> /\ rec'.id = i ELSE Len(first') = 1 /\ first'[1].id = i
  <2>1. CASE k = 1
    <3>1. first = <<>> /\ head.id = i
      BY <1>5, <1>10, <1>15, <2>1 DEF Naming
    <3>2. CASE Count(i) = 1
      <4>1. ~head.chunked
        <5>1. ~(k < Count(i))
          BY <2>1, <3>2
        <5> QED
          BY <1>5, <1>16, <5>1, Zenon
      <4> QED
        BY <1>4, <2>1, <3>1, <3>2, <4>1
    <3>3. CASE Count(i) # 1
      <4>1. head.chunked
        <5>1. k < Count(i)
          BY <1>6, <2>1, <3>3
        <5> QED
          BY <1>5, <1>16, <5>1, Zenon
      <4>2. first' = <<head>>
        BY <1>4, <3>1, <4>1
      <4> QED
        BY <2>1, <3>1, <3>3, <4>2
    <3> QED
      BY <3>2, <3>3
  <2>2. CASE k # 1
    <3>1. Len(first) = 1 /\ first[1].id = i
      BY <1>10, <2>2 DEF Naming
    <3>2. first # <<>>
      BY <3>1
    <3> QED
      BY <1>4, <2>2, <3>1, <3>2
  <2> QED
    BY <2>1, <2>2
<1>23. (rec.end = (i = N /\ k = Count(i)))' /\ (rec.chunked = (k < Count(i)))'
  <2>1. head.end = e /\ head.chunked = c
    BY <1>6, <1>16, Zenon
  <2> QED
    BY <1>4, <1>5, <1>19, <2>1
<1>24. InPayload(i, k)'
  <2>1. left' = n /\ pad' = PadTo(n) /\ wire' = v
    BY <1>4, <1>13, <1>17
  <2> QED
    BY <1>5, <1>10, <1>18, <1>19, <1>20, <1>21, <1>22, <1>23, <2>1 DEF InPayload
<1> QED
  BY <1>4, <1>24

\* What is read of a payload goes to its part.
LEMMA ReadsPayload ==
  ASSUME session \in Sessions, session.disk, boundary \in {0, 1}, ~MIME, BuilderType, NEW i \in 1..N, NEW k \in 1..Count(i),
         InPayload(i, k), ReadPayload, pc' # "failed"
  PROVE  UNCHANGED <<session, boundary, pc, parts>> /\ BuilderType' /\ InPayload(i, k)'
<1>1. PICK m, u, v : m = Least(BUFF, left) /\ u = Upto(wire, m) /\ v = From(wire, m + 1)
  OBVIOUS
<1>2. /\ Len(wire) >= m /\ wire' = v /\ builder' \in AddToPayload(u) /\ left' = left - m
      /\ UNCHANGED <<session, boundary, pc, rec, first, pad, parts>>
  BY <1>1 DEF ReadPayload, StreamToBuffer, Fails, sender
<1>3. PICK c, h, n, o, p, d, x, a : /\ c = Piece(i, k) /\ h = Len(HeadOf(i, k)) /\ n = Len(c) /\ p = RecordAt(i, k)
                                    /\ o = n - left /\ d = Data(i) /\ x = End(i, k - 1) /\ a = Answer
  OBVIOUS
<1>4. /\ wire \in Seq(Token) /\ left \in 0..n /\ Stands(wire, a, p + h + n - left)
      /\ Arrived(i - 1) /\ Stands(Content, d, 0) /\ Len(Content) = End(i, k) - left
  BY <1>3 DEF InPayload
<1>5. /\ c \in Seq(Token) /\ n \in Nat /\ n = End(i, k) - x /\ x \in Nat /\ End(i, k) \in Nat
      /\ Stands(c, d, x) /\ d \in Seq(Token) /\ End(i, k) <= Len(d)
  BY <1>3, PiecesAre, EndsAre, SessionIs
<1>6. a \in Seq(Token) /\ p \in Nat /\ h \in Nat /\ Stands(c, a, p + h)
  <2>1. HeadOf(i, k) \in Seq(Token)
    BY WholeRecordIs
  <2>2. h \in Nat
    BY <1>3, <2>1
  <2> QED
    BY <1>3, <2>2, RecordStands
<1>7. m \in Nat /\ m <= left /\ m <= Len(wire) /\ left \in Nat /\ o \in Nat /\ o + m <= n /\ Len(wire) \in Nat
  <2>1. left \in Nat /\ BUFF \in Nat /\ Len(wire) \in Nat
    BY <1>4, <1>5, AttachmentConstants
  <2>2. m \in Nat /\ m <= left
    BY <1>1, <2>1 DEF Least
  <2>3. o = n - left /\ left <= n /\ n \in Nat
    BY <1>3, <1>4, <1>5
  <2>4. o \in Nat /\ o + m <= n
    BY <2>1, <2>2, <2>3
  <2> QED
    BY <1>2, <2>1, <2>2, <2>4
<1>8. p + h + n - left = (p + h) + o /\ p + h \in Nat /\ (p + h) + o \in Nat
  <2>1. o = n - left /\ n \in Nat /\ left \in Nat
    BY <1>3, <1>5, <1>7
  <2> QED
    BY <1>6, <1>7, <2>1
<1>9. /\ u \in Seq(Token) /\ Len(u) = m /\ v \in Seq(Token)
      /\ Stands(u, a, (p + h) + o) /\ Stands(v, a, ((p + h) + o) + m)
  <2>1. PICK l \in 0..Len(wire) :
          /\ l = Least(m, Len(wire))
          /\ Upto(wire, m) \in Seq(Token) /\ Len(Upto(wire, m)) = l
          /\ From(wire, m + 1) \in Seq(Token)
          /\ \A w \in Seq(Token), q \in Nat :
               Stands(wire, w, q) => Stands(Upto(wire, m), w, q) /\ Stands(From(wire, m + 1), w, q + l)
    BY <1>4, <1>7, UptoFrom
  <2>2. l = m
    <3>1. Least(m, Len(wire)) = m
      BY <1>7 DEF Least
    <3> QED
      BY <2>1, <3>1, Zenon
  <2>3. Stands(wire, a, (p + h) + o)
    BY <1>4, <1>8
  <2> QED
    BY <1>1, <1>6, <1>8, <2>1, <2>2, <2>3
<1>10. Stands(u, c, o)
  <2>1. o + Len(u) <= Len(c)
    BY <1>3, <1>7, <1>9
  <2> QED
    BY <1>5, <1>6, <1>7, <1>8, <1>9, <2>1, StandsIn
<1>11. Stands(u, d, x + o)
  <2>1. o + Len(u) <= Len(c)
    BY <1>3, <1>7, <1>9
  <2> QED
    BY <1>5, <1>7, <1>9, <1>10, <2>1, StandsIn
<1>12. Content \in Seq(Token) /\ Len(Content) \in Nat /\ x + o = Len(Content)
  <2>1. Content \in Seq(Token) /\ Len(Content) \in Nat
    BY ContentIs
  <2>2. x + o = End(i, k) - left
    <3>1. PICK e : e = End(i, k)
      OBVIOUS
    <3>2. o = n - left /\ n = e - x /\ x \in Nat /\ e \in Nat /\ left \in Nat
      BY <1>3, <1>5, <1>7, <3>1
    <3>3. x + o = e - left
      BY <3>2
    <3> QED
      BY <3>1, <3>3
  <2> QED
    BY <1>4, <2>1, <2>2
<1>13. PICK y : y = Content \o u
  OBVIOUS
<1>14. y \in Seq(Token) /\ Len(y) = Len(Content) + m /\ Stands(y, d, 0)
  <2>1. y \in Seq(Token) /\ Len(y) = Len(Content) + Len(u)
    BY <1>9, <1>12, <1>13, TokensConcat
  <2>2. 0 + Len(Content) = Len(Content) /\ 0 \in Nat
    BY <1>12
  <2>3. Stands(Content, d, 0) /\ Stands(u, d, 0 + Len(Content))
    BY <1>4, <1>11, <1>12, <2>2
  <2>4. Stands(y, d, 0)
    BY <1>5, <1>9, <1>12, <1>13, <2>2, <2>3, StandsConcat
  <2> QED
    BY <1>9, <2>1, <2>4
<1>15. BuilderType' /\ Content' = y
  <2>1. PICK b \in AddToPayload(u) : builder' = b
    BY <1>2
  <2>2. /\ b \in [payload : Seq(Token), toDisk : BOOLEAN, file : Seq(Token)]
        /\ (IF b.toDisk THEN b.file ELSE b.payload) = y
    BY <1>9, <1>13, AddsContent
  <2> QED
    BY <2>1, <2>2 DEF BuilderType, Content
<1>16. /\ Answer' = a /\ Count(i)' = Count(i) /\ N' = N /\ Data(i)' = d /\ Piece(i, k)' = c
       /\ HeadOf(i, k)' = HeadOf(i, k) /\ RecordAt(i, k)' = p /\ End(i, k)' = End(i, k)
       /\ session.old' = session.old /\ Expected' = Expected
  BY <1>2, <1>3, SameRecords, SameExpected
<1>17. Arrived(i - 1)'
  BY <1>2, <1>4, <1>16 DEF Arrived
<1>18. left' \in 0..n /\ p + h + n - left' = ((p + h) + o) + m /\ Len(y) = End(i, k) - left'
  <2>1. PICK e, f, g : e = End(i, k) /\ f = left - m /\ g = Len(Content)
    OBVIOUS
  <2>2. /\ e \in Nat /\ n \in Nat /\ left \in Nat /\ m \in Nat /\ m <= left /\ left <= n /\ o = n - left /\ g = e - left
        /\ p \in Nat /\ h \in Nat
    BY <1>3, <1>4, <1>5, <1>6, <1>7, <2>1
  <2>3. f \in 0..n /\ p + h + n - f = ((p + h) + o) + m /\ g + m = e - f
    BY <2>1, <2>2
  <2> QED
    BY <1>2, <1>14, <2>1, <2>3
<1>19. /\ (rec.end = (i = N /\ k = Count(i)))' /\ (rec.chunked = (k < Count(i)))'
       /\ IF k = 1 /\ k = Count(i) THEN first' = <<>> /\ rec'.id = i ELSE Len(first') = 1 /\ first'[1].id = i
  BY <1>2, <1>16 DEF InPayload
<1>20. pad' = PadTo(n)
  BY <1>2, <1>3 DEF InPayload
<1>21. InPayload(i, k)'
  <2>1. Stands(v, a, p + h + n - left')
    BY <1>9, <1>18
  <2> QED
    BY <1>2, <1>3, <1>9, <1>14, <1>15, <1>16, <1>17, <1>18, <1>19, <1>20, <2>1 DEF InPayload
<1> QED
  BY <1>2, <1>15, <1>21

\* The last record of a part makes it complete, under the id that its first record named; the
\* next part, or the next piece of this, follows.
LEMMA EndsRecord ==
  ASSUME session \in Sessions, boundary \in {0, 1}, ~MIME, BuilderType, NEW i \in 1..N, NEW k \in 1..Count(i),
         InPayload(i, k), EndRecord
  PROVE  /\ UNCHANGED <<session, boundary>> /\ BuilderType'
         /\ \/ pc' = "record" /\ \E j \in 1..N : \E l \in 1..Count(j) : StartsRecord(j, l)'
            \/ pc' = "start" /\ Arrived(N)'
<1>1. PICK v : v = From(wire, pad + 1)
  OBVIOUS
<1>2. /\ left = 0 /\ wire' = v
      /\ IF rec.chunked THEN UNCHANGED <<builder, parts, first>> ELSE Generate(builder, Named.id) /\ first' = <<>>
      /\ pc' = IF rec.end THEN "start" ELSE "record"
      /\ UNCHANGED <<session, boundary>>
  BY <1>1 DEF EndRecord, sender
<1>3. PICK c, h, n, p, a, s : /\ c = Piece(i, k) /\ h = Len(HeadOf(i, k)) /\ n = Len(c) /\ p = RecordAt(i, k) /\ a = Answer
                              /\ s = Len(WholeRecord(i, k))
  OBVIOUS
<1>4. /\ wire \in Seq(Token) /\ Stands(wire, a, p + h + n - left) /\ pad = PadTo(n)
      /\ Arrived(i - 1) /\ Stands(Content, Data(i), 0) /\ Len(Content) = End(i, k) - left
      /\ rec.end = (i = N /\ k = Count(i)) /\ rec.chunked = (k < Count(i))
      /\ IF k = 1 /\ k = Count(i) THEN first = <<>> /\ rec.id = i ELSE Len(first) = 1 /\ first[1].id = i
  BY <1>3 DEF InPayload
<1>5. n \in Nat /\ h \in Nat /\ pad \in Nat /\ s = h + n + pad
  <2>1. HeadOf(i, k) \in Seq(Token) /\ n \in Nat /\ PadTo(n) \in Nat /\ s = Len(HeadOf(i, k)) + n + PadTo(n)
    BY <1>3, WholeRecordIs
  <2> QED
    BY <1>3, <1>4, <2>1
<1>6. /\ a \in Seq(Token) /\ p \in Nat /\ N \in Nat \ {0} /\ Count(i) \in Nat \ {0} /\ End(i, k) \in Nat
      /\ k < Count(i) => RecordAt(i, k + 1) = p + s
      /\ k = Count(i) /\ i < N => RecordAt(i + 1, 1) = p + s
      /\ End(i, Count(i)) = Len(Data(i)) /\ Data(i) \in Seq(Token) /\ p + s <= Len(a)
  BY <1>3, RecordStands, SessionIs, EndsAre
<1>7. v \in Seq(Token) /\ Stands(v, a, p + s)
  <2>1. PICK q : q = p + h + n - left
    OBVIOUS
  <2>2. q \in Nat /\ q + pad = p + s
    BY <1>2, <1>5, <1>6, <2>1
  <2>3. CASE pad <= Len(wire)
    <3>1. pad \in 0..Len(wire) /\ Stands(wire, a, q)
      <4>1. Len(wire) \in Nat
        BY <1>4
      <4> QED
        BY <1>4, <1>5, <2>1, <2>3, <4>1
    <3>2. Stands(SubSeq(wire, pad + 1, Len(wire)), a, q + pad) /\ SubSeq(wire, pad + 1, Len(wire)) \in Seq(Token)
      BY <1>4, <1>6, <2>2, <3>1, TokensCut
    <3> QED
      BY <1>1, <2>2, <3>2 DEF From
  <2>4. CASE ~(pad <= Len(wire))
    <3>1. Len(wire) \in Nat /\ Len(wire) < pad + 1
      BY <1>4, <1>5, <2>4
    <3>2. v = <<>>
      BY <1>1, <1>4, <1>5, <3>1 DEF From
    <3>3. p + s \in Nat /\ p + s <= Len(a) /\ Len(a) \in Nat
      BY <1>5, <1>6
    <3>4. Len(<<>>) = 0 /\ <<>> \in Seq(Token)
      OBVIOUS
    <3> QED
      BY <3>2, <3>3, <3>4 DEF Stands
  <2> QED
    BY <2>3, <2>4
<1>8. /\ Answer' = a /\ N' = N
      /\ \A j : Data(j)' = Data(j)
      /\ \A j, l : Count(j)' = Count(j) /\ RecordAt(j, l)' = RecordAt(j, l) /\ End(j, l)' = End(j, l)
  BY <1>2, <1>3, SameRecords, SameExpected
<1>9. Len(Content) = End(i, k)
  BY <1>2, <1>4, <1>6
<1>10. CASE k < Count(i)
  <2>1. rec.chunked /\ ~rec.end
    <3>1. k # Count(i)
      BY <1>6, <1>10
    <3> QED
      BY <1>4, <1>10, <3>1, Zenon
  <2>2. UNCHANGED <<builder, parts, first>> /\ pc' = "record"
    BY <1>2, <2>1
  <2>3. PICK l : l = k + 1
    OBVIOUS
  <2>4. l \in 1..Count(i) /\ l - 1 = k /\ l # 1
    BY <1>6, <1>10, <2>3
  <2>5. Naming(i, l)'
    <3>1. Len(first) = 1 /\ first[1].id = i
      BY <1>4, <1>6, <1>10
    <3> QED
      BY <2>2, <2>4, <3>1 DEF Naming
  <2>6. BuilderType' /\ Content' = Content /\ Arrived(i - 1)'
    BY <1>2, <1>4, <2>2, SameResult
  <2>7. RecordAt(i, l) = p + s
    BY <1>6, <1>10, <2>3
  <2>8. StartsRecord(i, l)'
    <3>1. Answer' = a /\ RecordAt(i, l)' = p + s /\ Data(i)' = Data(i) /\ End(i, l - 1)' = End(i, k)
      BY <1>8, <2>4, <2>7
    <3> QED
      BY <1>2, <1>4, <1>7, <1>9, <2>5, <2>6, <3>1 DEF StartsRecord
  <2> QED
    BY <1>2, <2>2, <2>4, <2>6, <2>8
<1>11. CASE ~(k < Count(i))
  <2>1. k = Count(i)
    BY <1>6, <1>11
  <2>2. ~rec.chunked /\ (rec.end <=> i = N)
    BY <1>4, <1>11, <2>1, Zenon
  <2>3. Content = Data(i)
    <3>1. Content \in Seq(Token) /\ Len(Content) = Len(Data(i))
      BY <1>6, <1>9, <2>1, ContentIs
    <3>2. Stands(Data(i), Data(i), 0)
      BY <1>6 DEF Stands
    <3> QED
      BY <1>4, <1>6, <3>1, <3>2, StandsSame
  <2>4. Named.id = i
    <3>1. CASE k = 1
      BY <1>4, <2>1, <3>1 DEF Named
    <3>2. CASE k # 1
      <4>1. Len(first) = 1 /\ first[1].id = i
        BY <1>4, <3>2
      <4>2. first # <<>>
        <5> SUFFICES ASSUME first = <<>> PROVE FALSE
          OBVIOUS
        <5>1. Len(first) = 0
          OBVIOUS
        <5>2. Len(first) = 1
          BY <4>1, Zenon
        <5> QED
          BY <5>1, <5>2
      <4> QED
        BY <4>1, <4>2 DEF Named
    <3> QED
      BY <3>1, <3>2
  <2>5. Generate(builder, i) /\ first' = <<>>
    BY <1>2, <2>2, <2>4
  <2>6. Arrived(i)' /\ Content' = <<>> /\ BuilderType'
    <3>1. (IF builder.toDisk THEN builder.file ELSE builder.payload) = Data(i)
      BY <2>3 DEF Content
    <3>2. PICK b : b = builder
      OBVIOUS
    <3>3. (IF b.toDisk THEN b.file ELSE b.payload) = Data(i) /\ Generate(b, i)
      BY <2>5, <3>1, <3>2
    <3> QED
      BY <1>2, <1>4, <3>3, GeneratesNext
  <2>7. CASE i = N
    <3>1. pc' = "start"
      BY <1>2, <2>2, <2>7
    <3>2. Arrived(N)'
      BY <1>8, <2>6, <2>7 DEF Arrived
    <3> QED
      BY <1>2, <2>6, <3>1, <3>2
  <2>8. CASE i # N
    <3>1. pc' = "record"
      BY <1>2, <2>2, <2>8
    <3>2. PICK j : j = i + 1
      OBVIOUS
    <3>3. j \in 1..N /\ j - 1 = i /\ i < N
      BY <1>6, <2>8, <3>2
    <3>4. RecordAt(j, 1) = p + s
      BY <1>6, <2>1, <3>2, <3>3
    <3>5. 1 \in 1..Count(j) /\ End(j, 0) = 0 /\ Data(j) \in Seq(Token)
      <4>1. Count(j) \in Nat \ {0} /\ End(j, 0) = 0
        BY <3>3, EndsAre
      <4> QED
        BY <3>3, <4>1, SessionIs
    <3>6. StartsRecord(j, 1)'
      <4>1. Answer' = a /\ RecordAt(j, 1)' = p + s /\ Data(j)' = Data(j) /\ End(j, 0)' = 0
        BY <1>8, <3>4, <3>5
      <4>2. Stands(<<>>, Data(j), 0) /\ Len(<<>>) = 0 /\ 1 - 1 = 0
        BY <3>5 DEF Stands
      <4>3. Naming(j, 1)'
        BY <2>5 DEF Naming
      <4> QED
        BY <1>2, <1>7, <2>6, <3>3, <4>1, <4>2, <4>3 DEF StartsRecord
    <3> QED
      BY <1>2, <2>6, <3>1, <3>3, <3>5, <3>6
  <2> QED
    BY <2>7, <2>8
<1> QED
  BY <1>10, <1>11

\* Record by record the parts of a DIME answer arrive.
LEMMA DimeStep ==
  ASSUME session.disk, CheckInv, ReceiveInv, ReceivesDime
  PROVE  ReceiveInv'
<1>1. Receiving /\ UNCHANGED <<session, boundary>>
  BY ReceivesOnly DEF Receives, sender
<1>2. session \in Sessions /\ boundary \in {0, 1} /\ BuilderType
  BY DEF CheckInv, ReceiveInv
<1>3. pc \in {"record", "payload"} /\ ~MIME
  <2>1. pc \in {"record", "payload"}
    BY DEF ReceivesDime, ReadRecord, ReadPayload, EndRecord
  <2> QED
    BY <2>1 DEF ReceiveInv
<1>4. N \in Nat \ {0} /\ N' = N /\ MIME' = MIME /\ \A i : Count(i)' = Count(i)
  BY <1>1, <1>2, SessionIs, SameExpected, SameRecords
<1>5. PICK a \in 0..N : Arrived(a)
  BY DEF ReceiveInv
<1>6. UNCHANGED parts => Arrived(a)'
  <2>1. session.old' = session.old /\ Expected' = Expected
    BY <1>1, SameExpected
  <2> QED
    BY <1>5, <2>1 DEF Arrived
<1>7. CASE pc' = "failed"
  <2>1. Fails
    BY <1>3, <1>7 DEF ReceivesDime, ReadRecord, ReadPayload, EndRecord
  <2>2. builder' = NoPart /\ UNCHANGED parts
    BY <2>1 DEF Fails
  <2>3. BuilderType'
    BY <2>2, NoContentNext DEF NoPart
  <2>4. \E k \in 0..N : Arrived(k)'
    BY <1>6, <2>2
  <2> QED
    BY <1>4, <1>7, <2>3, <2>4 DEF ReceiveInv, MimeInv, DimeInv
<1>8. CASE pc' # "failed" /\ ReadRecord
  <2>1. pc = "record"
    BY <1>8 DEF ReadRecord
  <2>2. PICK i \in 1..N : \E k \in 1..Count(i) : StartsRecord(i, k)
    BY <2>1 DEF ReceiveInv, DimeInv
  <2>3. PICK k \in 1..Count(i) : StartsRecord(i, k)
    BY <2>2
  <2>4. UNCHANGED <<session, boundary, builder, parts>> /\ pc' = "payload" /\ InPayload(i, k)'
    BY <1>2, <1>3, <1>8, <2>3, ReadsRecord
  <2>5. BuilderType' /\ \E j \in 0..N : Arrived(j)'
    BY <1>2, <1>6, <2>4 DEF BuilderType
  <2>6. \E j \in 1..N : \E l \in 1..Count(j) : InPayload(j, l)'
    BY <2>4
  <2> QED
    BY <1>3, <1>4, <2>4, <2>5, <2>6 DEF ReceiveInv, MimeInv, DimeInv
<1>9. CASE pc' # "failed" /\ ReadPayload
  <2>1. pc = "payload"
    BY <1>9 DEF ReadPayload
  <2>2. PICK i \in 1..N : \E k \in 1..Count(i) : InPayload(i, k)
    BY <2>1 DEF ReceiveInv, DimeInv
  <2>3. PICK k \in 1..Count(i) : InPayload(i, k)
    BY <2>2
  <2>4. UNCHANGED <<session, boundary, pc, parts>> /\ BuilderType' /\ InPayload(i, k)'
    BY <1>2, <1>3, <1>9, <2>3, ReadsPayload
  <2>5. \E j \in 0..N : Arrived(j)'
    BY <1>6, <2>4
  <2>6. \E j \in 1..N : \E l \in 1..Count(j) : InPayload(j, l)'
    BY <2>4
  <2> QED
    BY <1>3, <1>4, <2>1, <2>4, <2>5, <2>6 DEF ReceiveInv, MimeInv, DimeInv
<1>10. CASE pc' # "failed" /\ EndRecord
  <2>1. pc = "payload"
    BY <1>10 DEF EndRecord
  <2>2. PICK i \in 1..N : \E k \in 1..Count(i) : InPayload(i, k)
    BY <2>1 DEF ReceiveInv, DimeInv
  <2>3. PICK k \in 1..Count(i) : InPayload(i, k)
    BY <2>2
  <2>4. /\ BuilderType'
        /\ \/ pc' = "record" /\ \E j \in 1..N : \E l \in 1..Count(j) : StartsRecord(j, l)'
           \/ pc' = "start" /\ Arrived(N)'
    BY <1>2, <1>3, <1>10, <2>3, EndsRecord
  <2>5. CASE pc' = "record" /\ \E j \in 1..N : \E l \in 1..Count(j) : StartsRecord(j, l)'
    <3>1. PICK j \in 1..N : \E l \in 1..Count(j) : StartsRecord(j, l)'
      BY <2>5
    <3>2. Arrived(j - 1)' /\ j - 1 \in 0..N
      BY <1>4, <3>1 DEF StartsRecord
    <3>3. \E q \in 0..N : Arrived(q)'
      BY <3>2
    <3> QED
      BY <1>3, <1>4, <2>4, <2>5, <3>3 DEF ReceiveInv, MimeInv, DimeInv
  <2>6. CASE pc' = "start" /\ Arrived(N)'
    <3>1. N \in 0..N
      BY <1>4
    <3>2. \E q \in 0..N : Arrived(q)'
      <4>1. PICK q \in 0..N : q = N
        BY <3>1
      <4>2. Arrived(q)'
        BY <1>4, <2>6, <4>1 DEF Arrived
      <4> QED
        BY <4>2
    <3> QED
      BY <1>3, <1>4, <2>4, <2>6, <3>2 DEF ReceiveInv, MimeInv, DimeInv
  <2> QED
    BY <2>4, <2>5, <2>6
<1> QED
  BY <1>7, <1>8, <1>9, <1>10 DEF ReceivesDime
-----------------------------------------------------------------------------
(* From the request to the envelope *)

\* While a message is packed, nothing arrives; its last read is when the answer may.
LEMMA SendsReceive ==
  ASSUME CheckInv, ReceiveInv, Sends
  PROVE  ReceiveInv'
<1>1. pc \in {"check", "ask", "fill"} /\ session' = session /\ UNCHANGED <<buff, first, builder, parts>>
  BY DEF Sends, CheckBoundary, Ask, AddCurrentHeader, AddNextChunk, Return, receiver, mime, dime, result
<1>2. session \in Sessions /\ boundary \in {0, 1}
  BY DEF CheckInv
<1>3. BuilderType /\ Arrived(0) /\ builder = NoPart /\ buff = <<>> /\ first = <<>>
  BY <1>1 DEF ReceiveInv
<1>4. N \in Nat \ {0} /\ N' = N /\ MIME' = MIME /\ MIME \in BOOLEAN /\ session.old' = session.old /\ Expected' = Expected
  <2>1. N' = N /\ MIME' = MIME /\ session.old' = session.old
    BY <1>1 DEF N, MIME
  <2>2. Expected' = Expected
    BY <1>1 DEF Expected, N, Data
  <2> QED
    BY <1>2, <2>1, <2>2, SessionIs
<1>5. BuilderType' /\ Arrived(0)' /\ (\E k \in 0..N : Arrived(k)')
  <2>1. BuilderType' /\ Arrived(0)'
    BY <1>1, <1>3, <1>4 DEF BuilderType, Arrived
  <2>2. 0 \in 0..N
    BY <1>4
  <2> QED
    BY <2>1, <2>2
<1>6. CASE pc' \in {"check", "ask", "fill"}
  BY <1>1, <1>3, <1>4, <1>5, <1>6 DEF ReceiveInv, MimeInv, DimeInv
<1>7. CASE pc' \notin {"check", "ask", "fill"}
  <2>1. Return
    BY <1>1, <1>7 DEF Sends, CheckBoundary, Ask, AddCurrentHeader, AddNextChunk
  <2>2. pc' = IF MIME THEN "find" ELSE "record"
    BY <1>7, <2>1 DEF Return
  <2>3. CASE MIME
    <3>1. pc' = "find"
      BY <2>2, <2>3
    <3>2. \E p \in Nat : FindAt(p)'
      BY <1>2, <1>3, <2>1, <2>3, <3>1, StartsMime
    <3> QED
      BY <1>4, <1>5, <2>3, <3>1, <3>2 DEF ReceiveInv, MimeInv, DimeInv
  <2>4. CASE ~MIME
    <3>1. pc' = "record"
      BY <2>2, <2>4
    <3>2. StartsRecord(1, 1)'
      BY <1>2, <1>3, <2>1, <2>4, <3>1, StartsDime
    <3>3. 1 \in 1..N /\ 1 \in 1..Count(1) /\ Count(1)' = Count(1)
      <4>1. 1 \in 1..N
        BY <1>4
      <4>2. Count(1) \in Nat \ {0}
        BY <1>2, <4>1, EndsAre
      <4>3. Count(1)' = Count(1)
        BY <1>1 DEF Count, Data
      <4> QED
        BY <4>1, <4>2, <4>3
    <3>4. (\E i \in 1..N : \E k \in 1..Count(i) : StartsRecord(i, k))'
      BY <1>4, <3>2, <3>3
    <3> QED
      BY <1>4, <1>5, <2>4, <3>1, <3>4 DEF ReceiveInv, MimeInv, DimeInv
  <2> QED
    BY <1>4, <2>3, <2>4
<1> QED
  BY <1>6, <1>7

\* What is received, from step to step.
LEMMA ReceiveStep ==
  ASSUME session.disk, CheckInv, ReceiveInv, [Next]_vars
  PROVE  ReceiveInv'
<1>1. CASE UNCHANGED vars
  <2>1. UNCHANGED <<session, boundary, pc, wire, buff, bdy, search, cid, rec, first, left, pad, builder, parts, envelope>>
    BY <1>1 DEF vars, sender, receiver, mime, dime, result
  <2>2. /\ N' = N /\ MIME' = MIME /\ Packaged' = Packaged /\ session.old' = session.old
        /\ \A i : Data(i)' = Data(i) /\ At(i)' = At(i) /\ DataAt(i)' = DataAt(i)
    BY <2>1, SameExpected
  <2>3. Content' = Content /\ (BuilderType' <=> BuilderType) /\ \A k : Arrived(k)' <=> Arrived(k)
    BY <2>1, SameResult
  <2>4. MimeInv' <=> MimeInv
    <3>1. \A p : Wired(p)' <=> Wired(p)
      BY <2>1, <2>2 DEF Wired
    <3>2. \A p : FindAt(p)' <=> FindAt(p)
      BY <2>3, <3>1 DEF FindAt
    <3>3. \A p, k : HeadersAt(p, k)' <=> HeadersAt(p, k)
      BY <2>1, <2>2, <2>3, <3>1 DEF HeadersAt
    <3>4. \A p, k : BodyAt(p, k)' <=> BodyAt(p, k)
      BY <2>1, <2>2, <2>3, <3>1 DEF BodyAt
    <3>5. \A p, k : NextAt(p, k)' <=> NextAt(p, k)
      BY <2>1, <2>2, <2>3, <3>1 DEF NextAt
    <3>6. Arrived(N)' <=> Arrived(N)
      BY <2>1 DEF Arrived, Expected, N, Data
    <3> QED
      BY <2>1, <2>2, <3>2, <3>3, <3>4, <3>5, <3>6 DEF MimeInv
  <2>5. DimeInv' <=> DimeInv
    <3>1. /\ Answer' = Answer
          /\ \A i, k : /\ Count(i)' = Count(i) /\ End(i, k)' = End(i, k) /\ Piece(i, k)' = Piece(i, k)
                       /\ HeadOf(i, k)' = HeadOf(i, k) /\ RecordAt(i, k)' = RecordAt(i, k)
      BY <2>1, SameRecords
    <3>2. \A i, k : StartsRecord(i, k)' <=> StartsRecord(i, k)
      BY <2>1, <2>2, <2>3, <3>1 DEF StartsRecord, Naming
    <3>3. \A i, k : InPayload(i, k)' <=> InPayload(i, k)
      BY <2>1, <2>2, <2>3, <3>1 DEF InPayload
    <3> QED
      BY <2>1, <2>2, <3>1, <3>2, <3>3 DEF DimeInv
  <2>6. Arrived(N)' <=> Arrived(N)
    BY <2>1 DEF Arrived, Expected, N, Data
  <2> QED
    BY <2>1, <2>2, <2>3, <2>4, <2>5, <2>6 DEF ReceiveInv
<1> QED
  BY <1>1, SendsReceive, MimeStep, DimeStep, EnvelopeStep DEF Next

\* A session does not change.
LEMMA SessionStays == [Next]_vars => session' = session
BY DEF Next, Sends, ReceivesMime, ReceivesDime, CheckBoundary, Ask, AddCurrentHeader, AddNextChunk, Return,
   ReadFails, FindBoundary, ParseHeaders, ReadHeaders, Accumulate, CompletePart, ReadNext, TellLast, Drain,
   ReadRecord, ReadPayload, EndRecord, GiveEnvelope, vars

\* At first there are the parts of the earlier answer.
LEMMA ReceiveInit == Init => ReceiveInv
<1> SUFFICES ASSUME Init PROVE ReceiveInv
  OBVIOUS
<1>1. /\ session \in Sessions /\ pc \in {"check", "ask"} /\ parts = session.old
      /\ builder = NoPart /\ buff = <<>> /\ first = <<>>
  BY DEF Init
<1>2. N \in Nat \ {0} /\ 0 \in 0..N
  BY <1>1, SessionIs
<1>3. Arrived(0)
  <2>1. PICK o, e : o = session.old /\ e = Expected
    OBVIOUS
  <2>2. o \in Seq(PartType) /\ e \in Seq(PartType)
    BY <1>1, <2>1, SessionIs, ExpectedIs DEF PartType
  <2>3. o \o SubSeq(e, 1, 0) = o
    <3> HIDE DEF PartType
    <3>1. SubSeq(e, 1, 0) = <<>> /\ o \o <<>> = o
      BY <2>2
    <3> QED
      BY <3>1
  <2> QED
    BY <1>1, <2>1, <2>3 DEF Arrived
<1>4. BuilderType
  BY <1>1, NoContent DEF BuilderType
<1> QED
  BY <1>1, <1>2, <1>3, <1>4 DEF ReceiveInv, MimeInv, DimeInv

\* However an answer is cut, its parts are the ones that were sent, in order and with their ids, and
\* the envelope is the first of them, when the disk takes what is written to it (without that, TLC
\* checks what Unpacked says of the parts that stay in memory).
THEOREM AnswerUnpacked == Spec => [](session.disk => Unpacked)
<1> DEFINE Inv == CheckInv /\ SendInv /\ (session.disk => ReceiveInv)
<1>1. Inv /\ [Next]_vars => Inv'
  <2>1. CheckInv /\ SendInv /\ [Next]_vars => session' = session
    BY SessionStays
  <2> QED
    BY <2>1, SendStep, ReceiveStep
<1>2. Inv => (session.disk => Unpacked)
  BY UnpackedHolds DEF CheckInv
<1> QED
  BY <1>1, <1>2, SendInit, ReceiveInit, PTL DEF Spec
=============================================================================
