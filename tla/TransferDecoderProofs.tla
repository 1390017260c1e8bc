----------------------- MODULE TransferDecoderProofs -----------------------
(***************************************************************************)
(* Machine-checked proofs about TransferDecoder: for every response, every *)
(* cut of it into packets, every failure of a read and every size of the   *)
(* reads and of the decoders' buffers.                                     *)
(***************************************************************************)
EXTENDS TransferDecoder, SequenceLemmas

Bytes == {"size", "text", "CR", "LF", "data"} \X Nat

\* The chunks of a response on the wire, and where the i-th begins, there and in the body; the
\* last chunk is the one after them, of no bytes
Frame(r, i) == (SizeLine(r, r.chunks[i]) \o Data(r, i)) \o CRLF
Frames(r) == [i \in DOMAIN r.chunks |-> Frame(r, i)]
Datas(r) == [i \in DOMAIN r.chunks |-> Data(r, i)]
Upto(seqs) == CHOOSE sums \in [0..Len(seqs) -> Seq(Bytes)] : Sums(sums, seqs)
LastChunk(r) == Len(r.chunks) + 1
Start(r, i) == Len(Upto(Frames(r))[i - 1])
Base(r, i) == Len(Upto(Datas(r))[i - 1])
Size(r, i) == IF i = LastChunk(r) THEN 0 ELSE r.chunks[i]
DataAt(r, i) == Start(r, i) + r.ext + 3
TrailersAt(r) == Start(r, LastChunk(r)) + r.ext + 1

\* Where the socket is up to: what waits in the buffer is what the response has at p, and what
\* the server still sends comes after it
Reading(r, b, w, p) ==
  /\ Stands(b, Wire(r), p)
  /\ Stands(w, Wire(r), p + Len(b))
  /\ r.whole => p + Len(b) + Len(w) = Len(Wire(r))
At(p) == Reading(resp, buf, net, p)

TypeInv ==
  /\ resp \in Response
  /\ net \in Seq(Bytes) /\ buf \in Seq(Bytes) /\ part \in Seq(Bytes)
  /\ scratch \in Seq(Bytes) /\ got \in Seq(Bytes)
  /\ conn \in {"held", "broken", "pooled", "closed"}
  /\ state \in {"size", "data", "term", "trailers", "done"}
  /\ at \in {"idle", "data", "size", "term", "trailers", "tidy", "done"}
  /\ left \in Nat /\ cb \in Nat /\ cb \in ReadSizes \cup {0} /\ (at # "idle" => cb \in ReadSizes)
  /\ result \in {"none", "more", "end", "error"}

\* What the application has, and what the call in progress is about to give it
Seen == got \o part

\* What a call keeps between two reads
CallInv ==
  /\ part # <<>> => at \in {"term", "tidy"}
  /\ Len(part) <= cb
  /\ at = "size" => FirstAt(scratch, CRLF) = 0 /\ Len(scratch) < SIZE_BUFF
  /\ at = "term" => Len(scratch) < 2
  /\ at = "trailers" => FirstAt(scratch, Term) = 0 /\ Len(scratch) <= TRAILER_BUFF \div 2
  /\ at \notin {"size", "term", "trailers"} => scratch = <<>>
  /\ resp.kind = "chunked" =>
       /\ at \in {"size", "data", "term", "trailers", "done"} => state = at
       /\ at = "tidy" => state = "trailers"
       /\ state = "data" => left > 0
  /\ resp.kind # "chunked" => at \in {"idle", "data", "tidy"}
  /\ resp.kind = "close" => at # "tidy"

\* The application has a beginning of the body, and of a whole one all of it once the
\* connection is gone, which it is when an end is told
GivenInv ==
  /\ Stands(Seen, Body(resp), 0)
  /\ result = "end" => conn # "held" /\ part = <<>>
  /\ conn # "held" => buf = <<>>
  /\ conn # "held" /\ resp.whole =>
       /\ part = <<>> /\ Len(got) = Len(Body(resp)) /\ net = <<>>
       /\ resp.kind = "length" => left = 0
       /\ resp.kind = "chunked" => state = "done"
  /\ resp.whole => result # "error"

\* While the connection is in use the decoder knows where in the response it is
SizeAt(i, p) ==
  /\ i \in 1..LastChunk(resp)
  /\ part = <<>> /\ Len(got) = Base(resp, i)
  /\ p = Start(resp, i) + Len(scratch)
  /\ Stands(scratch, Wire(resp), Start(resp, i))
DataIn(i, p) ==
  /\ i \in 1..LastChunk(resp) - 1
  /\ left \in 1..Size(resp, i)
  /\ part = <<>> /\ Len(got) = Base(resp, i) + Size(resp, i) - left
  /\ p = DataAt(resp, i) + Size(resp, i) - left
TermAt(i, p) ==
  /\ i \in 1..LastChunk(resp) - 1
  /\ part # <<>> /\ Len(Seen) = Base(resp, i + 1)
  /\ p = DataAt(resp, i) + Size(resp, i) + Len(scratch)
TrailersIn(p) ==
  LET q == p - Len(scratch)
  IN /\ part = <<>> /\ Len(got) = Len(Body(resp))
     /\ q >= TrailersAt(resp)
     /\ q = TrailersAt(resp) \/ Len(scratch) >= 4
     /\ Stands(scratch, Wire(resp), q)
TidyAt(p) ==
  Len(Seen) = Len(Body(resp)) /\ p = Len(Wire(resp))

ChunkedAt(p) ==
  \/ at \in {"idle", "size"} /\ state = "size" /\ \E i \in 1..LastChunk(resp) : SizeAt(i, p)
  \/ at \in {"idle", "data"} /\ state = "data" /\ \E i \in 1..LastChunk(resp) : DataIn(i, p)
  \/ at = "term" /\ \E i \in 1..LastChunk(resp) : TermAt(i, p)
  \/ at = "trailers" /\ TrailersIn(p)
  \/ at = "tidy" /\ TidyAt(p)
LengthAt(p) ==
  /\ p = Len(Seen) /\ left = Len(Wire(resp)) - p
  /\ at = "tidy" => left = 0
CloseAt(p) == p = Len(got)

PlaceInv ==
  conn = "held" =>
    \E p \in 0..Len(Wire(resp)) :
      /\ At(p)
      /\ resp.kind = "chunked" => ChunkedAt(p)
      /\ resp.kind = "length" => LengthAt(p)
      /\ resp.kind = "close" => CloseAt(p)

Inv == TypeInv /\ CallInv /\ GivenInv /\ PlaceInv
-----------------------------------------------------------------------------
(* The pieces of a response *)
\* What a response consists of, as InternalRead and the decoders may rely on it.
LEMMA ResponseParts ==
  ASSUME NEW r \in Response
  PROVE  /\ r.kind \in {"length", "chunked", "close"} /\ r.chunks \in Seq(Nat \ {0})
         /\ r.ext \in Nat /\ r.trailer \in Nat /\ r.close \in BOOLEAN /\ r.whole \in BOOLEAN
         /\ r.ext + 3 <= SIZE_BUFF /\ Len(r.chunks) \in Nat
         /\ r.kind = "close" => r.close
BY DecoderResponses DEF ResponseType

\* A concatenation of bytes, with its parts' lengths as numbers.
LEMMA BytesConcat ==
  ASSUME NEW s \in Seq(Bytes), NEW t \in Seq(Bytes), NEW c, c = s \o t,
         NEW m \in Nat, NEW n \in Nat, Len(s) = m, Len(t) = n
  PROVE  c \in Seq(Bytes) /\ Joins(c, s, m, t, n)
<1>1. s \o t \in Seq(Bytes) /\ Joins(s \o t, s, Len(s), t, Len(t))
  BY ConcatJoins
<1> QED
  BY <1>1, Zenon

\* CRLF, byte by byte.
LEMMA CRLFIs ==
  /\ CRLF \in Seq(Bytes) /\ Len(CRLF) = 2
  /\ CRLF[1] = <<"CR", 0>> /\ CRLF[2] = <<"LF", 0>>
BY DEF CRLF, Byte, Bytes

\* The end of the trailers, byte by byte.
LEMMA TermIs ==
  /\ Term \in Seq(Bytes) /\ Len(Term) = 4
  /\ Term[1] = <<"CR", 0>> /\ Term[2] = <<"LF", 0>> /\ Term[3] = <<"CR", 0>> /\ Term[4] = <<"LF", 0>>
<1>1. 2 \in Nat
  OBVIOUS
<1>2. Term \in Seq(Bytes) /\ Joins(Term, CRLF, 2, CRLF, 2)
  BY <1>1, CRLFIs, BytesConcat, Zenon DEF Term
<1>3. CRLF[1] = <<"CR", 0>> /\ CRLF[2] = <<"LF", 0>>
  BY CRLFIs
<1> QED
  BY <1>2, <1>3 DEF Joins

\* Text of n bytes.
LEMMA FillerIs ==
  ASSUME NEW n \in Nat
  PROVE  Filler(n) \in Seq(Bytes) /\ Len(Filler(n)) = n /\ \A k \in 1..n : Filler(n)[k] = <<"text", 0>>
BY DEF Filler, Byte, Bytes

\* The data of a chunk.
LEMMA DataIs ==
  ASSUME NEW r \in Response, NEW i \in 1..Len(r.chunks)
  PROVE  Data(r, i) \in Seq(Bytes) /\ Len(Data(r, i)) = r.chunks[i]
<1>1. r.chunks[i] \in Nat /\ i \in Nat
  BY ResponseParts
<1>2. \A j \in 1..r.chunks[i] : Byte("data", 10 * i + j) \in Bytes
  BY <1>1 DEF Byte, Bytes
<1> QED
  BY <1>1, <1>2 DEF Data

\* A size line, byte by byte: its CRLF is at its end and nowhere before.
LEMMA SizeLineIs ==
  ASSUME NEW r \in Response, NEW n \in Nat
  PROVE  /\ SizeLine(r, n) \in Seq(Bytes) /\ Len(SizeLine(r, n)) = r.ext + 3
         /\ SizeLine(r, n)[1] = <<"size", n>>
         /\ \A k \in 2..r.ext + 1 : SizeLine(r, n)[k] = <<"text", 0>>
         /\ SizeLine(r, n)[r.ext + 2] = <<"CR", 0>>
         /\ SizeLine(r, n)[r.ext + 3] = <<"LF", 0>>
<1>0. PICK e, f, b, a, w :
        /\ e = r.ext /\ f = Filler(e) /\ b = <<Byte("size", n)>> /\ a = b \o f
        /\ w = a \o CRLF
  OBVIOUS
<1>00. w = SizeLine(r, n) /\ e \in Nat
  BY <1>0, ResponseParts, Zenon DEF SizeLine
<1>1. f \in Seq(Bytes) /\ Len(f) = e /\ \A k \in 1..e : f[k] = <<"text", 0>>
  BY <1>0, <1>00, FillerIs
<1>2. b \in Seq(Bytes) /\ Len(b) = 1 /\ b[1] = <<"size", n>>
  BY <1>0 DEF Byte, Bytes
<1>3. 1 \in Nat /\ 2 \in Nat /\ e + 1 \in Nat
  BY <1>00
<1>4. a \in Seq(Bytes) /\ Joins(a, b, 1, f, e)
  BY <1>0, <1>00, <1>1, <1>2, <1>3, BytesConcat, Zenon
<1>5. /\ Len(a) = e + 1 /\ a[1] = b[1]
      /\ \A k \in 1..e : a[1 + k] = f[k]
  BY <1>00, <1>4 DEF Joins
<1>6. w \in Seq(Bytes) /\ Joins(w, a, e + 1, CRLF, 2)
  BY <1>0, <1>3, <1>4, <1>5, CRLFIs, BytesConcat, ZenonT(60)
<1>7. \A k \in 2..e + 1 : a[k] = <<"text", 0>>
  <2> TAKE k \in 2..e + 1
  <2>1. k - 1 \in 1..e /\ 1 + (k - 1) = k
    BY <1>00
  <2>2. f[k - 1] = <<"text", 0>>
    BY <1>1, <2>1
  <2> QED
    BY <1>5, <2>1, <2>2
<1>8. Len(w) = e + 3 /\ w[e + 2] = CRLF[1] /\ w[e + 3] = CRLF[2]
  <2>1. (e + 1) + 1 = e + 2 /\ (e + 1) + 2 = e + 3
    BY <1>00
  <2> QED
    BY <1>6, <2>1 DEF Joins
<1>9. w[1] = a[1] /\ \A k \in 2..e + 1 : w[k] = a[k]
  BY <1>00, <1>6 DEF Joins
<1>10. b[1] = <<"size", n>> /\ CRLF[1] = <<"CR", 0>> /\ CRLF[2] = <<"LF", 0>>
  BY <1>2, CRLFIs
<1>11. /\ w \in Seq(Bytes) /\ Len(w) = e + 3
       /\ w[1] = <<"size", n>>
       /\ \A k \in 2..e + 1 : w[k] = <<"text", 0>>
       /\ w[e + 2] = <<"CR", 0>> /\ w[e + 3] = <<"LF", 0>>
  BY <1>00, <1>5, <1>6, <1>7, <1>8, <1>9, <1>10
<1> QED
  BY <1>0, <1>00, <1>11, Zenon

\* A chunk with its size line and its CRLF.
LEMMA FrameIs ==
  ASSUME NEW r \in Response, NEW i \in 1..Len(r.chunks)
  PROVE  Frame(r, i) \in Seq(Bytes) /\ Len(Frame(r, i)) = r.ext + 3 + r.chunks[i] + 2
<1>0. r.chunks[i] \in Nat /\ r.ext \in Nat
  BY ResponseParts
<1>1. PICK a, b, c : a = SizeLine(r, r.chunks[i]) /\ b = Data(r, i) /\ c = a \o b
  OBVIOUS
<1>2. Frame(r, i) = c \o CRLF
  BY <1>1, Zenon DEF Frame
<1>3. a \in Seq(Bytes) /\ Len(a) = r.ext + 3 /\ b \in Seq(Bytes) /\ Len(b) = r.chunks[i]
  BY <1>0, <1>1, DataIs, SizeLineIs
<1>4. 2 \in Nat /\ r.ext + 3 \in Nat /\ r.ext + 3 + r.chunks[i] \in Nat
  BY <1>0
<1>5. c \in Seq(Bytes) /\ Joins(c, a, r.ext + 3, b, r.chunks[i])
  BY <1>0, <1>1, <1>3, <1>4, BytesConcat, Zenon
<1>6. Len(c) = r.ext + 3 + r.chunks[i]
  BY <1>5 DEF Joins
<1>7. Frame(r, i) \in Seq(Bytes) /\ Joins(Frame(r, i), c, r.ext + 3 + r.chunks[i], CRLF, 2)
  BY <1>2, <1>4, <1>5, <1>6, CRLFIs, BytesConcat, Zenon
<1> QED
  BY <1>7 DEF Joins

\* The sums of sequences of bytes.
LEMMA UptoIs ==
  ASSUME NEW seqs \in Seq(Seq(Bytes))
  PROVE  Upto(seqs) \in [0..Len(seqs) -> Seq(Bytes)] /\ Sums(Upto(seqs), seqs)
BY FlattenSums DEF Upto

\* What FlattenSeq returns, sum by sum.
LEMMA FlatIs ==
  ASSUME NEW seqs \in Seq(Seq(Bytes)), NEW n \in Nat, Len(seqs) = n
  PROVE  /\ FlattenSeq(seqs) \in Seq(Bytes)
         /\ \A i \in 0..n : Upto(seqs)[i] \in Seq(Bytes) /\ Len(Upto(seqs)[i]) \in Nat
         /\ Len(Upto(seqs)[0]) = 0 /\ Len(Upto(seqs)[n]) = Len(FlattenSeq(seqs))
         /\ \A i \in 1..n : /\ Stands(seqs[i], FlattenSeq(seqs), Len(Upto(seqs)[i - 1]))
                            /\ Len(Upto(seqs)[i]) = Len(Upto(seqs)[i - 1]) + Len(seqs[i])
<1>1. Upto(seqs) \in [0..Len(seqs) -> Seq(Bytes)] /\ Sums(Upto(seqs), seqs)
  BY UptoIs
<1>2. PICK sums : sums = Upto(seqs)
  OBVIOUS
<1>3. sums \in [0..Len(seqs) -> Seq(Bytes)] /\ Sums(sums, seqs)
  BY <1>1, <1>2
<1>4. \A i \in 0..Len(seqs) :
        /\ FlattenSeq(seqs) \in Seq(Bytes)
        /\ i > 0 => /\ Stands(seqs[i], FlattenSeq(seqs), Len(sums[i - 1]))
                    /\ Len(sums[i]) = Len(sums[i - 1]) + Len(seqs[i])
  BY <1>3, SumsStand
<1>5. sums[0] = <<>> /\ FlattenSeq(seqs) = sums[Len(seqs)]
  BY <1>3 DEF Sums
<1>6. \A i \in 0..Len(seqs) : sums[i] \in Seq(Bytes)
  BY <1>3
<1>7. FlattenSeq(seqs) \in Seq(Bytes)
  <2>1. 0 \in 0..n
    OBVIOUS
  <2> QED
    BY <1>4, <2>1, Zenon
<1>8. \A i \in 0..n : sums[i] \in Seq(Bytes) /\ Len(sums[i]) \in Nat
  <2>1. \A x \in Seq(Bytes) : Len(x) \in Nat
    OBVIOUS
  <2> QED
    BY <1>6, <2>1, Zenon
<1>9. Len(sums[0]) = 0 /\ Len(sums[n]) = Len(FlattenSeq(seqs))
  <2>1. Len(<<>>) = 0
    OBVIOUS
  <2> QED
    BY <1>5, <2>1, Zenon
<1>10. \A i \in 1..n : /\ Stands(seqs[i], FlattenSeq(seqs), Len(sums[i - 1]))
                       /\ Len(sums[i]) = Len(sums[i - 1]) + Len(seqs[i])
  <2>1. \A i \in 1..n : i \in 0..n /\ i > 0
    OBVIOUS
  <2> QED
    BY <1>4, <2>1, Zenon
<1> QED
  BY <1>2, <1>7, <1>8, <1>9, <1>10, Zenon

\* What stands in a part of a sequence stands in the sequence.
LEMMA StandsIn ==
  ASSUME NEW S, NEW s \in Seq(S), NEW t \in Seq(S), NEW w \in Seq(S), NEW p, NEW q,
         Stands(s, t, p), Stands(t, w, q)
  PROVE  Stands(s, w, q + p)
<1>1. /\ p \in Nat /\ q \in Nat /\ Len(s) \in Nat /\ Len(t) \in Nat /\ Len(w) \in Nat
      /\ p + Len(s) <= Len(t) /\ q + Len(t) <= Len(w)
  BY DEF Stands
<1>2. ASSUME NEW k \in 1..Len(s) PROVE s[k] = w[(q + p) + k]
  <2>1. s[k] = t[p + k] /\ p + k \in 1..Len(t)
    BY <1>1 DEF Stands
  <2>2. t[p + k] = w[q + (p + k)] /\ q + (p + k) = (q + p) + k
    BY <1>1, <2>1 DEF Stands
  <2> QED
    BY <2>1, <2>2
<1> QED
  BY <1>1, <1>2 DEF Stands

\* StandsIn for bytes.
LEMMA BytesIn ==
  ASSUME NEW s \in Seq(Bytes), NEW t \in Seq(Bytes), NEW w \in Seq(Bytes), NEW p, NEW q,
         Stands(s, t, p), Stands(t, w, q)
  PROVE  Stands(s, w, q + p)
BY StandsIn

\* Where the chunks of a response begin, on the wire and in the body.
ChunkPlaces(r, i) ==
  /\ Start(r, i) \in Nat /\ Base(r, i) \in Nat /\ Size(r, i) \in Nat
  /\ Stands(SizeLine(r, Size(r, i)), Wire(r), Start(r, i))
  /\ i # LastChunk(r) =>
       /\ Size(r, i) = r.chunks[i] /\ Size(r, i) > 0
       /\ Stands(Data(r, i), Wire(r), DataAt(r, i))
       /\ Stands(Data(r, i), Body(r), Base(r, i))
       /\ Start(r, i + 1) = Start(r, i) + r.ext + 3 + Size(r, i) + 2
       /\ Base(r, i + 1) = Base(r, i) + Size(r, i)

\* The body is the data of the chunks, one after the other.
LEMMA BodyIs ==
  ASSUME NEW r \in Response
  PROVE  /\ Body(r) \in Seq(Bytes)
         /\ Base(r, 1) = 0 /\ Base(r, LastChunk(r)) = Len(Body(r))
         /\ \A i \in 1..LastChunk(r) : Base(r, i) \in Nat
         /\ \A i \in 1..Len(r.chunks) : /\ Stands(Data(r, i), Body(r), Base(r, i))
                                        /\ Base(r, i + 1) = Base(r, i) + r.chunks[i]
<1>1. PICK n, c, ds : n = Len(r.chunks) /\ c = r.chunks /\ ds = Datas(r)
  OBVIOUS
<1>2. n \in Nat /\ \A i \in 1..n : c[i] \in Nat /\ Data(r, i) \in Seq(Bytes) /\ Len(Data(r, i)) = c[i]
  BY <1>1, DataIs, ResponseParts
<1>3. ds = [i \in 1..n |-> Data(r, i)] /\ Body(r) = FlattenSeq(ds)
  BY <1>1, ResponseParts DEF Datas, Body
<1>4. ds \in Seq(Seq(Bytes)) /\ Len(ds) = n
  BY <1>2, <1>3
<1>5. PICK sums : sums = Upto(ds)
  OBVIOUS
<1>6. /\ FlattenSeq(ds) \in Seq(Bytes)
      /\ \A i \in 0..n : Len(sums[i]) \in Nat
      /\ Len(sums[0]) = 0 /\ Len(sums[n]) = Len(FlattenSeq(ds))
      /\ \A i \in 1..n : /\ Stands(ds[i], FlattenSeq(ds), Len(sums[i - 1]))
                         /\ Len(sums[i]) = Len(sums[i - 1]) + Len(ds[i])
  BY <1>2, <1>4, <1>5, FlatIs, Zenon
<1>7. \A i : Base(r, i) = Len(sums[i - 1])
  BY <1>1, <1>5, Zenon DEF Base
<1>8. 1 - 1 = 0 /\ (n + 1) - 1 = n /\ \A i \in 1..n + 1 : i - 1 \in 0..n
  BY <1>2
<1>9. Base(r, 1) = 0 /\ Base(r, n + 1) = Len(Body(r)) /\ \A i \in 1..n + 1 : Base(r, i) \in Nat
  BY <1>3, <1>6, <1>7, <1>8, Zenon
<1>10. ASSUME NEW i \in 1..n
       PROVE  Stands(Data(r, i), Body(r), Base(r, i)) /\ Base(r, i + 1) = Base(r, i) + c[i]
  <2>1. ds[i] = Data(r, i) /\ Len(ds[i]) = c[i]
    BY <1>2, <1>3
  <2>2. (i + 1) - 1 = i
    BY <1>2
  <2> QED
    BY <1>3, <1>6, <1>7, <2>1, <2>2, Zenon
<1> QED
  BY <1>1, <1>3, <1>6, <1>9, <1>10, Zenon DEF LastChunk

\* The chunks, each with its size and its CRLF.
Chunks(r) == FlattenSeq(Frames(r))

\* Where each chunk begins, chunk by chunk.
LEMMA ChunksIs ==
  ASSUME NEW r \in Response
  PROVE  /\ Chunks(r) \in Seq(Bytes)
         /\ Start(r, 1) = 0 /\ Start(r, LastChunk(r)) = Len(Chunks(r))
         /\ \A i \in 1..LastChunk(r) : Start(r, i) \in Nat
         /\ \A i \in 1..Len(r.chunks) :
              /\ Stands(Frame(r, i), Chunks(r), Start(r, i))
              /\ Start(r, i + 1) = Start(r, i) + (r.ext + 3 + r.chunks[i] + 2)
<1>1. PICK n, c, fs : n = Len(r.chunks) /\ c = r.chunks /\ fs = Frames(r)
  OBVIOUS
<1>2. n \in Nat /\ \A i \in 1..n : /\ c[i] \in Nat /\ Frame(r, i) \in Seq(Bytes)
                                   /\ Len(Frame(r, i)) = r.ext + 3 + c[i] + 2
  BY <1>1, FrameIs, ResponseParts
<1>3. fs = [i \in 1..n |-> Frame(r, i)] /\ Chunks(r) = FlattenSeq(fs)
  BY <1>1, ResponseParts DEF Frames, Chunks
<1>4. fs \in Seq(Seq(Bytes)) /\ Len(fs) = n
  BY <1>2, <1>3
<1>5. PICK sums : sums = Upto(fs)
  OBVIOUS
<1>6. /\ FlattenSeq(fs) \in Seq(Bytes)
      /\ \A i \in 0..n : Len(sums[i]) \in Nat
      /\ Len(sums[0]) = 0 /\ Len(sums[n]) = Len(FlattenSeq(fs))
      /\ \A i \in 1..n : /\ Stands(fs[i], FlattenSeq(fs), Len(sums[i - 1]))
                         /\ Len(sums[i]) = Len(sums[i - 1]) + Len(fs[i])
  BY <1>2, <1>4, <1>5, FlatIs, Zenon
<1>7. \A i : Start(r, i) = Len(sums[i - 1])
  BY <1>1, <1>5, Zenon DEF Start
<1>8. 1 - 1 = 0 /\ (n + 1) - 1 = n /\ \A i \in 1..n + 1 : i - 1 \in 0..n
  BY <1>2
<1>9. Start(r, 1) = 0 /\ Start(r, n + 1) = Len(Chunks(r)) /\ \A i \in 1..n + 1 : Start(r, i) \in Nat
  BY <1>3, <1>6, <1>7, <1>8, Zenon
<1>10. ASSUME NEW i \in 1..n
       PROVE  /\ Stands(Frame(r, i), Chunks(r), Start(r, i))
              /\ Start(r, i + 1) = Start(r, i) + (r.ext + 3 + c[i] + 2)
  <2>1. fs[i] = Frame(r, i) /\ Len(fs[i]) = r.ext + 3 + c[i] + 2
    BY <1>2, <1>3
  <2>2. (i + 1) - 1 = i
    BY <1>2
  <2> QED
    BY <1>3, <1>6, <1>7, <2>1, <2>2, Zenon
<1> QED
  BY <1>1, <1>3, <1>6, <1>9, <1>10, Zenon DEF LastChunk

\* What is appended to w leaves what stands in it where it is, and stands at its end.
LEMMA Appended ==
  ASSUME NEW w \in Seq(Bytes), NEW t \in Seq(Bytes), NEW m \in Nat, NEW n \in Nat,
         Len(w) = m, Len(t) = n
  PROVE  /\ w \o t \in Seq(Bytes) /\ Joins(w \o t, w, m, t, n)
         /\ Stands(w, w \o t, 0) /\ Stands(t, w \o t, m)
<1>1. PICK c : c = w \o t
  OBVIOUS
<1>2. c \in Seq(Bytes) /\ Joins(c, w, m, t, n)
  BY <1>1, BytesConcat, Zenon
<1>3. Stands(w, c, 0) /\ Stands(t, c, m)
  BY <1>2 DEF Joins, Stands
<1> QED
  BY <1>1, <1>2, <1>3, Zenon

\* The trailers, and the CRLF that ends the response.
Trailers(r) == IF r.trailer = 0 THEN <<>> ELSE Filler(r.trailer) \o CRLF
TrailersLen(r) == IF r.trailer = 0 THEN 0 ELSE r.trailer + 2

\* The trailers, byte by byte.
LEMMA TrailersIs ==
  ASSUME NEW r \in Response
  PROVE  /\ Trailers(r) \in Seq(Bytes) /\ Len(Trailers(r)) = TrailersLen(r) /\ TrailersLen(r) \in Nat
         /\ r.trailer > 0 => /\ \A k \in 1..r.trailer : Trailers(r)[k] = <<"text", 0>>
                             /\ Trailers(r)[r.trailer + 1] = <<"CR", 0>>
                             /\ Trailers(r)[r.trailer + 2] = <<"LF", 0>>
<1>1. r.trailer \in Nat
  BY ResponseParts
<1>2. CASE r.trailer = 0
  <2>1. Trailers(r) = <<>>
    BY <1>2 DEF Trailers
  <2>2. <<>> \in Seq(Bytes) /\ Len(<<>>) = 0 /\ 0 \in Nat /\ TrailersLen(r) = 0
    BY <1>2 DEF TrailersLen
  <2>3. Trailers(r) \in Seq(Bytes) /\ Len(Trailers(r)) = TrailersLen(r) /\ TrailersLen(r) \in Nat
    BY <2>1, <2>2, Zenon
  <2> QED
    BY <1>2, <2>3
<1>3. CASE r.trailer # 0
  <2>1. PICK t, f, n : n = r.trailer /\ f = Filler(n) /\ t = f \o CRLF
    OBVIOUS
  <2>2. Trailers(r) = t /\ n \in Nat /\ 2 \in Nat
    BY <1>1, <1>3, <2>1 DEF Trailers
  <2>3. f \in Seq(Bytes) /\ Len(f) = n /\ \A k \in 1..n : f[k] = <<"text", 0>>
    BY <2>1, <2>2, FillerIs, Zenon
  <2>4. t \in Seq(Bytes) /\ Joins(t, f, n, CRLF, 2)
    BY <2>1, <2>2, <2>3, CRLFIs, BytesConcat, Zenon
  <2>5. CRLF[1] = <<"CR", 0>> /\ CRLF[2] = <<"LF", 0>>
    BY CRLFIs
  <2>6. /\ Len(t) = n + 2
        /\ \A k \in 1..n : t[k] = <<"text", 0>>
        /\ t[n + 1] = <<"CR", 0>> /\ t[n + 2] = <<"LF", 0>>
    BY <2>2, <2>3, <2>4, <2>5 DEF Joins
  <2>7. TrailersLen(r) = n + 2 /\ n + 2 \in Nat
    BY <1>3, <2>1, <2>2 DEF TrailersLen
  <2>8. Trailers(r) \in Seq(Bytes) /\ Len(Trailers(r)) = TrailersLen(r) /\ TrailersLen(r) \in Nat
    BY <2>2, <2>4, <2>6, <2>7, Zenon
  <2>9. /\ \A k \in 1..n : Trailers(r)[k] = <<"text", 0>>
        /\ Trailers(r)[n + 1] = <<"CR", 0>> /\ Trailers(r)[n + 2] = <<"LF", 0>>
    BY <2>2, <2>6, Zenon
  <2>10. /\ \A k \in 1..r.trailer : Trailers(r)[k] = <<"text", 0>>
         /\ Trailers(r)[r.trailer + 1] = <<"CR", 0>> /\ Trailers(r)[r.trailer + 2] = <<"LF", 0>>
    BY <2>1, <2>9
  <2> QED
    BY <2>8, <2>10, Zenon
<1> QED
  BY <1>2, <1>3

\* A chunked response on the wire: its chunks, the size line of the last one, the trailers and
\* the CRLF that ends it.
LEMMA WireParts ==
  ASSUME NEW r \in Response, r.kind = "chunked"
  PROVE  /\ Wire(r) \in Seq(Bytes)
         /\ \E e, h, n \in Nat :
              /\ e = Len(Chunks(r)) /\ h = r.ext + 3 /\ n = TrailersLen(r)
              /\ Len(Wire(r)) = e + h + n + 2
              /\ Stands(Chunks(r), Wire(r), 0)
              /\ Stands(SizeLine(r, 0), Wire(r), e)
              /\ Stands(Trailers(r), Wire(r), e + h)
              /\ Stands(CRLF, Wire(r), e + h + n)
<1>1. PICK e, h, n, f, z, t, w1, w2 :
        /\ e = Len(Chunks(r)) /\ h = r.ext + 3 /\ n = TrailersLen(r)
        /\ f = Chunks(r) /\ z = SizeLine(r, 0) /\ t = Trailers(r)
        /\ w1 = f \o z /\ w2 = w1 \o t
  OBVIOUS
<1>2. Wire(r) = w2 \o CRLF
  BY <1>1, Zenon DEF Wire, Chunks, Frames, Frame, Trailers
<1>3. /\ f \in Seq(Bytes) /\ Len(f) = e /\ e \in Nat
      /\ z \in Seq(Bytes) /\ Len(z) = h /\ h \in Nat
      /\ t \in Seq(Bytes) /\ Len(t) = n /\ n \in Nat
  <2>1. f \in Seq(Bytes) /\ Len(f) = e /\ e \in Nat
    BY <1>1, ChunksIs
  <2>2. 0 \in Nat /\ r.ext + 3 \in Nat
    BY ResponseParts
  <2>3. z \in Seq(Bytes) /\ Len(z) = h /\ h \in Nat
    BY <1>1, <2>2, SizeLineIs, Zenon
  <2>4. t \in Seq(Bytes) /\ Len(t) = n /\ n \in Nat
    BY <1>1, TrailersIs, Zenon
  <2> QED
    BY <2>1, <2>3, <2>4
<1>4. e + h \in Nat /\ e + h + n \in Nat /\ 2 \in Nat
  BY <1>3
<1>5. w1 \in Seq(Bytes) /\ Stands(f, w1, 0) /\ Stands(z, w1, e) /\ Len(w1) = e + h
  <2>1. w1 \in Seq(Bytes) /\ Joins(w1, f, e, z, h) /\ Stands(f, w1, 0) /\ Stands(z, w1, e)
    BY <1>1, <1>3, Appended, Zenon
  <2> QED
    BY <2>1, Zenon DEF Joins
<1>6. w2 \in Seq(Bytes) /\ Stands(w1, w2, 0) /\ Stands(t, w2, e + h) /\ Len(w2) = e + h + n
  <2>1. w2 \in Seq(Bytes) /\ Joins(w2, w1, e + h, t, n) /\ Stands(w1, w2, 0) /\ Stands(t, w2, e + h)
    BY <1>1, <1>3, <1>4, <1>5, Appended, Zenon
  <2> QED
    BY <2>1, Zenon DEF Joins
<1>7. PICK w : w = Wire(r)
  OBVIOUS
<1>8. w \in Seq(Bytes) /\ Stands(w2, w, 0) /\ Stands(CRLF, w, e + h + n) /\ Len(w) = e + h + n + 2
  <2>1. /\ w \in Seq(Bytes) /\ Joins(w, w2, e + h + n, CRLF, 2)
        /\ Stands(w2, w, 0) /\ Stands(CRLF, w, e + h + n)
    <3>1. CRLF \in Seq(Bytes) /\ Len(CRLF) = 2
      BY CRLFIs
    <3>2. /\ w2 \o CRLF \in Seq(Bytes) /\ Joins(w2 \o CRLF, w2, e + h + n, CRLF, 2)
          /\ Stands(w2, w2 \o CRLF, 0) /\ Stands(CRLF, w2 \o CRLF, e + h + n)
      BY <1>4, <1>6, <3>1, Appended, Zenon
    <3> QED
      BY <1>2, <1>7, <3>2, Zenon
  <2> QED
    BY <2>1, Zenon DEF Joins
<1>9. 0 + 0 = 0 /\ 0 + e = e /\ 0 + (e + h) = e + h
  BY <1>3
<1>10. Stands(w1, w, 0)
  BY <1>5, <1>6, <1>8, <1>9, BytesIn, Zenon
<1>11. Stands(f, w, 0) /\ Stands(z, w, e)
  <2>1. Stands(f, w, 0 + 0) /\ Stands(z, w, 0 + e)
    BY <1>3, <1>5, <1>8, <1>10, BytesIn, Zenon
  <2> QED
    BY <1>9, <2>1
<1>12. Stands(t, w, e + h)
  BY <1>3, <1>6, <1>8, <1>9, StandsIn
<1> QED
  BY <1>1, <1>3, <1>7, <1>8, <1>11, <1>12, Zenon

\* Where the chunks are.
LEMMA Places ==
  ASSUME NEW r \in Response, r.kind = "chunked"
  PROVE  /\ Wire(r) \in Seq(Bytes) /\ Start(r, 1) = 0
         /\ \A i \in 1..LastChunk(r) : ChunkPlaces(r, i)
<1>1. /\ Wire(r) \in Seq(Bytes) /\ Chunks(r) \in Seq(Bytes)
      /\ Stands(Chunks(r), Wire(r), 0) /\ Stands(SizeLine(r, 0), Wire(r), Len(Chunks(r)))
  <2>1. Chunks(r) \in Seq(Bytes) /\ Wire(r) \in Seq(Bytes)
    BY ChunksIs, WireParts
  <2>2. Stands(Chunks(r), Wire(r), 0) /\ Stands(SizeLine(r, 0), Wire(r), Len(Chunks(r)))
    BY WireParts, Zenon
  <2> QED
    BY <2>1, <2>2
<1>2. Start(r, 1) = 0
  BY ChunksIs
<1>3. ASSUME NEW i \in 1..LastChunk(r) PROVE ChunkPlaces(r, i)
  <2>1. Start(r, i) \in Nat /\ Base(r, i) \in Nat
    BY BodyIs, ChunksIs, Zenon
  <2>2. CASE i = LastChunk(r)
    <3>1. Size(r, i) = 0 /\ 0 \in Nat
      BY <2>2 DEF Size
    <3>2. Start(r, i) = Len(Chunks(r))
      BY <2>2, ChunksIs
    <3> QED
      BY <1>1, <2>1, <2>2, <3>1, <3>2, Zenon DEF ChunkPlaces
  <2>3. CASE i # LastChunk(r)
    <3>1. i \in 1..Len(r.chunks)
      BY <2>3, ResponseParts DEF LastChunk
    <3>2. PICK c, e, z, d, f, zd, w :
            /\ c = r.chunks[i] /\ e = r.ext + 3 /\ z = SizeLine(r, c) /\ d = Data(r, i) /\ zd = z \o d
            /\ f = Frame(r, i) /\ w = Wire(r)
      OBVIOUS
    <3>3. f = zd \o CRLF /\ Size(r, i) = c
      BY <2>3, <3>2, Zenon DEF Frame, Size
    <3>4. c \in Nat /\ c > 0 /\ e \in Nat /\ e + c \in Nat /\ Start(r, i) \in Nat /\ r.ext \in Nat
      <4>1. r.ext \in Nat /\ r.chunks \in Seq(Nat \ {0})
        BY ResponseParts
      <4>2. r.chunks[i] \in Nat \ {0}
        BY <3>1, <4>1
      <4>3. c \in Nat /\ c > 0
        <5>1. c = r.chunks[i]
          BY <3>2
        <5> QED
          BY <4>2, <5>1
      <4>4. e \in Nat
        <5>1. e = r.ext + 3
          BY <3>2
        <5> QED
          BY <4>1, <5>1
      <4> QED
        BY <2>1, <4>1, <4>3, <4>4
    <3>5. z \in Seq(Bytes) /\ Len(z) = e /\ d \in Seq(Bytes) /\ Len(d) = c
      BY <3>1, <3>2, <3>4, DataIs, SizeLineIs, Zenon
    <3>6. zd \in Seq(Bytes) /\ Stands(z, zd, 0) /\ Stands(d, zd, e) /\ Len(zd) = e + c
      <4>1. zd \in Seq(Bytes) /\ Joins(zd, z, e, d, c) /\ Stands(z, zd, 0) /\ Stands(d, zd, e)
        BY <3>2, <3>4, <3>5, Appended, Zenon
      <4> QED
        BY <4>1, Zenon DEF Joins
    <3>7. f \in Seq(Bytes) /\ Stands(zd, f, 0)
      <4>1. CRLF \in Seq(Bytes) /\ Len(CRLF) = 2 /\ 2 \in Nat
        BY CRLFIs
      <4> QED
        BY <3>3, <3>4, <3>6, <4>1, Appended, Zenon
    <3>8. Stands(f, w, Start(r, i)) /\ w \in Seq(Bytes)
      <4>1. Stands(f, Chunks(r), Start(r, i))
        BY <3>1, <3>2, ChunksIs
      <4>2. Start(r, i) = 0 + Start(r, i)
        BY <3>4
      <4> QED
        BY <1>1, <3>2, <3>7, <4>1, <4>2, BytesIn, Zenon
    <3>9. Stands(zd, w, Start(r, i))
      <4>1. Start(r, i) = Start(r, i) + 0
        BY <3>4
      <4> QED
        BY <3>6, <3>7, <3>8, <4>1, BytesIn, Zenon
    <3>10. Stands(z, w, Start(r, i)) /\ Stands(d, w, DataAt(r, i))
      <4>1. Start(r, i) = Start(r, i) + 0 /\ DataAt(r, i) = Start(r, i) + e
        BY <3>2, <3>4, SMTT(30) DEF DataAt
      <4>2. Stands(z, w, Start(r, i) + 0) /\ Stands(d, w, Start(r, i) + e)
        BY <3>5, <3>6, <3>8, <3>9, BytesIn, Zenon
      <4> QED
        BY <4>1, <4>2
    <3>11. /\ Stands(d, Body(r), Base(r, i)) /\ Base(r, i + 1) = Base(r, i) + c
           /\ Start(r, i + 1) = Start(r, i) + (r.ext + 3 + c + 2)
      BY <3>1, <3>2, BodyIs, ChunksIs, Zenon
    <3>12. Start(r, i + 1) = Start(r, i) + r.ext + 3 + c + 2
      <4>1. r.ext \in Nat
        BY ResponseParts
      <4> QED
        BY <3>4, <3>11, <4>1
    <3> QED
      BY <2>1, <2>3, <3>2, <3>3, <3>4, <3>10, <3>11, <3>12, Zenon DEF ChunkPlaces
  <2> QED
    BY <2>2, <2>3
<1> QED
  BY <1>1, <1>2, <1>3

\* The end of the last chunk's size line, and of the response, byte by byte; the end of the
\* trailers is at its end and nowhere before.
LEMMA TheEnd ==
  ASSUME NEW r \in Response, r.kind = "chunked"
  PROVE  /\ TrailersAt(r) \in Nat /\ TrailersAt(r) + 4 <= Len(Wire(r))
         /\ TrailersAt(r) = Start(r, LastChunk(r)) + r.ext + 1
         /\ Stands(Term, Wire(r), Len(Wire(r)) - 4)
         /\ \A q \in Nat : q >= TrailersAt(r) /\ Stands(Term, Wire(r), q) => q + 4 = Len(Wire(r))
<1>0. Wire(r) \in Seq(Bytes)
  BY WireParts
<1>00. PICK e, h, n \in Nat :
        /\ e = Len(Chunks(r)) /\ h = r.ext + 3 /\ n = TrailersLen(r)
        /\ Len(Wire(r)) = e + h + n + 2
        /\ Stands(Chunks(r), Wire(r), 0)
        /\ Stands(SizeLine(r, 0), Wire(r), e)
        /\ Stands(Trailers(r), Wire(r), e + h)
        /\ Stands(CRLF, Wire(r), e + h + n)
  BY WireParts, Zenon
<1>1. PICK x, w, t, z :
        x = r.trailer /\ w = Wire(r) /\ t = Trailers(r) /\ z = SizeLine(r, 0)
  OBVIOUS
<1>2. /\ e \in Nat /\ h \in Nat /\ n \in Nat
      /\ w \in Seq(Bytes) /\ Len(w) = e + h + n + 2
      /\ Stands(z, w, e) /\ Stands(t, w, e + h)
      /\ Stands(CRLF, w, e + h + n)
  BY <1>0, <1>00, <1>1, Zenon
<1>3. h >= 3 /\ x \in Nat /\ n = IF x = 0 THEN 0 ELSE x + 2
  <2>1. r.ext \in Nat /\ r.trailer \in Nat
    BY ResponseParts
  <2>2. h >= 3
    BY <1>00, <2>1
  <2>3. x \in Nat /\ n = IF x = 0 THEN 0 ELSE x + 2
    BY <1>00, <1>1, <2>1, Zenon DEF TrailersLen
  <2> QED
    BY <2>2, <2>3
<1>4. Len(z) = h /\ z[h - 1] = <<"CR", 0>> /\ z[h] = <<"LF", 0>>
  <2>1. /\ Len(SizeLine(r, 0)) = r.ext + 3 /\ SizeLine(r, 0)[r.ext + 2] = <<"CR", 0>>
        /\ SizeLine(r, 0)[r.ext + 3] = <<"LF", 0>>
    <3>1. 0 \in Nat
      OBVIOUS
    <3> QED
      BY <3>1, SizeLineIs, Zenon
  <2>2. r.ext + 2 = h - 1
    <3>1. r.ext \in Nat
      BY ResponseParts
    <3> QED
      BY <1>00, <3>1
  <2> QED
    BY <1>00, <1>1, <2>1, <2>2, Zenon
<1>5. w[e + h - 1] = <<"CR", 0>> /\ w[e + h] = <<"LF", 0>>
  <2>1. h - 1 \in 1..Len(z) /\ h \in 1..Len(z)
    BY <1>2, <1>3, <1>4
  <2>2. z[h - 1] = w[e + (h - 1)] /\ z[h] = w[e + h]
    BY <1>2, <2>1, Zenon DEF Stands
  <2>3. e + (h - 1) = e + h - 1
    BY <1>2
  <2> QED
    BY <1>4, <2>2, <2>3, Zenon
<1>6. w[e + h + n + 1] = <<"CR", 0>> /\ w[e + h + n + 2] = <<"LF", 0>>
  <2>1. CRLF[1] = <<"CR", 0>> /\ CRLF[2] = <<"LF", 0>> /\ 1 \in 1..Len(CRLF) /\ 2 \in 1..Len(CRLF)
    BY CRLFIs
  <2> QED
    BY <1>2, <2>1, Zenon DEF Stands
<1>7. x > 0 => /\ \A k \in 1..x : w[e + h + k] = <<"text", 0>>
               /\ w[e + h + (x + 1)] = <<"CR", 0>> /\ w[e + h + (x + 2)] = <<"LF", 0>>
  <2> SUFFICES ASSUME x > 0
               PROVE  /\ \A k \in 1..x : w[e + h + k] = <<"text", 0>>
                      /\ w[e + h + (x + 1)] = <<"CR", 0>> /\ w[e + h + (x + 2)] = <<"LF", 0>>
    OBVIOUS
  <2>1. /\ \A k \in 1..x : t[k] = <<"text", 0>>
        /\ t[x + 1] = <<"CR", 0>> /\ t[x + 2] = <<"LF", 0>>
    <3>1. r.trailer > 0
      BY <1>1
    <3> QED
      BY <1>1, <3>1, TrailersIs, Zenon
  <2>3. n = x + 2 /\ Len(t) = n
    <3>1. n = x + 2
      BY <1>3
    <3>2. Len(t) = n
      BY <1>00, <1>1, TrailersIs, Zenon
    <3> QED
      BY <3>1, <3>2, Zenon
  <2>2. /\ \A k \in 1..x : k \in 1..Len(t)
        /\ x + 1 \in 1..Len(t) /\ x + 2 \in 1..Len(t)
    <3>1. \A k \in 1..x : k \in 1..n
      BY <1>3, <2>3
    <3>2. x + 1 \in 1..n /\ x + 2 \in 1..n
      BY <1>3, <2>3
    <3> QED
      BY <2>3, <3>1, <3>2, Zenon
  <2> QED
    BY <1>2, <2>1, <2>2, Zenon DEF Stands
<1>8. TrailersAt(r) = e + h - 2 /\ TrailersAt(r) = Start(r, LastChunk(r)) + r.ext + 1
  <2>1. r.ext \in Nat /\ Start(r, LastChunk(r)) = e
    BY <1>00, ChunksIs, ResponseParts, Zenon
  <2>2. h = r.ext + 3
    BY <1>00
  <2>3. TrailersAt(r) = Start(r, LastChunk(r)) + r.ext + 1
    BY DEF TrailersAt
  <2>4. e + r.ext + 1 = e + h - 2
    <3>1. e \in Nat /\ h \in Nat
      BY <1>2
    <3>2. r.ext = h - 3
      BY <2>1, <2>2
    <3> QED
      BY <3>1, <3>2
  <2> QED
    BY <2>1, <2>3, <2>4, Zenon
<1>9. Term[1] = <<"CR", 0>> /\ Term[2] = <<"LF", 0>> /\ Term[3] = <<"CR", 0>> /\ Term[4] = <<"LF", 0>>
  BY TermIs
<1>10. Len(Term) = 4
  BY TermIs
<1>11. <<"CR", 0>> # <<"LF", 0>> /\ <<"CR", 0>> # <<"text", 0>>
  OBVIOUS
<1>12. PICK cr, lf, text : cr = <<"CR", 0>> /\ lf = <<"LF", 0>> /\ text = <<"text", 0>>
  OBVIOUS
<1>13. Stands(Term, w, Len(w) - 4)
  <2>1. PICK q : q = Len(w) - 4 /\ q \in Nat /\ q = e + h + n - 2
    BY <1>2, <1>3
  <2>2. w[q + 1] = cr /\ w[q + 2] = lf
    <3>1. CASE x = 0
      <4>1. q + 1 = e + h - 1 /\ q + 2 = e + h
        BY <1>2, <1>3, <2>1, <3>1
      <4> QED
        BY <1>5, <1>12, <4>1, Zenon
    <3>2. CASE x # 0
      <4>1. q + 1 = e + h + (x + 1) /\ q + 2 = e + h + (x + 2) /\ x > 0
        BY <1>2, <1>3, <2>1, <3>2
      <4> QED
        BY <1>7, <1>12, <4>1, Zenon
    <3> QED
      BY <3>1, <3>2
  <2>3. w[q + 3] = cr /\ w[q + 4] = lf
    BY <1>2, <1>6, <1>12, <2>1
  <2>4. q + 4 <= Len(w) /\ \A k \in 1..4 : k = 1 \/ k = 2 \/ k = 3 \/ k = 4
    BY <1>2, <2>1
  <2>5. \A k \in 1..4 : Term[k] = w[q + k]
    BY <1>9, <1>12, <2>2, <2>3, <2>4
  <2>6. Stands(Term, w, q)
    BY <1>10, <2>1, <2>4, <2>5, Zenon DEF Stands
  <2> QED
    BY <2>1, <2>6, Zenon
<1>14. ASSUME NEW q \in Nat, q >= e + h - 2, Stands(Term, w, q) PROVE q + 4 = Len(w)
  <2>1. q + 4 <= Len(w) /\ w[q + 1] = cr /\ w[q + 3] = cr
    <3>1. 1 \in 1..4 /\ 3 \in 1..4
      OBVIOUS
    <3> QED
      BY <1>9, <1>10, <1>12, <1>14, <3>1, Zenon DEF Stands
  <2>2. cr # lf /\ cr # text
    BY <1>11, <1>12
  <2>3. CASE x = 0
    BY <1>2, <1>3, <1>14, <2>1, <2>3
  <2>4. CASE x # 0
    <3>1. /\ w[e + h] = lf /\ \A k \in 1..x : w[e + h + k] = text
          /\ w[e + h + (x + 2)] = lf
      BY <1>3, <1>5, <1>7, <1>12, <2>4
    <3>2. q + 3 # e + h + 1
      <4>1. 1 \in 1..x
        BY <1>3, <2>4
      <4> QED
        BY <2>1, <2>2, <3>1, <4>1
    <3>3. q + 1 # e + h
      BY <2>1, <2>2, <3>1
    <3>4. \A k \in 1..x : q + 1 # e + h + k
      BY <2>1, <2>2, <3>1
    <3>5. q + 4 = Len(w) \/ q + 1 = e + h - 1 \/ q + 1 = e + h \/ (q + 1) - (e + h) \in 1..x
      BY <1>2, <1>3, <1>14, <2>1, <2>4
    <3>6. (q + 1) - (e + h) \in 1..x => e + h + ((q + 1) - (e + h)) = q + 1
      BY <1>2
    <3>7. q + 1 = e + h - 1 => q + 3 = e + h + 1
      BY <1>2
    <3> QED
      BY <3>2, <3>3, <3>4, <3>5, <3>6, <3>7
  <2> QED
    BY <2>3, <2>4
<1>15. e + h - 2 \in Nat /\ (e + h - 2) + 4 <= Len(w)
  BY <1>2, <1>3
<1> QED
  BY <1>1, <1>8, <1>13, <1>14, <1>15, Zenon
-----------------------------------------------------------------------------
(* Looking for the end of a line, and of the trailers *)

\* FirstAt finds the first place where pat stands, if there is one.
LEMMA FirstAtIs ==
  ASSUME NEW s \in Seq(Bytes), NEW pat \in Seq(Bytes), NEW m \in Nat, m > 0, Len(pat) = m
  PROVE  /\ FirstAt(s, pat) \in Nat
         /\ FirstAt(s, pat) = 0 => \A q \in Nat : ~Stands(pat, s, q)
         /\ FirstAt(s, pat) # 0 => /\ Stands(pat, s, FirstAt(s, pat) - 1)
                                   /\ \A q \in Nat : Stands(pat, s, q) => FirstAt(s, pat) - 1 <= q
<1>1. PICK n \in Nat : n = Len(s)
  OBVIOUS
<1> DEFINE ends == {i \in 1..(Len(s) - Len(pat) + 1) : SubSeq(s, i, i + Len(pat) - 1) = pat}
<1>3. FirstAt(s, pat) = IF ends = {} THEN 0 ELSE CHOOSE i \in ends : \A j \in ends : i <= j
  BY DEF FirstAt
<1>2. ends = {i \in 1..(Len(s) - Len(pat) + 1) : SubSeq(s, i, i + Len(pat) - 1) = pat}
  OBVIOUS
<1> HIDE DEF ends
<1>4. ends \in SUBSET (Nat \ {0})
  BY <1>1, <1>2
<1>5. ASSUME NEW i \in 1..(n - m + 1) PROVE i \in ends <=> Stands(pat, s, i - 1)
  <2>1. PICK x : x = SubSeq(s, i, i + m - 1)
    OBVIOUS
  <2>2. i \in ends <=> x = pat
    BY <1>1, <1>2, <2>1
  <2>3. x \in Seq(Bytes) /\ Len(x) = m /\ \A k \in 1..m : x[k] = s[i + k - 1]
    BY <1>1, <2>1
  <2>4. x = pat <=> \A k \in 1..m : pat[k] = x[k]
    BY <2>3
  <2>5. Stands(pat, s, i - 1) <=> \A k \in 1..m : pat[k] = s[(i - 1) + k]
    <3>1. i - 1 \in Nat /\ (i - 1) + m <= Len(s)
      BY <1>1
    <3> QED
      BY <3>1, Zenon DEF Stands
  <2>6. \A k \in 1..m : (i - 1) + k = i + k - 1
    OBVIOUS
  <2> QED
    BY <2>2, <2>3, <2>4, <2>5, <2>6
<1>6. ASSUME NEW q \in Nat, Stands(pat, s, q) PROVE q + 1 \in ends
  <2>1. q + 1 \in 1..(n - m + 1)
    BY <1>1, <1>6 DEF Stands
  <2>2. (q + 1) - 1 = q
    OBVIOUS
  <2> QED
    BY <1>5, <1>6, <2>1, <2>2, Zenon
<1>7. \A i \in ends : Stands(pat, s, i - 1)
  <2>1. \A i \in ends : i \in 1..(n - m + 1)
    BY <1>1, <1>2
  <2> QED
    BY <1>5, <2>1
<1>8. CASE ends = {}
  BY <1>3, <1>6, <1>8
<1>9. CASE ends # {}
  <2>1. ends \in SUBSET Nat
    BY <1>4
  <2>2. \E i \in ends : \A j \in ends : i <= j
    BY <1>9, <2>1, LeastElement
  <2>3. FirstAt(s, pat) \in ends /\ \A j \in ends : FirstAt(s, pat) <= j
    BY <1>3, <1>9, <2>2
  <2>4. PICK f : f = FirstAt(s, pat)
    OBVIOUS
  <2>5. f \in Nat /\ f # 0 /\ Stands(pat, s, f - 1)
    BY <1>4, <1>7, <2>3, <2>4
  <2>6. \A q \in Nat : Stands(pat, s, q) => f - 1 <= q
    <3> TAKE q \in Nat
    <3> HAVE Stands(pat, s, q)
    <3>1. f <= q + 1
      BY <1>6, <2>3, <2>4
    <3> QED
      BY <2>5, <3>1
  <2> QED
    BY <2>4, <2>5, <2>6
<1> QED
  BY <1>8, <1>9

\* A size line is parsed where it ends, whatever of the response was read with it.
LEMMA SizeEnd ==
  ASSUME NEW r \in Response, r.kind = "chunked", NEW i \in 1..LastChunk(r),
         NEW s \in Seq(Bytes), Stands(s, Wire(r), Start(r, i))
  PROVE  /\ s # <<>> => s[1] = <<"size", Size(r, i)>>
         /\ FirstAt(s, CRLF) = 0 => Len(s) < r.ext + 3
         /\ FirstAt(s, CRLF) # 0 => FirstAt(s, CRLF) = r.ext + 2 /\ r.ext + 3 <= Len(s)
<1>1. ChunkPlaces(r, i) /\ Wire(r) \in Seq(Bytes)
  BY Places
<1>2. PICK e, p, n, z, w : e = r.ext /\ p = Start(r, i) /\ n = Size(r, i) /\ z = SizeLine(r, n) /\ w = Wire(r)
  OBVIOUS
<1>3. e \in Nat /\ p \in Nat /\ n \in Nat /\ Stands(z, w, p) /\ Stands(s, w, p)
  BY <1>1, <1>2, ResponseParts DEF ChunkPlaces
<1>4. /\ z \in Seq(Bytes) /\ Len(z) = e + 3 /\ z[1] = <<"size", n>>
      /\ \A k \in 2..e + 1 : z[k] = <<"text", 0>>
      /\ z[e + 2] = <<"CR", 0>> /\ z[e + 3] = <<"LF", 0>>
  BY <1>2, <1>3, SizeLineIs, Zenon
<1>5. \A k \in 1..e + 3 : k <= Len(s) => s[k] = z[k]
  <2> TAKE k \in 1..e + 3
  <2> HAVE k <= Len(s)
  <2>1. z[k] = w[p + k]
    BY <1>3, <1>4, Zenon DEF Stands
  <2>2. k \in 1..Len(s)
    BY <1>3
  <2>3. s[k] = w[p + k]
    BY <1>3, <2>2, Zenon DEF Stands
  <2> QED
    BY <2>1, <2>3, Zenon
<1>6. PICK m \in Nat : m = Len(s)
  OBVIOUS
<1>7. s # <<>> => s[1] = <<"size", n>>
  <2>1. s # <<>> => m >= 1
    BY <1>6
  <2>2. 1 \in 1..e + 3
    BY <1>3
  <2> QED
    BY <1>4, <1>5, <1>6, <2>1, <2>2
<1>8. CRLF \in Seq(Bytes) /\ Len(CRLF) = 2 /\ CRLF[1] = <<"CR", 0>> /\ CRLF[2] = <<"LF", 0>>
  BY CRLFIs
<1>9. PICK f : f = FirstAt(s, CRLF)
  OBVIOUS
<1>10. /\ f \in Nat
       /\ f = 0 => \A q \in Nat : ~Stands(CRLF, s, q)
       /\ f # 0 => Stands(CRLF, s, f - 1) /\ \A q \in Nat : Stands(CRLF, s, q) => f - 1 <= q
  <2>1. 2 \in Nat /\ 2 > 0
    OBVIOUS
  <2> QED
    BY <1>8, <1>9, <2>1, FirstAtIs, Zenon
<1>11. m >= e + 3 => Stands(CRLF, s, e + 1)
  <2> HAVE m >= e + 3
  <2>1. s[e + 2] = <<"CR", 0>> /\ s[e + 3] = <<"LF", 0>>
    <3>1. e + 2 \in 1..e + 3 /\ e + 3 \in 1..e + 3 /\ e + 2 <= m /\ e + 3 <= m
      BY <1>3
    <3> QED
      BY <1>4, <1>5, <1>6, <3>1, Zenon
  <2>2. (e + 1) + 1 = e + 2 /\ (e + 1) + 2 = e + 3 /\ e + 1 \in Nat /\ (e + 1) + 2 <= m
    BY <1>3
  <2>3. \A k \in 1..2 : k = 1 \/ k = 2
    OBVIOUS
  <2>4. \A k \in 1..2 : CRLF[k] = s[(e + 1) + k]
    BY <1>8, <2>1, <2>2, <2>3, Zenon
  <2> QED
    BY <1>6, <1>8, <2>2, <2>4, Zenon DEF Stands
<1>12. ASSUME NEW q \in Nat, Stands(CRLF, s, q) PROVE q >= e + 1 /\ q + 2 <= m
  <2>1. q + 2 <= m /\ CRLF[1] = s[q + 1]
    <3>1. 1 \in 1..2
      OBVIOUS
    <3> QED
      BY <1>6, <1>8, <1>12, <3>1, Zenon DEF Stands
  <2>2. ASSUME q < e + 1 PROVE FALSE
    <3>1. s[q + 1] = z[q + 1]
      <4>1. q + 1 \in 1..e + 3 /\ q + 1 <= m
        BY <1>3, <2>1, <2>2
      <4> QED
        BY <1>5, <1>6, <4>1, Zenon
    <3>2. q + 1 = 1 \/ q + 1 \in 2..e + 1
      BY <1>3, <2>2
    <3>3. <<"CR", 0>> # <<"size", n>> /\ <<"CR", 0>> # <<"text", 0>>
      OBVIOUS
    <3> QED
      BY <1>4, <1>8, <2>1, <3>1, <3>2, <3>3, Zenon
  <2> QED
    BY <1>3, <2>1, <2>2
<1>13. f = 0 => m < e + 3
  <2>1. e + 1 \in Nat
    BY <1>3
  <2>2. f = 0 => ~(m >= e + 3)
    BY <1>10, <1>11, <2>1, Zenon
  <2> QED
    BY <1>3, <2>2
<1>14. f # 0 => f = e + 2 /\ e + 3 <= m
  <2> HAVE f # 0
  <2>1. f - 1 \in Nat /\ f - 1 >= e + 1 /\ (f - 1) + 2 <= m
    BY <1>10, <1>12
  <2>2. e + 1 \in Nat /\ m >= e + 3
    BY <1>3, <2>1
  <2>3. f - 1 <= e + 1
    BY <1>10, <1>11, <2>2
  <2> QED
    BY <1>3, <1>10, <2>1, <2>2, <2>3
<1> QED
  BY <1>2, <1>6, <1>7, <1>9, <1>13, <1>14, Zenon

\* What stands in w within the place of s stands in s.
LEMMA Within ==
  ASSUME NEW s \in Seq(Bytes), NEW t \in Seq(Bytes), NEW w, NEW p \in Nat, NEW k \in Nat,
         Stands(s, w, p), Stands(t, w, p + k), k + Len(t) <= Len(s)
  PROVE  Stands(t, s, k)
<1>1. PICK m, n \in Nat : m = Len(s) /\ n = Len(t)
  OBVIOUS
<1>2. ASSUME NEW j \in 1..n PROVE t[j] = s[k + j]
  <2>1. t[j] = w[(p + k) + j]
    BY <1>1, Zenon DEF Stands
  <2>2. k + j \in 1..m /\ p + (k + j) = (p + k) + j
    BY <1>1
  <2>3. s[k + j] = w[p + (k + j)]
    BY <1>1, <2>2, Zenon DEF Stands
  <2> QED
    BY <2>1, <2>2, <2>3
<1> QED
  BY <1>1, <1>2, Zenon DEF Stands

\* What stands in s stands where s does.
LEMMA Without ==
  ASSUME NEW s \in Seq(Bytes), NEW t \in Seq(Bytes), NEW v \in Seq(Bytes), NEW w \in Seq(Bytes),
         NEW p \in Nat, NEW q \in Nat, NEW k \in Nat,
         Stands(s, w, p), Stands(s, v, q), Stands(t, w, p + k), k + Len(t) <= Len(s)
  PROVE  Stands(t, v, q + k)
<1>1. Stands(t, s, k)
  BY Within
<1> QED
  BY <1>1, BytesIn

\* The trailers are over where the response is.
LEMMA TrailersEnd ==
  ASSUME NEW r \in Response, r.kind = "chunked", NEW q \in Nat, q >= TrailersAt(r),
         NEW s \in Seq(Bytes), Stands(s, Wire(r), q), q = TrailersAt(r) \/ Len(s) >= 4
  PROVE  /\ FirstAt(s, Term) = 0 => q + Len(s) < Len(Wire(r))
         /\ FirstAt(s, Term) # 0 => /\ q + FirstAt(s, Term) + 3 = Len(Wire(r))
                                    /\ Len(s) = FirstAt(s, Term) + 3
<1>1. /\ Wire(r) \in Seq(Bytes) /\ TrailersAt(r) \in Nat /\ TrailersAt(r) + 4 <= Len(Wire(r))
      /\ Stands(Term, Wire(r), Len(Wire(r)) - 4)
      /\ \A x \in Nat : x >= TrailersAt(r) /\ Stands(Term, Wire(r), x) => x + 4 = Len(Wire(r))
  BY Places, TheEnd, Zenon
<1>2. PICK w, a, f : w = Wire(r) /\ a = TrailersAt(r) /\ f = FirstAt(s, Term)
  OBVIOUS
<1>3. Term \in Seq(Bytes) /\ Len(Term) = 4
  BY TermIs
<1>4. PICK m \in Nat : m = Len(s)
  OBVIOUS
<1>5. PICK n \in Nat : n = Len(w)
  BY <1>1, <1>2
<1>6. q + m <= n
  BY <1>2, <1>4, <1>5 DEF Stands
<1>7. /\ f \in Nat
      /\ f = 0 => \A x \in Nat : ~Stands(Term, s, x)
      /\ f # 0 => Stands(Term, s, f - 1)
  <2>1. 4 \in Nat /\ 4 > 0
    OBVIOUS
  <2> QED
    BY <1>2, <1>3, <2>1, FirstAtIs, Zenon
<1>8. ASSUME f = 0 PROVE q + m < n
  <2> SUFFICES ASSUME q + m = n PROVE FALSE
    BY <1>6
  <2>1. PICK k : k = (n - 4) - q
    OBVIOUS
  <2>2. k \in Nat /\ q + k = n - 4 /\ k + 4 <= m
    <3>1. q = a \/ m >= 4
      BY <1>2, <1>4
    <3>2. a + 4 <= n
      BY <1>1, <1>2, <1>5
    <3> QED
      BY <2>1, <3>1, <3>2
  <2>3. Stands(Term, w, q + k) /\ Stands(s, w, q)
    BY <1>1, <1>2, <1>5, <2>2
  <2>4. k + Len(Term) <= Len(s)
    BY <1>3, <1>4, <2>2, Zenon
  <2>5. Stands(Term, s, k)
    BY <1>3, <2>2, <2>3, <2>4, Within, Zenon
  <2> QED
    BY <1>7, <1>8, <2>2, <2>5
<1>9. ASSUME f # 0 PROVE q + f + 3 = n /\ m = f + 3
  <2>1. f - 1 \in Nat /\ Stands(Term, s, f - 1)
    BY <1>7, <1>9
  <2>2. (f - 1) + 4 <= m
    BY <1>3, <1>4, <2>1 DEF Stands
  <2>3. Stands(Term, w, q + (f - 1))
    BY <1>1, <1>2, <1>3, <2>1, BytesIn, Zenon
  <2>4. q + (f - 1) \in Nat /\ q + (f - 1) >= a
    <3>1. a <= q
      BY <1>2
    <3>2. a \in Nat
      BY <1>1, <1>2
    <3> QED
      BY <2>1, <3>1, <3>2
  <2>5. (q + (f - 1)) + 4 = n
    BY <1>1, <1>2, <1>5, <2>3, <2>4, Zenon
  <2> QED
    BY <1>6, <1>7, <2>2, <2>5
<1> QED
  BY <1>2, <1>4, <1>5, <1>8, <1>9

\* What is kept of the trailers is their end, and has no end of the trailers in it.
LEMMA KeptIs ==
  ASSUME NEW s \in Seq(Bytes), FirstAt(s, Term) = 0
  PROVE  \E k \in 0..Len(s) :
           /\ Kept(s) = SubSeq(s, k + 1, Len(s))
           /\ Kept(s) \in Seq(Bytes) /\ Len(Kept(s)) = Len(s) - k
           /\ FirstAt(Kept(s), Term) = 0
           /\ Len(Kept(s)) <= TRAILER_BUFF \div 2
           /\ Len(s) <= TRAILER_BUFF \div 2 => k = 0
           /\ k = 0 \/ Len(Kept(s)) = 4
<1>1. PICK m, half \in Nat : m = Len(s) /\ half = TRAILER_BUFF \div 2 /\ half >= 4
  <2>1. TRAILER_BUFF \div 2 \in Nat
    BY DecoderConstants
  <2> QED
    BY <2>1, DecoderConstants
<1>2. PICK k : k = IF m > half THEN m - 4 ELSE 0
  OBVIOUS
<1>3. k \in 0..m /\ m - k <= half /\ (m <= half => k = 0) /\ (k = 0 \/ m - k = 4)
  BY <1>1, <1>2
<1>4. Kept(s) = SubSeq(s, k + 1, Len(s))
  <2>1. CASE m > half
    <3>1. Kept(s) = SubSeq(s, Len(s) - 3, Len(s))
      BY <1>1, <2>1 DEF Kept, From
    <3>2. Len(s) - 3 = k + 1
      BY <1>1, <1>2, <2>1
    <3> QED
      BY <3>1, <3>2
  <2>2. CASE ~(m > half)
    <3>1. Kept(s) = s /\ k + 1 = 1
      BY <1>1, <1>2, <2>2 DEF Kept
    <3>2. SubSeq(s, 1, Len(s)) = s
      OBVIOUS
    <3> QED
      BY <3>1, <3>2
  <2> QED
    BY <2>1, <2>2
<1>5. PICK x : x = Kept(s)
  OBVIOUS
<1>6. Stands(s, s, 0)
  BY DEF Stands
<1>7. Stands(x, s, k) /\ x \in Seq(Bytes) /\ Len(x) = m - k
  <2>1. 0 \in Nat /\ k \in 0..Len(s)
    BY <1>1, <1>3
  <2>2. /\ Stands(SubSeq(s, k + 1, Len(s)), s, 0 + k)
        /\ SubSeq(s, k + 1, Len(s)) \in Seq(Bytes) /\ Len(SubSeq(s, k + 1, Len(s))) = Len(s) - k
    BY <1>6, <2>1, StandsCut
  <2>3. 0 + k = k
    BY <2>1
  <2> QED
    BY <1>1, <1>4, <1>5, <2>2, <2>3, Zenon
<1>8. FirstAt(x, Term) = 0
  <2> SUFFICES ASSUME FirstAt(x, Term) # 0 PROVE FALSE
    OBVIOUS
  <2>1. Term \in Seq(Bytes) /\ Len(Term) = 4 /\ 4 \in Nat /\ 4 > 0
    BY TermIs
  <2>2. FirstAt(x, Term) \in Nat /\ Stands(Term, x, FirstAt(x, Term) - 1)
    BY <1>7, <2>1, FirstAtIs, Zenon
  <2>3. Stands(Term, s, k + (FirstAt(x, Term) - 1))
    BY <1>7, <2>1, <2>2, BytesIn, Zenon
  <2>4. k + (FirstAt(x, Term) - 1) \in Nat
    BY <1>3, <2>2
  <2> QED
    BY <2>1, <2>3, <2>4, FirstAtIs, Zenon
<1> QED
  BY <1>1, <1>3, <1>4, <1>5, <1>7, <1>8
-----------------------------------------------------------------------------
(* One InternalRead *)

\* What an InternalRead does, by where its bytes come from.
LEMMA YieldCases ==
  ASSUME TypeInv, NEW n \in Nat, NEW y \in Yield(n)
  PROVE  /\ y.err \in BOOLEAN
         /\ \/ /\ buf # <<>> /\ ~y.err /\ y.net = net
               /\ \E k \in 0..Len(buf) : /\ k <= n /\ (n > 0 => k > 0)
                                         /\ y.bytes = SubSeq(buf, 1, k)
                                         /\ y.buf = SubSeq(buf, k + 1, Len(buf))
            \/ /\ buf = <<>> /\ y.buf = <<>> /\ conn = "held" /\ ~y.err
               /\ \E k \in 1..Len(net) : /\ k <= n
                                         /\ y.bytes = SubSeq(net, 1, k)
                                         /\ y.net = SubSeq(net, k + 1, Len(net))
            \/ /\ buf = <<>> /\ y.buf = <<>> /\ y.bytes = <<>>
               /\ \/ y.net = net /\ ~y.err /\ (n = 0 \/ conn # "held")
                  \/ /\ n > 0 /\ conn = "held"
                     /\ \/ y.net = net /\ net = <<>> /\ (y.err => ~resp.close)
                        \/ ~resp.whole /\ (y.net = net \/ (y.net = <<>> /\ ~y.err))
<1>1. Len(buf) \in Nat /\ Len(net) \in Nat /\ (buf # <<>> => Len(buf) > 0)
  BY DEF TypeInv
<1>2. CASE buf # <<>>
  <2>1. y = [bytes |-> SubSeq(buf, 1, Least(n, Len(buf))),
             buf |-> SubSeq(buf, Least(n, Len(buf)) + 1, Len(buf)), net |-> net, err |-> FALSE]
    BY <1>2, Zenon DEF Yield, From
  <2>2. Least(n, Len(buf)) \in 0..Len(buf) /\ Least(n, Len(buf)) <= n /\ (n > 0 => Least(n, Len(buf)) > 0)
    BY <1>1, <1>2 DEF Least
  <2> QED
    BY <1>2, <2>1, <2>2
<1>3. CASE buf = <<>> /\ (n = 0 \/ conn # "held")
  <2>1. y = [bytes |-> <<>>, buf |-> <<>>, net |-> net, err |-> FALSE]
    BY <1>3, Zenon DEF Yield
  <2> QED
    BY <1>3, <2>1
<1>4. CASE buf = <<>> /\ n # 0 /\ conn = "held"
  <2>1. \/ \E i \in 1..Least(n, Len(net)) :
             y = [bytes |-> SubSeq(net, 1, i), buf |-> <<>>, net |-> SubSeq(net, i + 1, Len(net)), err |-> FALSE]
        \/ net = <<>> /\ resp.close /\ y = [bytes |-> <<>>, buf |-> <<>>, net |-> net, err |-> FALSE]
        \/ net = <<>> /\ ~resp.close /\ y = [bytes |-> <<>>, buf |-> <<>>, net |-> net, err |-> TRUE]
        \/ ~resp.whole /\ y = [bytes |-> <<>>, buf |-> <<>>, net |-> net, err |-> TRUE]
        \/ ~resp.whole /\ y = [bytes |-> <<>>, buf |-> <<>>, net |-> <<>>, err |-> FALSE]
    BY <1>4 DEF Yield, From
  <2>2. \A i \in 1..Least(n, Len(net)) : i \in 1..Len(net) /\ i <= n
    BY <1>1 DEF Least
  <2>3. CASE \E i \in 1..Least(n, Len(net)) :
               y = [bytes |-> SubSeq(net, 1, i), buf |-> <<>>, net |-> SubSeq(net, i + 1, Len(net)), err |-> FALSE]
    BY <1>4, <2>2, <2>3
  <2>4. CASE net = <<>> /\ resp.close /\ y = [bytes |-> <<>>, buf |-> <<>>, net |-> net, err |-> FALSE]
    BY <1>4, <2>4
  <2>5. CASE net = <<>> /\ ~resp.close /\ y = [bytes |-> <<>>, buf |-> <<>>, net |-> net, err |-> TRUE]
    BY <1>4, <2>5
  <2>6. CASE ~resp.whole /\ y = [bytes |-> <<>>, buf |-> <<>>, net |-> net, err |-> TRUE]
    BY <1>4, <2>6
  <2>7. CASE ~resp.whole /\ y = [bytes |-> <<>>, buf |-> <<>>, net |-> <<>>, err |-> FALSE]
    BY <1>4, <2>7
  <2> QED
    BY <2>1, <2>3, <2>4, <2>5, <2>6, <2>7
<1> QED
  BY <1>2, <1>3, <1>4

\* A sequence cut in two is read as its beginning, then its rest.
LEMMA PutBack ==
  ASSUME NEW r \in Response, NEW s \in Seq(Bytes), NEW b \in Seq(Bytes), NEW w \in Seq(Bytes),
         Wire(r) \in Seq(Bytes), NEW a \in Nat, NEW k \in 0..Len(s),
         Stands(s, Wire(r), a), Reading(r, b, w, a + Len(s))
  PROVE  /\ SubSeq(s, k + 1, Len(s)) \o b \in Seq(Bytes)
         /\ Reading(r, SubSeq(s, k + 1, Len(s)) \o b, w, a + k)
<1>1. PICK x, c, v, m, n : /\ x = SubSeq(s, k + 1, Len(s)) /\ c = x \o b /\ v = Wire(r)
                           /\ m = Len(s) /\ n = Len(b)
  OBVIOUS
<1>2. m \in Nat /\ n \in Nat /\ k \in 0..m /\ v \in Seq(Bytes) /\ m - k \in Nat
  BY <1>1
<1>3. x \in Seq(Bytes) /\ Len(x) = m - k /\ Stands(x, v, a + k)
  BY <1>1, StandsCut, SMTT(30)
<1>4. a + k \in Nat /\ a + m = (a + k) + (m - k) /\ (m - k) + n \in Nat
  BY <1>2
<1>5. Stands(b, v, a + m) /\ Stands(w, v, a + m + n) /\ (r.whole => a + m + n + Len(w) = Len(v))
  BY <1>1, Zenon DEF Reading
<1>6. Stands(b, v, (a + k) + Len(x))
  BY <1>3, <1>4, <1>5, Zenon
<1>7. Stands(x \o b, v, a + k)
  BY <1>2, <1>3, <1>4, <1>6, StandsConcat
<1>8. c \in Seq(Bytes) /\ Joins(c, x, m - k, b, n)
  BY <1>1, <1>2, <1>3, BytesConcat, Zenon
<1>9. Len(c) = (m - k) + n
  BY <1>8, Zenon DEF Joins
<1>10. a + m + n = (a + k) + ((m - k) + n)
  BY <1>2
<1>11. Stands(w, v, (a + k) + Len(c))
  BY <1>5, <1>9, <1>10, Zenon
<1>12. r.whole => (a + k) + Len(c) + Len(w) = Len(v)
  BY <1>5, <1>9, <1>10, Zenon
<1> QED
  BY <1>1, <1>7, <1>8, <1>11, <1>12, Zenon DEF Reading

\* The bytes on the wire.
LEMMA WireIs ==
  ASSUME NEW r \in Response
  PROVE  Wire(r) \in Seq(Bytes) /\ (r.kind # "chunked" => Wire(r) = Body(r))
<1>1. CASE r.kind = "chunked"
  BY <1>1, Places
<1>2. CASE r.kind # "chunked"
  BY <1>2, BodyIs, Zenon DEF Wire
<1> QED
  BY <1>1, <1>2

\* A sequence cut in two, of which the first part was taken.
LEMMA Taken ==
  ASSUME NEW s \in Seq(Bytes), NEW w \in Seq(Bytes), NEW p \in Nat, NEW k \in 0..Len(s), Stands(s, w, p)
  PROVE  /\ SubSeq(s, 1, k) \in Seq(Bytes) /\ Len(SubSeq(s, 1, k)) = k /\ Stands(SubSeq(s, 1, k), w, p)
         /\ SubSeq(s, k + 1, Len(s)) \in Seq(Bytes) /\ Len(SubSeq(s, k + 1, Len(s))) = Len(s) - k
         /\ Stands(SubSeq(s, k + 1, Len(s)), w, p + k)
BY StandsCut

\* What an InternalRead on a connection in use returns is what the response has there, and it
\* returns nothing, or fails, only where a whole response ends.
LEMMA YieldIs ==
  ASSUME TypeInv, conn = "held", NEW n \in Nat, NEW y \in Yield(n), NEW p \in Nat, At(p)
  PROVE  /\ y.bytes \in Seq(Bytes) /\ y.buf \in Seq(Bytes) /\ y.net \in Seq(Bytes) /\ y.err \in BOOLEAN
         /\ Len(y.bytes) \in Nat /\ Len(y.bytes) <= n
         /\ Stands(y.bytes, Wire(resp), p)
         /\ Reading(resp, y.buf, y.net, p + Len(y.bytes))
         /\ y.err => n > 0 /\ y.bytes = <<>>
         /\ y.bytes = <<>> /\ n > 0 =>
              /\ y.buf = <<>>
              /\ resp.whole => p = Len(Wire(resp)) /\ y.net = <<>> /\ (y.err => ~resp.close)
<1>1. PICK w : w = Wire(resp)
  OBVIOUS
<1>2. w \in Seq(Bytes) /\ resp \in Response /\ buf \in Seq(Bytes) /\ net \in Seq(Bytes)
  BY <1>1, WireIs DEF TypeInv
<1>3. /\ Stands(buf, w, p) /\ Stands(net, w, p + Len(buf))
      /\ resp.whole => p + Len(buf) + Len(net) = Len(w)
  BY <1>1, Zenon DEF At, Reading
<1>4. PICK m, l \in Nat : m = Len(buf) /\ l = Len(net)
  BY <1>2
<1>5. <<>> \in Seq(Bytes) /\ Len(<<>>) = 0 /\ \A x \in Seq(Bytes) : Len(x) = 0 => x = <<>>
  OBVIOUS
<1>6. PICK a, b, c : a = y.bytes /\ b = y.buf /\ c = y.net
  OBVIOUS
<1>7. y.err \in BOOLEAN
  BY YieldCases
<1>8. CASE /\ buf # <<>> /\ ~y.err /\ c = net
           /\ \E k \in 0..Len(buf) : k <= n /\ (n > 0 => k > 0) /\ a = SubSeq(buf, 1, k) /\ b = SubSeq(buf, k + 1, Len(buf))
  <2>1. PICK k \in 0..Len(buf) : /\ k <= n /\ (n > 0 => k > 0)
                                 /\ a = SubSeq(buf, 1, k) /\ b = SubSeq(buf, k + 1, Len(buf))
    BY <1>8
  <2>2. /\ a \in Seq(Bytes) /\ Len(a) = k /\ Stands(a, w, p)
        /\ b \in Seq(Bytes) /\ Len(b) = Len(buf) - k /\ Stands(b, w, p + k)
    <3>1. k \in 0..Len(buf) /\ Stands(buf, w, p) /\ w \in Seq(Bytes) /\ buf \in Seq(Bytes) /\ p \in Nat
      BY <1>2, <1>3, <2>1
    <3>2. /\ SubSeq(buf, 1, k) \in Seq(Bytes) /\ Len(SubSeq(buf, 1, k)) = k /\ Stands(SubSeq(buf, 1, k), w, p)
          /\ SubSeq(buf, k + 1, Len(buf)) \in Seq(Bytes) /\ Len(SubSeq(buf, k + 1, Len(buf))) = Len(buf) - k
          /\ Stands(SubSeq(buf, k + 1, Len(buf)), w, p + k)
      BY <3>1, Taken, Zenon
    <3> QED
      BY <2>1, <3>2, Zenon
  <2>3. k \in Nat /\ k <= m /\ (p + k) + (m - k) = p + m
    BY <1>4, <2>1
  <2>4. Stands(c, w, (p + k) + Len(b)) /\ (resp.whole => (p + k) + Len(b) + Len(c) = Len(w))
    BY <1>3, <1>4, <1>8, <2>2, <2>3, Zenon
  <2>5. Reading(resp, b, c, p + Len(a))
    BY <1>1, <2>2, <2>4, Zenon DEF Reading
  <2>6. Len(a) \in Nat /\ Len(a) <= n /\ (a = <<>> => ~(n > 0))
    BY <1>5, <2>1, <2>2, <2>3
  <2> QED
    BY <1>1, <1>2, <1>6, <1>7, <1>8, <2>2, <2>5, <2>6, Zenon
<1>9. CASE /\ buf = <<>> /\ b = <<>> /\ ~y.err
           /\ \E k \in 1..Len(net) : k <= n /\ a = SubSeq(net, 1, k) /\ c = SubSeq(net, k + 1, Len(net))
  <2>1. PICK k \in 1..Len(net) : k <= n /\ a = SubSeq(net, 1, k) /\ c = SubSeq(net, k + 1, Len(net))
    BY <1>9
  <2>2. m = 0 /\ p + m = p
    BY <1>4, <1>5, <1>9
  <2>3. k \in Nat /\ k > 0 /\ k <= l /\ k \in 0..Len(net) /\ p + k \in Nat /\ (p + k) + (l - k) = p + l
    BY <1>4, <2>1
  <2>4. Stands(net, w, p) /\ (resp.whole => p + l = Len(w))
    BY <1>3, <1>4, <2>2, Zenon
  <2>5. /\ a \in Seq(Bytes) /\ Len(a) = k /\ Stands(a, w, p)
        /\ c \in Seq(Bytes) /\ Len(c) = Len(net) - k /\ Stands(c, w, p + k)
    <3>1. k \in 0..Len(net) /\ Stands(net, w, p) /\ w \in Seq(Bytes) /\ net \in Seq(Bytes) /\ p \in Nat
      BY <1>2, <2>3, <2>4
    <3>2. /\ SubSeq(net, 1, k) \in Seq(Bytes) /\ Len(SubSeq(net, 1, k)) = k /\ Stands(SubSeq(net, 1, k), w, p)
          /\ SubSeq(net, k + 1, Len(net)) \in Seq(Bytes) /\ Len(SubSeq(net, k + 1, Len(net))) = Len(net) - k
          /\ Stands(SubSeq(net, k + 1, Len(net)), w, p + k)
      BY <3>1, Taken, Zenon
    <3> QED
      BY <2>1, <3>2, Zenon
  <2>6. Stands(b, w, p + k) /\ Len(b) = 0 /\ (p + k) + 0 = p + k
    <3>1. p + k <= Len(w)
      BY <2>5 DEF Stands
    <3> QED
      BY <1>5, <1>9, <2>3, <3>1 DEF Stands
  <2>7. Stands(c, w, (p + k) + Len(b)) /\ (resp.whole => (p + k) + Len(b) + Len(c) = Len(w))
    BY <1>4, <2>3, <2>4, <2>5, <2>6, Zenon
  <2>8. Reading(resp, b, c, p + Len(a))
    BY <1>1, <2>5, <2>6, <2>7, Zenon DEF Reading
  <2>9. Len(a) \in Nat /\ Len(a) <= n /\ a # <<>>
    BY <1>5, <2>1, <2>3, <2>5
  <2> QED
    BY <1>1, <1>5, <1>6, <1>7, <1>9, <2>5, <2>8, <2>9, Zenon
<1>10. CASE /\ buf = <<>> /\ b = <<>> /\ a = <<>>
            /\ \/ c = net /\ ~y.err /\ n = 0
               \/ /\ n > 0
                  /\ \/ c = net /\ net = <<>> /\ (y.err => ~resp.close)
                     \/ ~resp.whole /\ (c = net \/ (c = <<>> /\ ~y.err))
  <2>1. m = 0 /\ p + m = p /\ p + 0 = p /\ p <= Len(w)
    BY <1>3, <1>4, <1>5, <1>10 DEF Stands
  <2>2. Stands(net, w, p) /\ (resp.whole => p + l = Len(w))
    BY <1>3, <1>4, <2>1, Zenon
  <2>3. Stands(<<>>, w, p)
    BY <1>5, <2>1 DEF Stands
  <2>4. Stands(c, w, p) /\ c \in Seq(Bytes) /\ (resp.whole => p + Len(c) = Len(w))
    BY <1>2, <1>4, <1>5, <1>10, <2>2, <2>3, Zenon
  <2>5. Reading(resp, b, c, p + Len(a))
    BY <1>1, <1>5, <1>10, <2>1, <2>3, <2>4, Zenon DEF Reading
  <2>6. Len(a) \in Nat /\ Len(a) <= n
    BY <1>5, <1>10
  <2>7. n > 0 /\ resp.whole => p = Len(w) /\ c = <<>> /\ (y.err => ~resp.close)
    BY <1>4, <1>5, <1>10, <2>1, <2>2
  <2>8. y.err => n > 0
    BY <1>10
  <2> QED
    BY <1>1, <1>5, <1>6, <1>7, <1>10, <2>3, <2>4, <2>5, <2>6, <2>7, <2>8, Zenon
<1>11. \/ /\ buf # <<>> /\ ~y.err /\ c = net
          /\ \E k \in 0..Len(buf) : k <= n /\ (n > 0 => k > 0) /\ a = SubSeq(buf, 1, k) /\ b = SubSeq(buf, k + 1, Len(buf))
       \/ /\ buf = <<>> /\ b = <<>> /\ ~y.err
          /\ \E k \in 1..Len(net) : k <= n /\ a = SubSeq(net, 1, k) /\ c = SubSeq(net, k + 1, Len(net))
       \/ /\ buf = <<>> /\ b = <<>> /\ a = <<>>
          /\ \/ c = net /\ ~y.err /\ n = 0
             \/ /\ n > 0
                /\ \/ c = net /\ net = <<>> /\ (y.err => ~resp.close)
                   \/ ~resp.whole /\ (c = net \/ (c = <<>> /\ ~y.err))
  BY <1>6, YieldCases, Zenon
<1> QED
  BY <1>8, <1>9, <1>10, <1>11

\* An InternalRead on a connection that was given up returns nothing.
LEMMA YieldAfter ==
  ASSUME TypeInv, conn # "held", buf = <<>>, NEW n \in Nat, NEW y \in Yield(n)
  PROVE  y.bytes = <<>> /\ y.buf = <<>> /\ y.net = net /\ y.err = FALSE
BY YieldCases

\* A connection stays in use until a read fails or returns nothing.
LEMMA ConnAfterIs ==
  ASSUME TypeInv, NEW y, y.err \in BOOLEAN
  PROVE  /\ ConnAfter(y) \in {"held", "broken", "pooled", "closed"}
         /\ ConnAfter(y) = "held" <=> conn = "held" /\ ~y.err /\ y.bytes # <<>>
         /\ ~y.err => ConnAfter(y) # "broken" \/ y.bytes # <<>>
BY DEF ConnAfter, TypeInv

\* What the invariant says of an InternalRead for n bytes with outcome y.
Outcome(n, y) ==
  /\ y.bytes \in Seq(Bytes) /\ y.buf \in Seq(Bytes) /\ y.net \in Seq(Bytes)
  /\ y.err \in BOOLEAN /\ Len(y.bytes) \in Nat /\ Len(y.bytes) <= n
  /\ y.err => y.bytes = <<>> /\ conn = "held"
  /\ ConnAfter(y) \in {"held", "broken", "pooled", "closed"}
  /\ ConnAfter(y) = "held" <=> conn = "held" /\ ~y.err /\ y.bytes # <<>>
  /\ conn # "held" => y.bytes = <<>> /\ y.buf = <<>> /\ y.net = net
  /\ result = "end" => y.bytes = <<>> /\ ~y.err /\ part = <<>>
  /\ \A p \in Nat : conn = "held" /\ At(p) =>
       /\ Stands(y.bytes, Wire(resp), p)
       /\ Reading(resp, y.buf, y.net, p + Len(y.bytes))
       /\ y.err => n > 0
       /\ y.bytes = <<>> /\ n > 0 =>
            /\ y.buf = <<>>
            /\ resp.whole => p = Len(Wire(resp)) /\ y.net = <<>> /\ (y.err => ~resp.close)

\* What the invariant says of an InternalRead holds of every one.
LEMMA ReadIs ==
  ASSUME Inv, at # "idle", NEW n \in Nat, NEW y \in Yield(n)
  PROVE  Outcome(n, y)
<1>1. TypeInv /\ y.err \in BOOLEAN
  BY YieldCases DEF Inv
<1>2. conn # "held" => buf = <<>>
  BY DEF Inv, GivenInv
<1>3. /\ ConnAfter(y) \in {"held", "broken", "pooled", "closed"}
      /\ ConnAfter(y) = "held" <=> conn = "held" /\ ~y.err /\ y.bytes # <<>>
  BY <1>1, ConnAfterIs
<1>4. result = "end" => conn # "held" /\ part = <<>>
  BY DEF Inv, GivenInv
<1>5. CASE conn # "held"
  <2>1. y.bytes = <<>> /\ y.buf = <<>> /\ y.net = net /\ y.err = FALSE
    BY <1>1, <1>2, <1>5, YieldAfter
  <2>2. <<>> \in Seq(Bytes) /\ Len(<<>>) = 0 /\ net \in Seq(Bytes) /\ 0 \in Nat /\ 0 <= n
    BY <1>1 DEF TypeInv
  <2> QED
    BY <1>1, <1>3, <1>4, <1>5, <2>1, <2>2, Zenon DEF Outcome
<1>6. CASE conn = "held"
  <2>1. PICK p \in Nat : At(p)
    BY <1>6 DEF Inv, PlaceInv
  <2>2. /\ y.bytes \in Seq(Bytes) /\ y.buf \in Seq(Bytes) /\ y.net \in Seq(Bytes)
        /\ Len(y.bytes) \in Nat /\ Len(y.bytes) <= n
        /\ y.err => n > 0 /\ y.bytes = <<>>
    BY <1>1, <1>6, <2>1, YieldIs, Zenon
  <2>3. ASSUME NEW q \in Nat, At(q)
        PROVE  /\ Stands(y.bytes, Wire(resp), q)
               /\ Reading(resp, y.buf, y.net, q + Len(y.bytes))
               /\ y.err => n > 0
               /\ y.bytes = <<>> /\ n > 0 =>
                    /\ y.buf = <<>>
                    /\ resp.whole => q = Len(Wire(resp)) /\ y.net = <<>> /\ (y.err => ~resp.close)
    BY <1>1, <1>6, <2>3, YieldIs, Zenon
  <2> QED
    BY <1>1, <1>3, <1>4, <1>6, <2>2, <2>3, Zenon DEF Outcome
<1> QED
  BY <1>5, <1>6

\* Nothing added to a sequence.
LEMMA NothingAdded ==
  ASSUME NEW s \in Seq(Bytes)
  PROVE  s \o <<>> = s /\ <<>> \o s = s /\ <<>> \in Seq(Bytes) /\ Len(<<>>) = 0
OBVIOUS

\* What is added to a sequence.
LEMMA BytesAdded ==
  ASSUME NEW s \in Seq(Bytes), NEW t \in Seq(Bytes)
  PROVE  /\ s \o t \in Seq(Bytes) /\ Len(s \o t) = Len(s) + Len(t)
         /\ Len(s) \in Nat /\ Len(t) \in Nat /\ Len(s \o t) \in Nat
         /\ s \o t = <<>> => s = <<>> /\ t = <<>>
         /\ t # <<>> => Len(t) > 0
<1>1. s \o t \in Seq(Bytes) /\ Len(s \o t) = Len(s) + Len(t)
  BY ConcatIs
<1>2. PICK c, m, n, k : c = s \o t /\ m = Len(s) /\ n = Len(t) /\ k = Len(c)
  OBVIOUS
<1>3. m \in Nat /\ n \in Nat /\ k = m + n /\ (m = 0 => s = <<>>) /\ (n = 0 => t = <<>>)
  BY <1>1, <1>2
<1>4. c = <<>> => k = 0
  BY <1>2
<1>5. c = <<>> => s = <<>> /\ t = <<>>
  BY <1>3, <1>4
<1>6. k \in Nat /\ (t # <<>> => n > 0)
  BY <1>3
<1> QED
  BY <1>1, <1>2, <1>3, <1>5, <1>6, Zenon
-----------------------------------------------------------------------------
(* The steps *)

\* What a step does to the application and to the connection.
StreamLike ==
  /\ resp' = resp /\ (conn # "held" => conn' # "held")
  /\ \/ got' = got /\ (result' = result \/ (result' = "error" /\ result # "end"))
     \/ \E d \in Seq(Bytes) : /\ got' = got \o d /\ Len(d) <= cb /\ cb \in ReadSizes
                              /\ result' = IF d = <<>> THEN "end" ELSE "more"
                              /\ d # <<>> => result # "end"

\* contentLengthTE::Read: it asks for no more than is left, so it ends with the response.
LEMMA LengthReadStep ==
  ASSUME Inv, LengthRead
  PROVE  Inv' /\ StreamLike
<1>1. at = "data" /\ resp.kind = "length" /\ TypeInv /\ CallInv /\ GivenInv /\ PlaceInv
  BY DEF LengthRead, Inv
<1>2. PICK y \in Yield(Ask) :
        /\ Reads(y, <<>>)
        /\ IF y.err THEN Fail /\ UNCHANGED left
           ELSE /\ left' = left - Len(y.bytes)
                /\ IF left' = 0 THEN Goto("tidy") /\ part' = y.bytes /\ UNCHANGED scratch
                                ELSE Return(y.bytes)
  BY DEF LengthRead
<1>3. UNCHANGED <<state, cb>>
  BY DEF LengthRead
<1>4. cb \in ReadSizes /\ cb \in Nat /\ cb > 0 /\ left \in Nat
  BY <1>1, DecoderConstants DEF TypeInv
<1>5. PICK n : n = Ask
  OBVIOUS
<1>6. n \in Nat /\ n <= left /\ n <= cb /\ (left > 0 => n > 0) /\ y \in Yield(n)
  BY <1>4, <1>5 DEF Ask, Least
<1>7. part = <<>> /\ scratch = <<>> /\ resp \in Response /\ got \in Seq(Bytes)
  BY <1>1 DEF TypeInv, CallInv
<1>8. PICK a, b, c, w, g : a = y.bytes /\ b = y.buf /\ c = y.net /\ w = Wire(resp) /\ g = got \o a
  OBVIOUS
<1>9. w = Body(resp) /\ w \in Seq(Bytes) /\ Len(w) \in Nat
  BY <1>1, <1>7, <1>8, WireIs
<1>10. Outcome(n, y)
  BY <1>1, <1>6, ReadIs
<1>11. net' = c /\ buf' = b /\ conn' = ConnAfter(y) /\ resp' = resp
  <2>1. net' = c /\ buf' = <<>> \o b /\ conn' = ConnAfter(y) /\ resp' = resp
    BY <1>2, <1>8, Zenon DEF Reads
  <2> QED
    BY <1>8, <1>10, <2>1, NothingAdded, Zenon DEF Outcome
<1>12. /\ a \in Seq(Bytes) /\ b \in Seq(Bytes) /\ c \in Seq(Bytes)
       /\ y.err \in BOOLEAN /\ Len(a) \in Nat /\ Len(a) <= n
       /\ y.err => a = <<>> /\ conn = "held"
       /\ conn' \in {"held", "broken", "pooled", "closed"}
       /\ conn' = "held" <=> conn = "held" /\ ~y.err /\ a # <<>>
       /\ result = "end" => a = <<>> /\ ~y.err
  BY <1>8, <1>10, <1>11, Zenon DEF Outcome
<1>13. /\ g \in Seq(Bytes) /\ Len(g) = Len(got) + Len(a) /\ Len(got) \in Nat /\ Len(g) \in Nat
       /\ a = <<>> => g = got /\ Len(a) = 0
       /\ got \o <<>> = got /\ Seen = got
  BY <1>7, <1>8, <1>12, BytesAdded, NothingAdded, Zenon DEF Seen
<1>14. Stands(got, w, 0)
  BY <1>1, <1>9, <1>13 DEF GivenInv
<1>15. ASSUME conn = "held"
       PROVE  /\ Stands(g, w, 0)
              /\ \E p \in 0..Len(w) : Reading(resp, b, c, p) /\ p = Len(g) /\ left - Len(a) = Len(w) - p
              /\ a = <<>> => b = <<>> /\ (resp.whole => left = 0 /\ Len(got) = Len(w) /\ c = <<>>)
              /\ resp.whole => ~y.err
  <2>1. PICK p \in 0..Len(w) : At(p) /\ p = Len(got) /\ left = Len(w) - p
    BY <1>1, <1>8, <1>13, <1>15 DEF PlaceInv, LengthAt
  <2>2. /\ Stands(a, w, p)
        /\ Reading(resp, b, c, p + Len(a))
        /\ y.err => n > 0
        /\ a = <<>> /\ n > 0 =>
             /\ b = <<>>
             /\ resp.whole => p = Len(w) /\ c = <<>>
    <3>1. p \in Nat
      BY <2>1
    <3> QED
      BY <1>8, <1>10, <1>15, <2>1, <3>1, Zenon DEF Outcome
  <2>3. Stands(g, w, 0)
    <3>1. Stands(a, w, 0 + Len(got)) /\ 0 \in Nat
      BY <2>1, <2>2
    <3> QED
      BY <1>7, <1>8, <1>9, <1>12, <1>14, <3>1, StandsConcat
  <2>4. p + Len(a) = Len(g) /\ p + Len(a) \in 0..Len(w) /\ left - Len(a) = Len(w) - (p + Len(a))
    <3>1. p + Len(a) <= Len(w)
      BY <2>2 DEF Stands
    <3> QED
      BY <1>4, <1>9, <1>12, <1>13, <2>1, <3>1
  <2>5. n = 0 => p = Len(w)
    BY <1>4, <1>6, <1>9, <2>1
  <2>6. n > 0 => p # Len(w)
    BY <1>4, <1>6, <1>9, <2>1
  <2>7. p = Len(w) /\ a = <<>> => b = <<>> /\ (resp.whole => c = <<>>)
    <3> SUFFICES ASSUME p = Len(w), a = <<>> PROVE b = <<>> /\ (resp.whole => c = <<>>)
      OBVIOUS
    <3>1. Reading(resp, b, c, p) /\ p \in Nat
      BY <1>13, <2>1, <2>2
    <3>2. p + Len(b) <= Len(w) /\ (resp.whole => p + Len(b) + Len(c) = Len(w))
      BY <1>8, <3>1 DEF Reading, Stands
    <3>3. PICK m, l \in Nat : m = Len(b) /\ l = Len(c) /\ (m = 0 => b = <<>>) /\ (l = 0 => c = <<>>)
      BY <1>12
    <3>4. m = 0 /\ (resp.whole => l = 0)
      BY <3>1, <3>2, <3>3
    <3> QED
      BY <3>3, <3>4
  <2>8. n > 0 \/ n = 0
    BY <1>6
  <2>9. a = <<>> => b = <<>> /\ (resp.whole => left = 0 /\ Len(got) = Len(w) /\ c = <<>>)
    BY <1>4, <1>9, <2>1, <2>2, <2>5, <2>6, <2>7, <2>8
  <2>10. resp.whole => ~y.err
    BY <1>12, <2>2, <2>6
  <2> QED
    BY <2>2, <2>3, <2>4, <2>9, <2>10
<1>16. ASSUME conn # "held"
       PROVE  /\ Stands(g, w, 0) /\ a = <<>> /\ b = <<>> /\ ~y.err
              /\ resp.whole => left = 0 /\ Len(got) = Len(w) /\ c = <<>>
  <2>1. a = <<>> /\ b = <<>> /\ c = net /\ ~y.err
    BY <1>8, <1>10, <1>16, Zenon DEF Outcome
  <2>2. resp.whole => left = 0 /\ Len(got) = Len(w) /\ net = <<>>
    BY <1>1, <1>9, <1>16 DEF GivenInv
  <2> QED
    BY <1>13, <1>14, <2>1, <2>2, Zenon
<1>17. /\ Stands(g, w, 0)
       /\ conn' # "held" => /\ a = <<>> /\ b = <<>>
                            /\ resp.whole => left = 0 /\ Len(got) = Len(w) /\ c = <<>>
       /\ resp.whole => ~y.err
  BY <1>12, <1>15, <1>16
<1>18. CASE y.err
  <2>1. /\ at' = "idle" /\ result' = "error" /\ part' = <<>> /\ scratch' = <<>> /\ got' = got /\ left' = left
        /\ conn' # "held"
    BY <1>2, <1>12, <1>18 DEF Fail
  <2>2. Seen' = got
    BY <1>13, <2>1 DEF Seen
  <2>3. TypeInv'
    BY <1>1, <1>3, <1>11, <1>12, <1>13, <2>1 DEF TypeInv
  <2>4. CallInv'
    BY <1>1, <1>3, <1>4, <1>11, <2>1 DEF CallInv
  <2>5. GivenInv'
    BY <1>1, <1>9, <1>11, <1>14, <1>17, <1>18, <2>1, <2>2 DEF GivenInv
  <2>6. PlaceInv'
    BY <2>1 DEF PlaceInv
  <2>7. StreamLike
    BY <1>11, <1>12, <1>18, <2>1 DEF StreamLike
  <2> QED
    BY <2>3, <2>4, <2>5, <2>6, <2>7 DEF Inv
<1>19. CASE ~y.err /\ left - Len(a) = 0
  <2>1. at' = "tidy" /\ left' = 0 /\ part' = a /\ scratch' = <<>> /\ got' = got /\ result' = result
    BY <1>2, <1>7, <1>8, <1>19 DEF Goto
  <2>2. Seen' = g
    BY <1>8, <2>1 DEF Seen
  <2>3. TypeInv'
    BY <1>1, <1>3, <1>4, <1>11, <1>12, <1>13, <2>1 DEF TypeInv
  <2>4. CallInv'
    BY <1>1, <1>3, <1>4, <1>6, <1>11, <1>12, <2>1 DEF CallInv
  <2>5. GivenInv'
    BY <1>1, <1>9, <1>11, <1>12, <1>17, <1>19, <2>1, <2>2 DEF GivenInv
  <2>6. PlaceInv'
    BY <1>1, <1>8, <1>11, <1>12, <1>15, <1>19, <2>1, <2>2 DEF PlaceInv, LengthAt, At
  <2>7. StreamLike
    BY <1>11, <1>12, <2>1 DEF StreamLike
  <2> QED
    BY <2>3, <2>4, <2>5, <2>6, <2>7 DEF Inv
<1>20. CASE ~y.err /\ left - Len(a) # 0
  <2>1. /\ at' = "idle" /\ left' = left - Len(a) /\ part' = <<>> /\ scratch' = <<>> /\ got' = g
        /\ result' = IF a = <<>> THEN "end" ELSE "more"
    BY <1>2, <1>8, <1>20 DEF Return
  <2>2. Seen' = g
    BY <1>13, <2>1, NothingAdded DEF Seen
  <2>3. left' \in Nat
    BY <1>4, <1>6, <1>12, <2>1
  <2>4. TypeInv'
    BY <1>1, <1>3, <1>4, <1>11, <1>12, <1>13, <2>1, <2>3 DEF TypeInv
  <2>5. CallInv'
    BY <1>1, <1>3, <1>4, <1>11, <2>1 DEF CallInv
  <2>6. GivenInv'
    BY <1>1, <1>9, <1>11, <1>12, <1>13, <1>17, <1>20, <2>1, <2>2 DEF GivenInv
  <2>7. PlaceInv'
    BY <1>1, <1>8, <1>11, <1>12, <1>15, <1>20, <2>1, <2>2 DEF PlaceInv, LengthAt, At
  <2>8. StreamLike
    <3>1. Len(a) <= cb /\ resp' = resp /\ (conn # "held" => conn' # "held") /\ (a # <<>> => result # "end")
      BY <1>4, <1>6, <1>11, <1>12
    <3>2. got' = got \o a /\ a \in Seq(Bytes) /\ cb \in ReadSizes
      BY <1>4, <1>8, <1>12, <2>1, Zenon
    <3> QED
      BY <2>1, <3>1, <3>2, Zenon DEF StreamLike
  <2> QED
    BY <2>4, <2>5, <2>6, <2>7, <2>8 DEF Inv
<1> QED
  BY <1>12, <1>18, <1>19, <1>20

\* connectionWillClose::Read: what it returns is what the response has next.
LEMMA CloseReadStep ==
  ASSUME Inv, CloseRead
  PROVE  Inv' /\ StreamLike
<1>1. at = "data" /\ resp.kind = "close" /\ TypeInv /\ CallInv /\ GivenInv /\ PlaceInv
  BY DEF CloseRead, Inv
<1>2. PICK y \in Yield(cb) : Reads(y, <<>>) /\ IF y.err THEN Fail ELSE Return(y.bytes)
  BY DEF CloseRead
<1>3. UNCHANGED <<state, left, cb>>
  BY DEF CloseRead
<1>4. cb \in ReadSizes /\ cb \in Nat /\ cb > 0 /\ left \in Nat
  BY <1>1, DecoderConstants DEF TypeInv
<1>7. part = <<>> /\ scratch = <<>> /\ resp \in Response /\ resp.close /\ got \in Seq(Bytes)
  BY <1>1, ResponseParts DEF TypeInv, CallInv
<1>8. PICK a, b, c, w, g : a = y.bytes /\ b = y.buf /\ c = y.net /\ w = Wire(resp) /\ g = got \o a
  OBVIOUS
<1>9. w = Body(resp) /\ w \in Seq(Bytes) /\ Len(w) \in Nat
  BY <1>1, <1>7, <1>8, WireIs
<1>10. Outcome(cb, y)
  BY <1>1, <1>4, ReadIs
<1>11. net' = c /\ buf' = b /\ conn' = ConnAfter(y) /\ resp' = resp
  <2>1. net' = c /\ buf' = <<>> \o b /\ conn' = ConnAfter(y) /\ resp' = resp
    BY <1>2, <1>8, Zenon DEF Reads
  <2> QED
    BY <1>8, <1>10, <2>1, NothingAdded, Zenon DEF Outcome
<1>12. /\ a \in Seq(Bytes) /\ b \in Seq(Bytes) /\ c \in Seq(Bytes)
       /\ y.err \in BOOLEAN /\ Len(a) \in Nat /\ Len(a) <= cb
       /\ y.err => a = <<>> /\ conn = "held"
       /\ conn' \in {"held", "broken", "pooled", "closed"}
       /\ conn' = "held" <=> conn = "held" /\ ~y.err /\ a # <<>>
       /\ result = "end" => a = <<>> /\ ~y.err
  BY <1>8, <1>10, <1>11, Zenon DEF Outcome
<1>13. /\ g \in Seq(Bytes) /\ Len(g) = Len(got) + Len(a) /\ Len(got) \in Nat /\ Len(g) \in Nat
       /\ a = <<>> => g = got /\ Len(a) = 0
       /\ got \o <<>> = got /\ Seen = got
  BY <1>7, <1>8, <1>12, BytesAdded, NothingAdded, Zenon DEF Seen
<1>14. Stands(got, w, 0)
  BY <1>1, <1>9, <1>13 DEF GivenInv
<1>15. ASSUME conn = "held"
       PROVE  /\ Stands(g, w, 0)
              /\ \E p \in 0..Len(w) : Reading(resp, b, c, p) /\ p = Len(g)
              /\ a = <<>> => b = <<>> /\ (resp.whole => Len(got) = Len(w) /\ c = <<>>)
              /\ resp.whole => ~y.err
  <2>1. PICK p \in 0..Len(w) : At(p) /\ p = Len(got)
    BY <1>1, <1>8, <1>13, <1>15 DEF PlaceInv, CloseAt
  <2>2. /\ Stands(a, w, p)
        /\ Reading(resp, b, c, p + Len(a))
        /\ a = <<>> => /\ b = <<>>
                       /\ resp.whole => p = Len(w) /\ c = <<>> /\ ~y.err
    <3>1. p \in Nat
      BY <2>1
    <3> QED
      BY <1>4, <1>7, <1>8, <1>10, <1>15, <2>1, <3>1, Zenon DEF Outcome
  <2>3. Stands(g, w, 0)
    <3>1. Stands(a, w, 0 + Len(got)) /\ 0 \in Nat
      BY <2>1, <2>2
    <3> QED
      BY <1>7, <1>8, <1>9, <1>12, <1>14, <3>1, StandsConcat
  <2>4. p + Len(a) = Len(g) /\ p + Len(a) \in 0..Len(w)
    <3>1. p + Len(a) <= Len(w)
      BY <2>2 DEF Stands
    <3> QED
      BY <1>4, <1>9, <1>12, <1>13, <2>1, <3>1
  <2>5. \E q \in 0..Len(w) : Reading(resp, b, c, q) /\ q = Len(g)
    BY <2>2, <2>4, Zenon
  <2>6. a = <<>> => b = <<>> /\ (resp.whole => Len(got) = Len(w) /\ c = <<>>)
    BY <2>1, <2>2, Zenon
  <2> QED
    BY <1>12, <2>2, <2>3, <2>5, <2>6, Zenon
<1>16. ASSUME conn # "held"
       PROVE  /\ Stands(g, w, 0) /\ a = <<>> /\ b = <<>> /\ ~y.err
              /\ resp.whole => Len(got) = Len(w) /\ c = <<>>
  <2>1. a = <<>> /\ b = <<>> /\ c = net /\ ~y.err
    BY <1>8, <1>10, <1>16, Zenon DEF Outcome
  <2>2. resp.whole => Len(got) = Len(w) /\ net = <<>>
    BY <1>1, <1>9, <1>16 DEF GivenInv
  <2> QED
    BY <1>13, <1>14, <2>1, <2>2, Zenon
<1>17. /\ Stands(g, w, 0)
       /\ conn' # "held" => a = <<>> /\ b = <<>> /\ (resp.whole => Len(got) = Len(w) /\ c = <<>>)
       /\ resp.whole => ~y.err
  BY <1>12, <1>15, <1>16
<1>18. CASE y.err
  <2>1. /\ at' = "idle" /\ result' = "error" /\ part' = <<>> /\ scratch' = <<>> /\ got' = got
        /\ conn' # "held"
    BY <1>2, <1>12, <1>18 DEF Fail
  <2>2. Seen' = got
    BY <1>13, <2>1 DEF Seen
  <2>3. TypeInv'
    BY <1>1, <1>3, <1>11, <1>12, <1>13, <2>1 DEF TypeInv
  <2>4. CallInv'
    BY <1>1, <1>3, <1>4, <1>11, <2>1 DEF CallInv
  <2>5. GivenInv'
    BY <1>1, <1>9, <1>11, <1>14, <1>17, <1>18, <2>1, <2>2 DEF GivenInv
  <2>6. PlaceInv'
    BY <2>1 DEF PlaceInv
  <2>7. StreamLike
    BY <1>11, <1>12, <1>18, <2>1 DEF StreamLike
  <2> QED
    BY <2>3, <2>4, <2>5, <2>6, <2>7 DEF Inv
<1>20. CASE ~y.err
  <2>1. /\ at' = "idle" /\ part' = <<>> /\ scratch' = <<>> /\ got' = g
        /\ result' = IF a = <<>> THEN "end" ELSE "more"
    BY <1>2, <1>8, <1>20 DEF Return
  <2>2. Seen' = g
    BY <1>13, <2>1, NothingAdded DEF Seen
  <2>4. TypeInv'
    BY <1>1, <1>3, <1>4, <1>11, <1>12, <1>13, <2>1 DEF TypeInv
  <2>5. CallInv'
    BY <1>1, <1>3, <1>4, <1>11, <2>1 DEF CallInv
  <2>6. GivenInv'
    BY <1>1, <1>9, <1>11, <1>12, <1>13, <1>17, <1>20, <2>1, <2>2 DEF GivenInv
  <2>7. PlaceInv'
    BY <1>1, <1>8, <1>11, <1>12, <1>15, <1>20, <2>1, <2>2 DEF PlaceInv, CloseAt, At
  <2>8. StreamLike
    <3>1. Len(a) <= cb /\ resp' = resp /\ (conn # "held" => conn' # "held") /\ (a # <<>> => result # "end")
      BY <1>4, <1>11, <1>12
    <3>2. got' = got \o a /\ a \in Seq(Bytes) /\ cb \in ReadSizes
      BY <1>4, <1>8, <1>12, <2>1, Zenon
    <3> QED
      BY <2>1, <3>1, <3>2, Zenon DEF StreamLike
  <2> QED
    BY <2>4, <2>5, <2>6, <2>7, <2>8 DEF Inv
<1> QED
  BY <1>12, <1>18, <1>20

\* A response that is read to its end has nothing left.
LEMMA NothingLeft ==
  ASSUME NEW r, NEW b \in Seq(Bytes), NEW c \in Seq(Bytes), Reading(r, b, c, Len(Wire(r))), Wire(r) \in Seq(Bytes)
  PROVE  b = <<>> /\ (r.whole => c = <<>>)
<1>1. PICK n : n = Len(Wire(r))
  OBVIOUS
<1>2. n \in Nat /\ n + Len(b) <= n /\ (r.whole => n + Len(b) + Len(c) = n)
  BY <1>1 DEF Reading, Stands
<1>3. PICK m, l \in Nat : m = Len(b) /\ l = Len(c) /\ (m = 0 => b = <<>>) /\ (l = 0 => c = <<>>)
  OBVIOUS
<1>4. m = 0 /\ (r.whole => l = 0)
  BY <1>2, <1>3
<1> QED
  BY <1>3, <1>4

\* The read of nothing at the end finds nothing of the response left.
LEMMA TidyStep ==
  ASSUME Inv, Tidy
  PROVE  Inv' /\ StreamLike
<1>1. at = "tidy" /\ TypeInv /\ CallInv /\ GivenInv /\ PlaceInv
  BY DEF Tidy, Inv
<1>2. PICK y \in Yield(0) : Reads(y, <<>>)
  BY DEF Tidy
<1>3. /\ at' = "idle" /\ got' = Seen /\ result' = (IF part = <<>> THEN "end" ELSE "more")
      /\ scratch' = <<>> /\ part' = <<>>
      /\ state' = (IF resp.kind = "chunked" THEN "done" ELSE state)
      /\ left' = left /\ cb' = cb
  BY DEF Tidy, Return, Seen
<1>4. cb \in ReadSizes /\ cb \in Nat /\ cb > 0 /\ left \in Nat
  BY <1>1, DecoderConstants DEF TypeInv
<1>5. resp \in Response /\ got \in Seq(Bytes) /\ part \in Seq(Bytes) /\ Len(part) <= cb /\ scratch = <<>>
      /\ resp.kind \in {"length", "chunked"}
  BY <1>1, ResponseParts DEF TypeInv, CallInv
<1>6. PICK a, b, c, w : a = y.bytes /\ b = y.buf /\ c = y.net /\ w = Wire(resp)
  OBVIOUS
<1>7. w \in Seq(Bytes) /\ Len(w) \in Nat /\ Body(resp) \in Seq(Bytes) /\ (resp.kind = "length" => w = Body(resp))
  BY <1>5, <1>6, WireIs, BodyIs
<1>8. Outcome(0, y)
  <2>1. at # "idle" /\ 0 \in Nat
    BY <1>1
  <2> QED
    BY <2>1, ReadIs
<1>9. net' = c /\ buf' = b /\ conn' = ConnAfter(y) /\ resp' = resp
  <2>1. net' = c /\ buf' = <<>> \o b /\ conn' = ConnAfter(y) /\ resp' = resp
    BY <1>2, <1>6, Zenon DEF Reads
  <2> QED
    BY <1>6, <1>8, <2>1, NothingAdded, Zenon DEF Outcome
<1>10. /\ a \in Seq(Bytes) /\ b \in Seq(Bytes) /\ c \in Seq(Bytes) /\ Len(a) \in Nat /\ Len(a) <= 0
       /\ y.err => a = <<>> /\ conn = "held"
       /\ conn' \in {"held", "broken", "pooled", "closed"}
       /\ conn' = "held" <=> conn = "held" /\ ~y.err /\ a # <<>>
       /\ result = "end" => part = <<>>
  BY <1>6, <1>8, <1>9, Zenon DEF Outcome
<1>11. a = <<>> /\ Len(a) = 0 /\ conn' # "held"
  BY <1>10
<1>12. Seen \in Seq(Bytes) /\ Stands(Seen, Body(resp), 0)
  BY <1>1, <1>5, BytesAdded DEF Seen, GivenInv
<1>13. ASSUME conn = "held"
       PROVE  b = <<>> /\ Len(Seen) = Len(Body(resp)) /\ (resp.whole => c = <<>>) /\ (resp.kind = "length" => left = 0)
  <2>1. PICK p \in 0..Len(w) : /\ At(p) /\ p = Len(w) /\ Len(Seen) = Len(Body(resp))
                               /\ resp.kind = "length" => left = 0
    BY <1>1, <1>4, <1>5, <1>6, <1>7, <1>13 DEF PlaceInv, ChunkedAt, TidyAt, LengthAt
  <2>2. Reading(resp, b, c, p + Len(a)) /\ p \in Nat
    BY <1>6, <1>7, <1>8, <1>13, <2>1, Zenon DEF Outcome
  <2>3. Reading(resp, b, c, Len(w))
    BY <1>7, <1>11, <2>1, <2>2
  <2>4. b = <<>> /\ (resp.whole => c = <<>>)
    BY <1>6, <1>7, <1>10, <2>3, NothingLeft, Zenon
  <2> QED
    BY <2>1, <2>4
<1>14. ASSUME conn # "held"
       PROVE  /\ b = <<>>
              /\ resp.whole => /\ c = <<>> /\ Seen = got /\ Len(got) = Len(Body(resp))
                               /\ resp.kind = "length" => left = 0
  <2>1. b = <<>> /\ c = net
    BY <1>6, <1>8, <1>14, Zenon DEF Outcome
  <2>2. resp.whole => /\ net = <<>> /\ part = <<>> /\ Len(got) = Len(Body(resp))
                      /\ resp.kind = "length" => left = 0
    BY <1>1, <1>14 DEF GivenInv
  <2> QED
    BY <1>5, <2>1, <2>2, NothingAdded, Zenon DEF Seen
<1>15. /\ b = <<>>
       /\ resp.whole => c = <<>> /\ Len(Seen) = Len(Body(resp)) /\ (resp.kind = "length" => left = 0)
  <2>1. CASE conn = "held"
    BY <1>13, <2>1, Zenon
  <2>2. CASE conn # "held"
    BY <1>14, <2>2, Zenon
  <2> QED
    BY <2>1, <2>2
<1>16. Seen' = Seen
  <2>1. Seen' = Seen \o <<>>
    BY <1>3 DEF Seen
  <2> QED
    BY <1>12, <2>1, NothingAdded
<1>17. TypeInv'
  BY <1>1, <1>3, <1>9, <1>10, <1>12 DEF TypeInv
<1>18. CallInv'
  BY <1>1, <1>3, <1>4, <1>5, <1>9 DEF CallInv
<1>19. GivenInv'
  BY <1>1, <1>3, <1>5, <1>9, <1>11, <1>12, <1>15, <1>16 DEF GivenInv
<1>20. PlaceInv'
  BY <1>11 DEF PlaceInv
<1>21. StreamLike
  <2>1. got' = got \o part /\ part \in Seq(Bytes) /\ cb \in ReadSizes
    BY <1>3, <1>4, <1>5, Zenon DEF Seen
  <2> QED
    BY <1>3, <1>5, <1>9, <1>10, <1>11, <2>1, Zenon DEF StreamLike
<1> QED
  BY <1>17, <1>18, <1>19, <1>20, <1>21 DEF Inv

\* A call after the last one returns an end, once the connection is given up.
LEMMA DoneReadStep ==
  ASSUME Inv, DoneRead
  PROVE  Inv' /\ StreamLike
<1>1. at = "done" /\ TypeInv /\ CallInv /\ GivenInv /\ PlaceInv
  BY DEF DoneRead, Inv
<1>2. /\ at' = "idle" /\ got' = got \o <<>> /\ result' = "end" /\ scratch' = <<>> /\ part' = <<>>
      /\ UNCHANGED <<resp, net, conn, buf, state, left, cb>>
  BY DEF DoneRead, Return
<1>3. cb \in ReadSizes /\ cb \in Nat /\ cb > 0 /\ resp \in Response /\ got \in Seq(Bytes) /\ part = <<>>
      /\ resp.kind = "chunked" /\ scratch = <<>>
  BY <1>1, DecoderConstants, ResponseParts DEF TypeInv, CallInv
<1>4. got \o <<>> = got /\ <<>> \in Seq(Bytes) /\ Len(<<>>) = 0
  BY <1>3, NothingAdded
<1>5. got' = got /\ Seen' = got /\ Seen = got
  BY <1>2, <1>3, <1>4 DEF Seen
<1>6. conn # "held"
  BY <1>1, <1>3 DEF PlaceInv, ChunkedAt
<1>7. TypeInv'
  BY <1>1, <1>2, <1>3, <1>4, <1>5 DEF TypeInv
<1>8. CallInv'
  BY <1>1, <1>2, <1>3 DEF CallInv
<1>9. GivenInv'
  BY <1>1, <1>2, <1>5, <1>6 DEF GivenInv
<1>10. PlaceInv'
  BY <1>2, <1>6 DEF PlaceInv
<1>11. StreamLike
  <2>1. Len(<<>>) <= cb
    BY <1>3, <1>4
  <2> QED
    BY <1>2, <1>3, <1>4, <1>6, <2>1, Zenon DEF StreamLike
<1> QED
  BY <1>7, <1>8, <1>9, <1>10, <1>11 DEF Inv

\* A chunk that is not the last, in numbers.
LEMMA ChunkIs ==
  ASSUME NEW r \in Response, r.kind = "chunked", NEW i \in 1..LastChunk(r), i # LastChunk(r)
  PROVE  /\ i \in 1..LastChunk(r) - 1 /\ i + 1 \in 1..LastChunk(r)
         /\ Size(r, i) \in Nat /\ Size(r, i) > 0 /\ Base(r, i) \in Nat /\ DataAt(r, i) \in Nat
         /\ Data(r, i) \in Seq(Bytes) /\ Len(Data(r, i)) = Size(r, i)
         /\ Stands(Data(r, i), Wire(r), DataAt(r, i)) /\ Stands(Data(r, i), Body(r), Base(r, i))
         /\ Start(r, i + 1) = DataAt(r, i) + Size(r, i) + 2
         /\ Base(r, i + 1) = Base(r, i) + Size(r, i)
         /\ Start(r, i + 1) < Len(Wire(r))
<1>1. i \in 1..Len(r.chunks) /\ i \in 1..LastChunk(r) - 1 /\ i + 1 \in 1..LastChunk(r) /\ r.ext \in Nat
  BY ResponseParts DEF LastChunk
<1>2. ChunkPlaces(r, i) /\ ChunkPlaces(r, i + 1)
  BY <1>1, Places
<1>3. /\ Start(r, i) \in Nat /\ Base(r, i) \in Nat /\ Size(r, i) \in Nat
      /\ Size(r, i) = r.chunks[i] /\ Size(r, i) > 0
      /\ Stands(Data(r, i), Wire(r), DataAt(r, i))
      /\ Stands(Data(r, i), Body(r), Base(r, i))
      /\ Start(r, i + 1) = Start(r, i) + r.ext + 3 + Size(r, i) + 2
      /\ Base(r, i + 1) = Base(r, i) + Size(r, i)
  BY <1>2, Zenon DEF ChunkPlaces
<1>4. Data(r, i) \in Seq(Bytes) /\ Len(Data(r, i)) = Size(r, i)
  BY <1>1, <1>3, DataIs, Zenon
<1>5. DataAt(r, i) \in Nat /\ Start(r, i + 1) = DataAt(r, i) + Size(r, i) + 2
  BY <1>1, <1>3, SMTT(30) DEF DataAt
<1>6. Start(r, i + 1) < Len(Wire(r))
  <2>1. Stands(SizeLine(r, Size(r, i + 1)), Wire(r), Start(r, i + 1)) /\ Size(r, i + 1) \in Nat /\ Start(r, i + 1) \in Nat
    BY <1>2, Zenon DEF ChunkPlaces
  <2>2. Len(SizeLine(r, Size(r, i + 1))) = r.ext + 3
    BY <2>1, SizeLineIs, Zenon
  <2>3. PICK m, l : m = r.ext + 3 /\ l = Len(Wire(r)) /\ l \in Nat
    BY WireIs
  <2>4. m \in Nat /\ m > 0
    BY <1>1, <2>3
  <2>5. Start(r, i + 1) + m <= l
    BY <2>1, <2>2, <2>3, Zenon DEF Stands
  <2> QED
    BY <2>1, <2>3, <2>4, <2>5
<1> QED
  BY <1>1, <1>3, <1>4, <1>5, <1>6, Zenon

\* The data of a chunk: what is read of it is what the body has next.
LEMMA ChunkReadStep ==
  ASSUME Inv, ChunkRead
  PROVE  Inv' /\ StreamLike
<1>1. at = "data" /\ resp.kind = "chunked" /\ TypeInv /\ CallInv /\ GivenInv /\ PlaceInv
  BY DEF ChunkRead, Inv
<1>2. PICK y \in Yield(Ask) :
        /\ Reads(y, <<>>)
        /\ IF y.err THEN Fail /\ UNCHANGED <<state, left>>
           ELSE /\ left' = left - Len(y.bytes)
                /\ IF left' = 0
                   THEN /\ state' = "term" /\ Goto("term")
                        /\ part' = y.bytes /\ UNCHANGED scratch
                   ELSE Return(y.bytes) /\ UNCHANGED state
  BY DEF ChunkRead
<1>3. cb' = cb
  BY DEF ChunkRead
<1>4. cb \in ReadSizes /\ cb \in Nat /\ cb > 0 /\ left \in Nat /\ left > 0 /\ state = "data"
  BY <1>1, DecoderConstants DEF TypeInv, CallInv
<1>5. PICK n : n = Ask
  OBVIOUS
<1>6. n \in Nat /\ n <= left /\ n <= cb /\ n > 0 /\ y \in Yield(n)
  BY <1>4, <1>5 DEF Ask, Least
<1>7. part = <<>> /\ scratch = <<>> /\ resp \in Response /\ got \in Seq(Bytes)
  BY <1>1 DEF TypeInv, CallInv
<1>8. PICK a, b, c, w, v, g :
        a = y.bytes /\ b = y.buf /\ c = y.net /\ w = Wire(resp) /\ v = Body(resp) /\ g = got \o a
  OBVIOUS
<1>9. w \in Seq(Bytes) /\ Len(w) \in Nat /\ v \in Seq(Bytes)
  BY <1>7, <1>8, WireIs, BodyIs
<1>10. Outcome(n, y)
  BY <1>1, <1>6, ReadIs
<1>11. net' = c /\ buf' = b /\ conn' = ConnAfter(y) /\ resp' = resp
  <2>1. net' = c /\ buf' = <<>> \o b /\ conn' = ConnAfter(y) /\ resp' = resp
    BY <1>2, <1>8, Zenon DEF Reads
  <2> QED
    BY <1>8, <1>10, <2>1, NothingAdded, Zenon DEF Outcome
<1>12. /\ a \in Seq(Bytes) /\ b \in Seq(Bytes) /\ c \in Seq(Bytes)
       /\ y.err \in BOOLEAN /\ Len(a) \in Nat /\ Len(a) <= n
       /\ y.err => a = <<>> /\ conn = "held"
       /\ conn' \in {"held", "broken", "pooled", "closed"}
       /\ conn' = "held" <=> conn = "held" /\ ~y.err /\ a # <<>>
       /\ result = "end" => a = <<>> /\ ~y.err
  BY <1>8, <1>10, <1>11, Zenon DEF Outcome
<1>13. /\ g \in Seq(Bytes) /\ Len(g) = Len(got) + Len(a) /\ Len(got) \in Nat /\ Len(g) \in Nat
       /\ a = <<>> => g = got /\ Len(a) = 0
       /\ got \o <<>> = got /\ Seen = got /\ Len(<<>>) = 0
  BY <1>7, <1>8, <1>12, BytesAdded, NothingAdded, Zenon DEF Seen
<1>14. Stands(got, v, 0)
  BY <1>1, <1>8, <1>13 DEF GivenInv
<1>15. ASSUME conn = "held"
       PROVE  /\ Stands(g, v, 0)
              /\ \E i \in 1..LastChunk(resp) : \E p \in 0..Len(w) :
                   /\ i \in 1..LastChunk(resp) - 1
                   /\ Reading(resp, b, c, p)
                   /\ left - Len(a) \in 0..Size(resp, i)
                   /\ p = DataAt(resp, i) + Size(resp, i) - (left - Len(a))
                   /\ Len(g) = Base(resp, i) + Size(resp, i) - (left - Len(a))
                   /\ Base(resp, i + 1) = Base(resp, i) + Size(resp, i)
                   /\ Size(resp, i) \in Nat /\ Base(resp, i) \in Nat /\ DataAt(resp, i) \in Nat
              /\ a = <<>> => b = <<>> /\ ~resp.whole
  <2>1. PICK p \in 0..Len(w), i \in 1..LastChunk(resp) : At(p) /\ DataIn(i, p)
    BY <1>1, <1>4, <1>8, <1>15 DEF PlaceInv, ChunkedAt
  <2>2. PICK z, da, ba, d, l, la : z = Size(resp, i) /\ da = DataAt(resp, i) /\ ba = Base(resp, i) /\ d = Data(resp, i)
                                /\ l = Len(w) /\ la = Len(a)
    OBVIOUS
  <2>3. i \in 1..LastChunk(resp) - 1 /\ i # LastChunk(resp)
    BY <1>7, <2>1, ResponseParts DEF DataIn, LastChunk
  <2>4. /\ z \in Nat /\ z > 0 /\ ba \in Nat /\ da \in Nat
        /\ d \in Seq(Bytes) /\ Len(d) = z /\ Stands(d, w, da) /\ Stands(d, v, ba)
        /\ Base(resp, i + 1) = ba + z
    BY <1>1, <1>7, <1>8, <2>2, <2>3, ChunkIs, Zenon
  <2>5. left \in 1..z /\ Len(got) = ba + z - left /\ p = da + z - left
    BY <2>1, <2>2, Zenon DEF DataIn
  <2>6. PICK k \in Nat : k = z - left
    BY <2>4, <2>5
  <2>7. p = da + k /\ Len(got) = ba + k /\ k < z
    BY <2>4, <2>5, <2>6
  <2>8. p \in Nat /\ p < l /\ l \in Nat
    <3>1. da + z <= l
      BY <2>2, <2>4, Zenon DEF Stands
    <3>2. l \in Nat
      BY <1>9, <2>2
    <3> QED
      BY <2>4, <2>6, <2>7, <3>1, <3>2
  <2>9. Stands(a, w, p) /\ Reading(resp, b, c, p + la) /\ (a = <<>> => b = <<>> /\ (resp.whole => p = l))
    BY <1>6, <1>8, <1>10, <1>15, <2>1, <2>2, <2>8, Zenon DEF Outcome
  <2>10. a = <<>> => b = <<>> /\ ~resp.whole
    BY <2>8, <2>9
  <2>11. la \in Nat /\ la <= left /\ k + la <= z
    <3>1. la \in Nat /\ la <= n
      BY <1>12, <2>2
    <3> QED
      BY <1>4, <1>6, <2>4, <2>6, <3>1
  <2>12. Stands(a, v, ba + k)
    <3>1. k + Len(a) <= Len(d) /\ Stands(a, w, da + k)
      BY <2>2, <2>4, <2>7, <2>9, <2>11, Zenon
    <3> QED
      BY <1>9, <1>12, <2>4, <2>6, <3>1, Without, Zenon
  <2>13. Stands(g, v, 0)
    <3>1. Stands(a, v, 0 + Len(got)) /\ 0 \in Nat
      BY <1>13, <2>7, <2>12
    <3> QED
      BY <1>7, <1>8, <1>9, <1>12, <1>14, <3>1, StandsConcat
  <2>14. p + la \in 0..l
    <3>1. p + la <= l
      BY <2>2, <2>9, Zenon DEF Stands
    <3> QED
      BY <2>8, <2>11, <3>1
  <2>15. left - la \in 0..z /\ p + la = da + z - (left - la)
    BY <1>4, <2>4, <2>5, <2>11
  <2>16. Len(g) = ba + z - (left - la)
    <3>1. Len(g) = ba + k + la
      BY <1>13, <2>2, <2>7, Zenon
    <3> QED
      BY <1>4, <2>4, <2>6, <2>11, <3>1
  <2>17. \E q \in 0..Len(w) :
           /\ Reading(resp, b, c, q)
           /\ left - Len(a) \in 0..Size(resp, i)
           /\ q = DataAt(resp, i) + Size(resp, i) - (left - Len(a))
           /\ Len(g) = Base(resp, i) + Size(resp, i) - (left - Len(a))
           /\ Base(resp, i + 1) = Base(resp, i) + Size(resp, i)
           /\ Size(resp, i) \in Nat /\ Base(resp, i) \in Nat /\ DataAt(resp, i) \in Nat
    BY <2>2, <2>4, <2>9, <2>14, <2>15, <2>16, Zenon
  <2> QED
    BY <2>1, <2>3, <2>10, <2>13, <2>17, Zenon
<1>16. ASSUME conn # "held"
       PROVE  Stands(g, v, 0) /\ a = <<>> /\ b = <<>> /\ ~y.err /\ ~resp.whole
  <2>1. a = <<>> /\ b = <<>> /\ ~y.err
    BY <1>8, <1>10, <1>16, Zenon DEF Outcome
  <2>2. ~resp.whole
    BY <1>1, <1>4, <1>16 DEF GivenInv
  <2> QED
    BY <1>13, <1>14, <2>1, <2>2, Zenon
<1>17. /\ Stands(g, v, 0)
       /\ conn' # "held" => a = <<>> /\ b = <<>> /\ ~resp.whole
  BY <1>12, <1>15, <1>16
<1>18. CASE y.err
  <2>1. /\ at' = "idle" /\ result' = "error" /\ part' = <<>> /\ scratch' = <<>> /\ got' = got /\ left' = left
        /\ conn' # "held" /\ state' = "data"
    BY <1>2, <1>4, <1>12, <1>18 DEF Fail
  <2>2. Seen' = got
    BY <1>13, <2>1 DEF Seen
  <2>3. TypeInv'
    BY <1>1, <1>3, <1>11, <1>12, <1>13, <2>1 DEF TypeInv
  <2>4. CallInv'
    BY <1>1, <1>3, <1>4, <1>11, <2>1 DEF CallInv
  <2>5. GivenInv'
    BY <1>1, <1>8, <1>11, <1>14, <1>17, <1>18, <2>1, <2>2 DEF GivenInv
  <2>6. PlaceInv'
    BY <2>1 DEF PlaceInv
  <2>7. StreamLike
    BY <1>11, <1>12, <1>18, <2>1 DEF StreamLike
  <2> QED
    BY <2>3, <2>4, <2>5, <2>6, <2>7 DEF Inv
<1>19. CASE ~y.err /\ left - Len(a) = 0
  <2>1. /\ at' = "term" /\ state' = "term" /\ left' = 0 /\ part' = a /\ scratch' = <<>> /\ got' = got
        /\ result' = result
    BY <1>2, <1>7, <1>8, <1>19 DEF Goto
  <2>2. Seen' = g
    BY <1>8, <2>1 DEF Seen
  <2>3. conn = "held" /\ a # <<>> /\ conn' = "held"
    BY <1>4, <1>12, <1>13, <1>16, <1>19
  <2>4. TypeInv'
    BY <1>1, <1>3, <1>4, <1>11, <1>12, <1>13, <2>1 DEF TypeInv
  <2>5. CallInv'
    BY <1>1, <1>3, <1>4, <1>6, <1>11, <1>12, <1>13, <2>1 DEF CallInv
  <2>6. GivenInv'
    BY <1>1, <1>8, <1>11, <1>12, <1>17, <2>1, <2>2, <2>3 DEF GivenInv
  <2>7. PlaceInv'
    <3>1. PICK i \in 1..LastChunk(resp), p \in 0..Len(w) :
            /\ i \in 1..LastChunk(resp) - 1 /\ Reading(resp, b, c, p)
            /\ p = DataAt(resp, i) + Size(resp, i) - 0
            /\ Len(g) = Base(resp, i) + Size(resp, i) - 0
            /\ Base(resp, i + 1) = Base(resp, i) + Size(resp, i)
            /\ Size(resp, i) \in Nat /\ Base(resp, i) \in Nat /\ DataAt(resp, i) \in Nat
      BY <1>15, <1>19, <2>3
    <3>2. p = DataAt(resp, i) + Size(resp, i) + 0 /\ Len(g) = Base(resp, i + 1)
      BY <3>1
    <3>3. TermAt(i, p)'
      BY <1>11, <1>13, <2>1, <2>2, <2>3, <3>1, <3>2, Zenon DEF TermAt
    <3>4. At(p)'
      BY <1>11, <3>1, Zenon DEF At
    <3> QED
      BY <1>1, <1>8, <1>11, <2>1, <3>1, <3>3, <3>4 DEF PlaceInv, ChunkedAt
  <2>8. StreamLike
    BY <1>11, <1>12, <2>1, <2>3 DEF StreamLike
  <2> QED
    BY <2>4, <2>5, <2>6, <2>7, <2>8 DEF Inv
<1>20. CASE ~y.err /\ left - Len(a) # 0
  <2>1. /\ at' = "idle" /\ left' = left - Len(a) /\ part' = <<>> /\ scratch' = <<>> /\ got' = g /\ state' = "data"
        /\ result' = IF a = <<>> THEN "end" ELSE "more"
    BY <1>2, <1>4, <1>8, <1>20 DEF Return
  <2>2. Seen' = g
    BY <1>13, <2>1, NothingAdded DEF Seen
  <2>3. left' \in Nat /\ left' > 0
    BY <1>4, <1>6, <1>12, <1>20, <2>1
  <2>4. TypeInv'
    BY <1>1, <1>3, <1>4, <1>11, <1>12, <1>13, <2>1, <2>3 DEF TypeInv
  <2>5. CallInv'
    BY <1>1, <1>3, <1>4, <1>11, <2>1, <2>3 DEF CallInv
  <2>6. GivenInv'
    BY <1>1, <1>8, <1>11, <1>12, <1>17, <2>1, <2>2 DEF GivenInv
  <2>7. PlaceInv'
    <3> SUFFICES ASSUME conn' = "held" PROVE PlaceInv'
      BY DEF PlaceInv
    <3>0. conn = "held"
      BY <1>12
    <3>1. PICK i \in 1..LastChunk(resp), p \in 0..Len(w) :
            /\ i \in 1..LastChunk(resp) - 1 /\ Reading(resp, b, c, p)
            /\ left' \in 0..Size(resp, i)
            /\ p = DataAt(resp, i) + Size(resp, i) - left'
            /\ Len(g) = Base(resp, i) + Size(resp, i) - left'
            /\ Size(resp, i) \in Nat
      BY <1>15, <2>1, <3>0, Zenon
    <3>2. left' \in 1..Size(resp, i)
      BY <2>3, <3>1
    <3>3. DataIn(i, p)'
      BY <1>11, <2>1, <3>1, <3>2, Zenon DEF DataIn
    <3>4. At(p)'
      BY <1>11, <3>1, Zenon DEF At
    <3> QED
      BY <1>1, <1>8, <1>11, <2>1, <3>1, <3>3, <3>4 DEF PlaceInv, ChunkedAt
  <2>8. StreamLike
    <3>1. Len(a) <= cb /\ resp' = resp /\ (conn # "held" => conn' # "held") /\ (a # <<>> => result # "end")
      BY <1>4, <1>6, <1>11, <1>12
    <3>2. got' = got \o a /\ a \in Seq(Bytes) /\ cb \in ReadSizes
      BY <1>4, <1>8, <1>12, <2>1, Zenon
    <3> QED
      BY <2>1, <3>1, <3>2, Zenon DEF StreamLike
  <2> QED
    BY <2>4, <2>5, <2>6, <2>7, <2>8 DEF Inv
<1> QED
  BY <1>12, <1>18, <1>19, <1>20

\* The CRLF after the data: when both bytes are read the next size line begins.
LEMMA TermReadStep ==
  ASSUME Inv, TermRead
  PROVE  Inv' /\ StreamLike
<1>1. at = "term" /\ TypeInv /\ CallInv /\ GivenInv /\ PlaceInv
  BY DEF TermRead, Inv
<1>2. resp.kind = "chunked" /\ state = "term" /\ Len(scratch) < 2 /\ resp \in Response /\ Len(part) <= cb
      /\ got \in Seq(Bytes) /\ part \in Seq(Bytes) /\ scratch \in Seq(Bytes) /\ Len(scratch) \in Nat
      /\ cb \in ReadSizes /\ cb \in Nat
  BY <1>1 DEF TypeInv, CallInv
<1>3. PICK n : n = 2 - Len(scratch)
  OBVIOUS
<1>4. n \in Nat /\ n > 0 /\ Len(scratch) + n = 2
  BY <1>2, <1>3
<1>5. PICK y \in Yield(n) :
        /\ Reads(y, <<>>)
        /\ IF y.err THEN Fail /\ UNCHANGED state
           ELSE IF Len(scratch \o y.bytes) < 2
           THEN scratch' = scratch \o y.bytes /\ UNCHANGED <<state, at, part, got, result>>
           ELSE Return(part) /\ state' = "size"
  BY <1>3 DEF TermRead
<1>6. cb' = cb /\ left' = left
  BY DEF TermRead
<1>7. PICK a, b, c, w, v, s :
        a = y.bytes /\ b = y.buf /\ c = y.net /\ w = Wire(resp) /\ v = Body(resp) /\ s = scratch \o a
  OBVIOUS
<1>8. w \in Seq(Bytes) /\ Len(w) \in Nat /\ v \in Seq(Bytes)
  BY <1>2, <1>7, WireIs, BodyIs
<1>9. Outcome(n, y)
  BY <1>1, <1>4, ReadIs
<1>10. net' = c /\ buf' = b /\ conn' = ConnAfter(y) /\ resp' = resp
  <2>1. net' = c /\ buf' = <<>> \o b /\ conn' = ConnAfter(y) /\ resp' = resp
    BY <1>5, <1>7, Zenon DEF Reads
  <2> QED
    BY <1>7, <1>9, <2>1, NothingAdded, Zenon DEF Outcome
<1>11. /\ a \in Seq(Bytes) /\ b \in Seq(Bytes) /\ c \in Seq(Bytes)
       /\ y.err \in BOOLEAN /\ Len(a) \in Nat /\ Len(a) <= n
       /\ y.err => a = <<>> /\ conn = "held"
       /\ conn' \in {"held", "broken", "pooled", "closed"}
       /\ conn' = "held" <=> conn = "held" /\ ~y.err /\ a # <<>>
       /\ conn # "held" => a = <<>> /\ b = <<>> /\ c = net
       /\ result = "end" => a = <<>> /\ ~y.err /\ part = <<>>
  BY <1>7, <1>9, <1>10, Zenon DEF Outcome
<1>12. /\ s \in Seq(Bytes) /\ Len(s) = Len(scratch) + Len(a) /\ Len(s) \in Nat
       /\ a = <<>> => s = scratch
       /\ Len(<<>>) = 0 /\ <<>> \in Seq(Bytes)
  BY <1>2, <1>7, <1>11, BytesAdded, NothingAdded, Zenon
<1>13. ASSUME conn = "held"
       PROVE  /\ part # <<>>
              /\ a = <<>> => b = <<>> /\ ~resp.whole
              /\ \E i \in 1..LastChunk(resp) : \E p \in 0..Len(w) :
                   /\ i \in 1..LastChunk(resp) - 1 /\ i + 1 \in 1..LastChunk(resp)
                   /\ Reading(resp, b, c, p)
                   /\ Len(Seen) = Base(resp, i + 1)
                   /\ p = DataAt(resp, i) + Size(resp, i) + Len(s)
                   /\ Start(resp, i + 1) = DataAt(resp, i) + Size(resp, i) + 2
                   /\ Start(resp, i + 1) < Len(w) /\ Start(resp, i + 1) \in Nat
  <2>1. PICK p \in 0..Len(w), i \in 1..LastChunk(resp) : At(p) /\ TermAt(i, p)
    BY <1>1, <1>2, <1>7, <1>13 DEF PlaceInv, ChunkedAt
  <2>2. PICK z, da, st, l, la, ls :
           /\ z = Size(resp, i) /\ da = DataAt(resp, i) /\ st = Start(resp, i + 1)
           /\ l = Len(w) /\ la = Len(a) /\ ls = Len(scratch)
    OBVIOUS
  <2>3. i \in 1..LastChunk(resp) - 1 /\ i # LastChunk(resp)
    BY <1>2, <2>1, ResponseParts DEF TermAt, LastChunk
  <2>4. z \in Nat /\ da \in Nat /\ st = da + z + 2 /\ st < l /\ i + 1 \in 1..LastChunk(resp)
    BY <1>2, <1>7, <2>2, <2>3, ChunkIs, Zenon
  <2>5. part # <<>> /\ Len(Seen) = Base(resp, i + 1) /\ p = da + z + ls
    BY <2>1, <2>2, Zenon DEF TermAt
  <2>6. ls \in Nat /\ ls < 2 /\ la \in Nat /\ la <= n /\ ls + n = 2 /\ Len(s) = ls + la /\ l \in Nat
    BY <1>2, <1>4, <1>8, <1>11, <1>12, <2>2
  <2>7. p \in Nat /\ p < l /\ p + la = da + z + Len(s) /\ p + la \in 0..l
    BY <1>4, <2>4, <2>5, <2>6
  <2>8. Reading(resp, b, c, p + la) /\ (a = <<>> => b = <<>> /\ (resp.whole => p = l))
    BY <1>4, <1>7, <1>9, <1>13, <2>1, <2>2, <2>7, Zenon DEF Outcome
  <2>9. a = <<>> => b = <<>> /\ ~resp.whole
    BY <2>7, <2>8
  <2>10. st \in Nat
    BY <2>4
  <2> QED
    BY <2>2, <2>3, <2>4, <2>5, <2>7, <2>8, <2>9, <2>10, Zenon
<1>14. conn' # "held" => b = <<>> /\ a = <<>> /\ ~resp.whole
  <2>1. conn # "held" => ~resp.whole
    BY <1>1, <1>2 DEF GivenInv
  <2> QED
    BY <1>11, <1>13, <2>1
<1>15. CASE y.err
  <2>1. /\ at' = "idle" /\ result' = "error" /\ part' = <<>> /\ scratch' = <<>> /\ got' = got
        /\ conn' # "held" /\ state' = "term"
    BY <1>2, <1>5, <1>11, <1>15 DEF Fail
  <2>2. Stands(got, v, 0) /\ Seen' = got
    <3>1. Stands(Seen, v, 0) /\ 0 \in Nat
      BY <1>1, <1>7 DEF GivenInv
    <3>2. Stands(got, v, 0)
      BY <1>2, <1>8, <3>1, StandsConcat DEF Seen
    <3> QED
      BY <1>2, <2>1, <3>2, NothingAdded DEF Seen
  <2>3. TypeInv'
    BY <1>1, <1>6, <1>10, <1>11, <2>1 DEF TypeInv
  <2>4. CallInv'
    BY <1>1, <1>2, <1>6, <1>10, <2>1 DEF CallInv
  <2>5. GivenInv'
    BY <1>1, <1>7, <1>10, <1>14, <1>15, <2>1, <2>2 DEF GivenInv
  <2>6. PlaceInv'
    BY <2>1 DEF PlaceInv
  <2>7. StreamLike
    BY <1>10, <1>11, <1>15, <2>1 DEF StreamLike
  <2> QED
    BY <2>3, <2>4, <2>5, <2>6, <2>7 DEF Inv
<1>16. CASE ~y.err /\ Len(s) < 2
  <2>1. scratch' = s /\ state' = "term" /\ at' = "term" /\ part' = part /\ got' = got /\ result' = result
    BY <1>1, <1>2, <1>5, <1>7, <1>16
  <2>2. Seen' = Seen
    BY <2>1 DEF Seen
  <2>3. TypeInv'
    BY <1>1, <1>6, <1>10, <1>11, <1>12, <2>1 DEF TypeInv
  <2>4. CallInv'
    BY <1>1, <1>2, <1>6, <1>10, <1>12, <1>16, <2>1 DEF CallInv
  <2>5. GivenInv'
    BY <1>1, <1>7, <1>10, <1>11, <1>14, <2>1, <2>2 DEF GivenInv
  <2>6. PlaceInv'
    <3> SUFFICES ASSUME conn' = "held" PROVE PlaceInv'
      BY DEF PlaceInv
    <3>1. PICK i \in 1..LastChunk(resp), p \in 0..Len(w) :
            /\ part # <<>> /\ i \in 1..LastChunk(resp) - 1 /\ Reading(resp, b, c, p)
            /\ Len(Seen) = Base(resp, i + 1)
            /\ p = DataAt(resp, i) + Size(resp, i) + Len(s)
      BY <1>11, <1>13
    <3>2. TermAt(i, p)'
      BY <1>10, <2>1, <2>2, <3>1, Zenon DEF TermAt
    <3>3. At(p)'
      BY <1>10, <3>1, Zenon DEF At
    <3> QED
      BY <1>2, <1>7, <1>10, <2>1, <3>1, <3>2, <3>3 DEF PlaceInv, ChunkedAt
  <2>7. StreamLike
    BY <1>10, <1>11, <2>1 DEF StreamLike
  <2> QED
    BY <2>3, <2>4, <2>5, <2>6, <2>7 DEF Inv
<1>17. CASE ~y.err /\ ~(Len(s) < 2)
  <2>1. /\ at' = "idle" /\ got' = got \o part /\ scratch' = <<>> /\ part' = <<>> /\ state' = "size"
        /\ result' = IF part = <<>> THEN "end" ELSE "more"
    BY <1>5, <1>7, <1>17 DEF Return
  <2>2. a # <<>> /\ conn = "held" /\ conn' = "held" /\ part # <<>> /\ result # "end"
    BY <1>2, <1>11, <1>12, <1>13, <1>17
  <2>3. Seen \in Seq(Bytes) /\ got' = Seen /\ Seen' = Seen
    <3>1. Seen \in Seq(Bytes) /\ got' = Seen
      BY <1>2, <2>1, BytesAdded DEF Seen
    <3>2. Seen' = Seen \o <<>>
      BY <2>1, <3>1 DEF Seen
    <3> QED
      BY <3>1, <3>2, NothingAdded
  <2>4. TypeInv'
    BY <1>1, <1>6, <1>10, <1>11, <1>12, <2>1, <2>3 DEF TypeInv
  <2>5. CallInv'
    BY <1>1, <1>2, <1>6, <1>10, <1>12, <2>1 DEF CallInv
  <2>6. GivenInv'
    BY <1>1, <1>10, <2>1, <2>2, <2>3 DEF GivenInv
  <2>7. PlaceInv'
    <3>1. PICK i \in 1..LastChunk(resp), p \in 0..Len(w) :
            /\ i + 1 \in 1..LastChunk(resp) /\ Reading(resp, b, c, p)
            /\ Len(Seen) = Base(resp, i + 1)
            /\ p = DataAt(resp, i) + Size(resp, i) + Len(s)
            /\ Start(resp, i + 1) = DataAt(resp, i) + Size(resp, i) + 2
            /\ Start(resp, i + 1) < Len(w) /\ Start(resp, i + 1) \in Nat
      BY <1>13, <2>2
    <3>2. Len(s) = 2
      BY <1>2, <1>4, <1>11, <1>12, <1>17
    <3>3. p = Start(resp, i + 1) + Len(<<>>)
      <4>1. p = Start(resp, i + 1)
        BY <3>1, <3>2, Zenon
      <4>2. Start(resp, i + 1) = Start(resp, i + 1) + 0
        BY <3>1
      <4> QED
        BY <1>12, <4>1, <4>2, Zenon
    <3>4. Stands(<<>>, w, Start(resp, i + 1))
      BY <1>8, <3>1 DEF Stands
    <3>5. SizeAt(i + 1, p)'
      BY <1>7, <1>10, <2>1, <2>3, <3>1, <3>3, <3>4, Zenon DEF SizeAt
    <3>6. At(p)'
      BY <1>10, <3>1, Zenon DEF At
    <3> QED
      BY <1>2, <1>7, <1>10, <2>1, <3>1, <3>5, <3>6 DEF PlaceInv, ChunkedAt
  <2>8. StreamLike
    BY <1>2, <1>10, <2>1, <2>2, Zenon DEF StreamLike
  <2> QED
    BY <2>4, <2>5, <2>6, <2>7, <2>8 DEF Inv
<1> QED
  BY <1>11, <1>15, <1>16, <1>17

\* There is nothing to find in an empty sequence.
LEMMA FirstInNone ==
  FirstAt(<<>>, CRLF) = 0 /\ FirstAt(<<>>, Term) = 0
<1>1. <<>> \in Seq(Bytes) /\ Len(<<>>) = 0 /\ 2 \in Nat /\ 2 > 0 /\ 4 \in Nat /\ 4 > 0
  OBVIOUS
<1>2. \A q : ~Stands(CRLF, <<>>, q) /\ ~Stands(Term, <<>>, q)
  BY <1>1, CRLFIs, TermIs DEF Stands
<1>3. /\ FirstAt(<<>>, CRLF) # 0 => Stands(CRLF, <<>>, FirstAt(<<>>, CRLF) - 1)
      /\ FirstAt(<<>>, Term) # 0 => Stands(Term, <<>>, FirstAt(<<>>, Term) - 1)
  BY <1>1, CRLFIs, TermIs, FirstAtIs, Zenon
<1> QED
  BY <1>2, <1>3, Zenon

\* A size line, in numbers.
LEMMA SizeIs ==
  ASSUME NEW r \in Response, r.kind = "chunked", NEW i \in 1..LastChunk(r)
  PROVE  /\ Start(r, i) \in Nat /\ Base(r, i) \in Nat /\ Size(r, i) \in Nat
         /\ Start(r, i) + r.ext + 3 <= Len(Wire(r))
         /\ Size(r, i) = 0 => Base(r, i) = Len(Body(r)) /\ TrailersAt(r) = Start(r, i) + (r.ext + 1)
         /\ Size(r, i) # 0 => i \in 1..LastChunk(r) - 1 /\ DataAt(r, i) = Start(r, i) + (r.ext + 3)
<1>1. ChunkPlaces(r, i) /\ r.ext \in Nat
  BY Places, ResponseParts
<1>2. /\ Start(r, i) \in Nat /\ Base(r, i) \in Nat /\ Size(r, i) \in Nat
      /\ Stands(SizeLine(r, Size(r, i)), Wire(r), Start(r, i))
      /\ i # LastChunk(r) => Size(r, i) > 0
  BY <1>1, Zenon DEF ChunkPlaces
<1>3. Start(r, i) + r.ext + 3 <= Len(Wire(r))
  <2>1. Len(SizeLine(r, Size(r, i))) = r.ext + 3
    BY <1>2, SizeLineIs, Zenon
  <2>2. PICK m, l : m = r.ext + 3 /\ l = Len(Wire(r)) /\ l \in Nat
    BY WireIs
  <2>3. Start(r, i) + m <= l
    BY <1>2, <2>1, <2>2, Zenon DEF Stands
  <2> QED
    BY <1>1, <1>2, <2>2, <2>3
<1>4. ASSUME Size(r, i) = 0
      PROVE  Base(r, i) = Len(Body(r)) /\ TrailersAt(r) = Start(r, i) + (r.ext + 1)
  <2>1. i = LastChunk(r)
    BY <1>2, <1>4
  <2>2. Base(r, i) = Len(Body(r)) /\ TrailersAt(r) = Start(r, i) + r.ext + 1
    BY <2>1, BodyIs, Zenon DEF TrailersAt
  <2> QED
    BY <1>1, <1>2, <2>2
<1>5. ASSUME Size(r, i) # 0
      PROVE  i \in 1..LastChunk(r) - 1 /\ DataAt(r, i) = Start(r, i) + (r.ext + 3)
  <2>1. i # LastChunk(r)
    BY <1>5, Zenon DEF Size
  <2>2. i \in 1..LastChunk(r) - 1
    BY <2>1, ChunkIs, Zenon
  <2>3. DataAt(r, i) = Start(r, i) + r.ext + 3
    BY DEF DataAt
  <2> QED
    BY <1>1, <1>2, <2>2, <2>3
<1> QED
  BY <1>2, <1>3, <1>4, <1>5

\* getChunkSize: what it read beyond the size line, put back, is where the data or the trailers begin.
LEMMA SizeReadStep ==
  ASSUME Inv, SizeRead
  PROVE  Inv' /\ StreamLike
<1>1. at = "size" /\ TypeInv /\ CallInv /\ GivenInv /\ PlaceInv
  BY DEF SizeRead, Inv
<1>2. resp.kind = "chunked" /\ state = "size" /\ Len(scratch) < SIZE_BUFF /\ FirstAt(scratch, CRLF) = 0
      /\ resp \in Response /\ part = <<>> /\ Len(part) <= cb
      /\ got \in Seq(Bytes) /\ scratch \in Seq(Bytes) /\ Len(scratch) \in Nat
      /\ cb \in ReadSizes /\ cb \in Nat /\ SIZE_BUFF \in Nat
  BY <1>1, DecoderConstants DEF TypeInv, CallInv
<1>3. PICK n : n = SIZE_BUFF - Len(scratch)
  OBVIOUS
<1>4. n \in Nat /\ n > 0 /\ Len(scratch) + n = SIZE_BUFF
  BY <1>2, <1>3
<1>5. PICK y \in Yield(n) :
        IF y.err THEN Reads(y, <<>>) /\ Fail /\ UNCHANGED <<state, left>>
        ELSE IF FirstAt(scratch \o y.bytes, CRLF) = 0 /\ Len(scratch \o y.bytes) < SIZE_BUFF
        THEN /\ Reads(y, <<>>)
             /\ scratch' = scratch \o y.bytes
             /\ UNCHANGED <<state, left, at, part, got, result>>
        ELSE ParseSize(scratch \o y.bytes, y)
  BY <1>3 DEF SizeRead
<1>6. cb' = cb
  BY DEF SizeRead
<1>7. PICK a, b, c, w, v, s, e :
        /\ a = y.bytes /\ b = y.buf /\ c = y.net /\ w = Wire(resp) /\ v = Body(resp) /\ s = scratch \o a
        /\ e = resp.ext
  OBVIOUS
<1>8. w \in Seq(Bytes) /\ Len(w) \in Nat /\ v \in Seq(Bytes) /\ e \in Nat /\ e + 3 <= SIZE_BUFF
  BY <1>2, <1>7, WireIs, BodyIs, ResponseParts
<1>9. Outcome(n, y)
  BY <1>1, <1>4, ReadIs
<1>10. Reads(y, <<>>) => net' = c /\ buf' = b /\ conn' = ConnAfter(y) /\ resp' = resp
  <2>1. Reads(y, <<>>) => net' = c /\ buf' = <<>> \o b /\ conn' = ConnAfter(y) /\ resp' = resp
    BY <1>7, Zenon DEF Reads
  <2> QED
    BY <1>7, <1>9, <2>1, NothingAdded, Zenon DEF Outcome
<1>11. /\ a \in Seq(Bytes) /\ b \in Seq(Bytes) /\ c \in Seq(Bytes)
       /\ y.err \in BOOLEAN /\ Len(a) \in Nat /\ Len(a) <= n
       /\ y.err => a = <<>> /\ conn = "held"
       /\ ConnAfter(y) \in {"held", "broken", "pooled", "closed"}
       /\ ConnAfter(y) = "held" <=> conn = "held" /\ ~y.err /\ a # <<>>
       /\ conn # "held" => a = <<>> /\ b = <<>> /\ c = net
       /\ result = "end" => a = <<>> /\ ~y.err /\ part = <<>>
  BY <1>7, <1>9, Zenon DEF Outcome
<1>12. /\ s \in Seq(Bytes) /\ Len(s) = Len(scratch) + Len(a) /\ Len(s) \in Nat
       /\ a = <<>> => s = scratch
       /\ Len(<<>>) = 0 /\ <<>> \in Seq(Bytes)
  BY <1>2, <1>7, <1>11, BytesAdded, NothingAdded, Zenon
<1>13. Seen = got /\ Stands(got, v, 0)
  <2>1. Seen = got
    BY <1>2, NothingAdded DEF Seen
  <2> QED
    BY <1>1, <1>7, <2>1 DEF GivenInv
<1>14. ASSUME conn = "held"
       PROVE  /\ a = <<>> => b = <<>> /\ ~resp.whole
              /\ \E i \in 1..LastChunk(resp) : \E p \in 0..Len(w) :
                   /\ Reading(resp, b, c, p)
                   /\ Len(got) = Base(resp, i)
                   /\ p = Start(resp, i) + Len(s)
                   /\ Stands(s, w, Start(resp, i))
  <2>1. PICK p \in 0..Len(w), i \in 1..LastChunk(resp) : At(p) /\ SizeAt(i, p)
    BY <1>1, <1>2, <1>7, <1>14 DEF PlaceInv, ChunkedAt
  <2>2. PICK st, l, la, ls : st = Start(resp, i) /\ l = Len(w) /\ la = Len(a) /\ ls = Len(scratch)
    OBVIOUS
  <2>3. st \in Nat /\ st + e + 3 <= l
    BY <1>2, <1>7, <2>2, SizeIs, Zenon
  <2>4. Len(got) = Base(resp, i) /\ p = st + ls /\ Stands(scratch, w, st)
    BY <1>7, <2>1, <2>2, Zenon DEF SizeAt
  <2>5. ls < e + 3
    BY <1>2, <1>7, <2>2, <2>4, SizeEnd, Zenon
  <2>6. ls \in Nat /\ la \in Nat /\ la <= n /\ Len(s) = ls + la /\ l \in Nat
    BY <1>2, <1>8, <1>11, <1>12, <2>2
  <2>7. p \in Nat /\ p < l /\ p + la = st + Len(s)
    BY <1>8, <2>3, <2>4, <2>5, <2>6
  <2>8. /\ Stands(a, w, p) /\ Reading(resp, b, c, p + la)
        /\ a = <<>> => b = <<>> /\ (resp.whole => p = l)
    BY <1>4, <1>7, <1>9, <1>14, <2>1, <2>2, <2>7, Zenon DEF Outcome
  <2>9. a = <<>> => b = <<>> /\ ~resp.whole
    BY <2>7, <2>8
  <2>10. Stands(s, w, st)
    BY <1>2, <1>7, <1>8, <1>11, <2>2, <2>3, <2>4, <2>8, StandsConcat
  <2>11. p + la \in 0..l
    <3>1. p + la <= l
      BY <2>2, <2>8, Zenon DEF Stands
    <3> QED
      BY <2>6, <2>7, <3>1
  <2> QED
    BY <2>2, <2>4, <2>7, <2>8, <2>9, <2>10, <2>11, Zenon
<1>15. ConnAfter(y) # "held" => b = <<>> /\ a = <<>> /\ ~resp.whole
  <2>1. conn # "held" => ~resp.whole
    BY <1>1, <1>2 DEF GivenInv
  <2> QED
    BY <1>11, <1>14, <2>1
<1>16. CASE y.err
  <2>0. Reads(y, <<>>) /\ Fail /\ state' = state /\ left' = left
    BY <1>5, <1>16
  <2>1. /\ at' = "idle" /\ result' = "error" /\ part' = <<>> /\ scratch' = <<>> /\ got' = got
        /\ conn' # "held" /\ state' = "size" /\ left' = left
        /\ net' = c /\ buf' = b /\ conn' = ConnAfter(y) /\ resp' = resp
    BY <1>2, <1>10, <1>11, <1>16, <2>0 DEF Fail
  <2>2. Seen' = got
    BY <1>2, <2>1, NothingAdded DEF Seen
  <2>3. TypeInv'
    BY <1>1, <1>6, <1>11, <2>1 DEF TypeInv
  <2>4. CallInv'
    BY <1>1, <1>2, <1>6, <2>1 DEF CallInv
  <2>5. GivenInv'
    BY <1>1, <1>7, <1>13, <1>15, <1>16, <2>1, <2>2 DEF GivenInv
  <2>6. PlaceInv'
    BY <2>1 DEF PlaceInv
  <2>7. StreamLike
    BY <1>11, <1>16, <2>1 DEF StreamLike
  <2> QED
    BY <2>3, <2>4, <2>5, <2>6, <2>7 DEF Inv
<1>17. CASE ~y.err /\ FirstAt(s, CRLF) = 0 /\ Len(s) < SIZE_BUFF
  <2>0. Reads(y, <<>>) /\ scratch' = s /\ UNCHANGED <<state, left, at, part, got, result>>
    BY <1>5, <1>7, <1>17
  <2>1. /\ state' = "size" /\ at' = "size" /\ part' = <<>> /\ got' = got /\ result' = result /\ left' = left
        /\ net' = c /\ buf' = b /\ conn' = ConnAfter(y) /\ resp' = resp
    BY <1>1, <1>2, <1>10, <2>0
  <2>2. Seen' = got
    BY <1>2, <2>1, NothingAdded DEF Seen
  <2>3. TypeInv'
    BY <1>1, <1>6, <1>11, <1>12, <2>0, <2>1 DEF TypeInv
  <2>4. CallInv'
    BY <1>1, <1>2, <1>6, <1>12, <1>17, <2>0, <2>1 DEF CallInv
  <2>5. GivenInv'
    BY <1>1, <1>7, <1>11, <1>13, <1>15, <2>1, <2>2 DEF GivenInv
  <2>6. PlaceInv'
    <3> SUFFICES ASSUME conn' = "held" PROVE PlaceInv'
      BY DEF PlaceInv
    <3>1. PICK i \in 1..LastChunk(resp), p \in 0..Len(w) :
            /\ Reading(resp, b, c, p) /\ Len(got) = Base(resp, i)
            /\ p = Start(resp, i) + Len(s) /\ Stands(s, w, Start(resp, i))
      BY <1>11, <1>14, <2>1
    <3>2. SizeAt(i, p)'
      BY <1>7, <2>0, <2>1, <3>1, Zenon DEF SizeAt
    <3>3. At(p)'
      BY <2>1, <3>1, Zenon DEF At
    <3> QED
      BY <1>2, <1>7, <2>1, <3>1, <3>2, <3>3 DEF PlaceInv, ChunkedAt
  <2>7. StreamLike
    BY <1>11, <2>1 DEF StreamLike
  <2> QED
    BY <2>3, <2>4, <2>5, <2>6, <2>7 DEF Inv
<1>18. CASE ~y.err /\ ~(FirstAt(s, CRLF) = 0 /\ Len(s) < SIZE_BUFF)
  <2>1. ParseSize(s, y)
    BY <1>5, <1>7, <1>18
  <2>2. conn = "held"
    BY <1>2, <1>11, <1>12, <1>18
  <2>3. PICK i \in 1..LastChunk(resp), p \in 0..Len(w) :
           /\ Reading(resp, b, c, p) /\ Len(got) = Base(resp, i)
           /\ p = Start(resp, i) + Len(s) /\ Stands(s, w, Start(resp, i))
    BY <1>14, <2>2
  <2>4. PICK st, l, z, o : st = Start(resp, i) /\ l = Len(w) /\ z = Size(resp, i) /\ o = FirstAt(s, CRLF)
    OBVIOUS
  <2>5. /\ st \in Nat /\ z \in Nat /\ st + e + 3 <= l
        /\ z = 0 => Base(resp, i) = Len(v) /\ TrailersAt(resp) = st + (e + 1)
        /\ z # 0 => i \in 1..LastChunk(resp) - 1 /\ DataAt(resp, i) = st + (e + 3)
    BY <1>2, <1>7, <2>4, SizeIs, Zenon
  <2>6. /\ s # <<>> => s[1] = <<"size", z>>
        /\ o = 0 => Len(s) < e + 3
        /\ o # 0 => o = e + 2 /\ e + 3 <= Len(s)
    BY <1>2, <1>7, <1>12, <2>3, <2>4, SizeEnd, Zenon
  <2>7. o # 0
    <3>1. o = 0 => ~(Len(s) < SIZE_BUFF)
      BY <1>18, <2>4, Zenon
    <3> QED
      BY <1>2, <1>8, <1>12, <2>6, <3>1
  <2>8. o = e + 2 /\ e + 3 <= Len(s) /\ s # <<>> /\ s[1][1] = "size" /\ s[1][2] = z
    BY <1>8, <1>12, <2>6, <2>7
  <2>9. a # <<>> /\ ConnAfter(y) = "held"
    BY <1>2, <1>11, <1>12, <1>18, <2>2, <2>4, <2>7
  <2>10. PICK k, x : k = (IF z = 0 THEN e + 1 ELSE e + 3) /\ x = Extra(s, o, z)
    OBVIOUS
  <2>11. k \in 0..Len(s)
    BY <1>8, <1>12, <2>8, <2>10
  <2>12. x = SubSeq(s, k + 1, Len(s))
    <3>1. (e + 1) + 1 = e + 2 /\ (e + 3) + 1 = (e + 2) + 2
      BY <1>8
    <3> QED
      BY <2>8, <2>10, <3>1 DEF Extra, From
  <2>13. /\ left' = z /\ state' = (IF z = 0 THEN "trailers" ELSE "data")
         /\ at' = (IF z = 0 THEN "trailers" ELSE "data")
         /\ scratch' = <<>> /\ part' = part /\ got' = got /\ result' = result
         /\ Reads(y, x)
    BY <2>1, <2>4, <2>7, <2>8, <2>10, Zenon DEF ParseSize, Goto
  <2>14. net' = c /\ buf' = x \o b /\ conn' = "held" /\ resp' = resp
    BY <1>7, <2>9, <2>13, Zenon DEF Reads
  <2>15. x \o b \in Seq(Bytes) /\ Reading(resp, x \o b, c, st + k)
    BY <1>2, <1>7, <1>8, <1>11, <1>12, <2>3, <2>4, <2>5, <2>11, <2>12, PutBack, Zenon
  <2>16. Seen' = got
    BY <1>2, <2>13, NothingAdded DEF Seen
  <2>17. TypeInv'
    BY <1>1, <1>2, <1>6, <1>11, <1>12, <2>5, <2>13, <2>14, <2>15 DEF TypeInv
  <2>18. CallInv'
    <3>1. 0 <= TRAILER_BUFF \div 2
      BY DecoderConstants
    <3>2. z # 0 => z > 0
      BY <2>5
    <3> QED
      BY <1>1, <1>2, <1>6, <1>12, <2>13, <2>14, <3>1, <3>2, FirstInNone DEF CallInv
  <2>19. GivenInv'
    BY <1>1, <1>2, <1>7, <1>13, <2>2, <2>13, <2>14, <2>16 DEF GivenInv
  <2>20. PlaceInv'
    <3>1. st + k \in 0..l
      BY <1>8, <2>4, <2>5, <2>10, SMTT(30)
    <3>2. At(st + k)'
      BY <2>14, <2>15, Zenon DEF At
    <3>3. CASE z = 0
      <4>1. st + k = TrailersAt(resp) /\ st + k \in Nat /\ (st + k) - 0 = st + k
        BY <1>8, <2>5, <2>10, <3>3
      <4>2. Stands(<<>>, w, st + k)
        BY <1>12, <2>4, <3>1 DEF Stands
      <4>3. st + k >= TrailersAt(resp)
        BY <4>1
      <4>4. TrailersIn(st + k)'
        BY <1>2, <1>7, <1>12, <2>3, <2>5, <2>13, <2>14, <3>3, <4>1, <4>2, <4>3, Zenon DEF TrailersIn
      <4> QED
        BY <1>2, <1>7, <2>4, <2>13, <2>14, <3>1, <3>2, <3>3, <4>4 DEF PlaceInv, ChunkedAt
    <3>4. CASE z # 0
      <4>1. z \in 1..z /\ (st + k) = DataAt(resp, i) + z - z
        BY <1>8, <2>5, <2>10, <3>4
      <4>2. Len(got) = Base(resp, i) + z - z
        <5>1. Len(got) \in Nat
          BY <1>2
        <5> QED
          BY <2>3, <2>5, <5>1
      <4>3. DataIn(i, st + k)'
        BY <1>2, <2>4, <2>5, <2>13, <2>14, <3>4, <4>1, <4>2, Zenon DEF DataIn
      <4> QED
        BY <1>2, <1>7, <2>4, <2>13, <2>14, <3>1, <3>2, <3>4, <4>3 DEF PlaceInv, ChunkedAt
    <3> QED
      BY <3>3, <3>4
  <2>21. StreamLike
    BY <2>2, <2>13, <2>14 DEF StreamLike
  <2> QED
    BY <2>17, <2>18, <2>19, <2>20, <2>21 DEF Inv
<1> QED
  BY <1>11, <1>16, <1>17, <1>18

\* The trailers: their end is found when the last byte of the response is read, even if it came in pieces.
LEMMA TrailerReadStep ==
  ASSUME Inv, TrailerRead
  PROVE  Inv' /\ StreamLike
<1>1. at = "trailers" /\ TypeInv /\ CallInv /\ GivenInv /\ PlaceInv
  BY DEF TrailerRead, Inv
<1>2. resp.kind = "chunked" /\ state = "trailers" /\ Len(scratch) <= TRAILER_BUFF \div 2
      /\ FirstAt(scratch, Term) = 0 /\ resp \in Response /\ part = <<>> /\ Len(part) <= cb
      /\ got \in Seq(Bytes) /\ scratch \in Seq(Bytes) /\ Len(scratch) \in Nat
      /\ cb \in ReadSizes /\ cb \in Nat /\ TRAILER_BUFF \in Nat /\ TRAILER_BUFF \div 2 >= 4
  BY <1>1, DecoderConstants DEF TypeInv, CallInv
<1>3. PICK n : n = TRAILER_BUFF - Len(scratch)
  OBVIOUS
<1>4. n \in Nat /\ n > 0
  BY <1>2, <1>3
<1>5. PICK y \in Yield(n) :
        IF y.err THEN Reads(y, <<>>) /\ Fail
        ELSE IF FirstAt(scratch \o y.bytes, Term) = 0
        THEN /\ Reads(y, <<>>) /\ scratch' = Kept(scratch \o y.bytes)
             /\ UNCHANGED <<at, part, got, result>>
        ELSE /\ Reads(y, From(scratch \o y.bytes, FirstAt(scratch \o y.bytes, Term) + Len(Term)))
             /\ scratch' = <<>>
             /\ Goto("tidy") /\ UNCHANGED part
  BY <1>3 DEF TrailerRead
<1>6. cb' = cb /\ state' = "trailers" /\ left' = left
  BY <1>2 DEF TrailerRead
<1>7. PICK a, b, c, w, v, s :
        /\ a = y.bytes /\ b = y.buf /\ c = y.net /\ w = Wire(resp) /\ v = Body(resp) /\ s = scratch \o a
  OBVIOUS
<1>8. w \in Seq(Bytes) /\ Len(w) \in Nat /\ v \in Seq(Bytes)
  BY <1>2, <1>7, WireIs, BodyIs
<1>9. Outcome(n, y)
  BY <1>1, <1>4, ReadIs
<1>10. Reads(y, <<>>) => net' = c /\ buf' = b /\ conn' = ConnAfter(y) /\ resp' = resp
  <2>1. Reads(y, <<>>) => net' = c /\ buf' = <<>> \o b /\ conn' = ConnAfter(y) /\ resp' = resp
    BY <1>7, Zenon DEF Reads
  <2> QED
    BY <1>7, <1>9, <2>1, NothingAdded, Zenon DEF Outcome
<1>11. /\ a \in Seq(Bytes) /\ b \in Seq(Bytes) /\ c \in Seq(Bytes)
       /\ y.err \in BOOLEAN /\ Len(a) \in Nat /\ Len(a) <= n
       /\ y.err => a = <<>> /\ conn = "held"
       /\ ConnAfter(y) \in {"held", "broken", "pooled", "closed"}
       /\ ConnAfter(y) = "held" <=> conn = "held" /\ ~y.err /\ a # <<>>
       /\ conn # "held" => a = <<>> /\ b = <<>> /\ c = net
       /\ result = "end" => a = <<>> /\ ~y.err /\ part = <<>>
  BY <1>7, <1>9, Zenon DEF Outcome
<1>12. /\ s \in Seq(Bytes) /\ Len(s) = Len(scratch) + Len(a) /\ Len(s) \in Nat
       /\ a = <<>> => s = scratch
       /\ Len(<<>>) = 0 /\ <<>> \in Seq(Bytes)
  BY <1>2, <1>7, <1>11, BytesAdded, NothingAdded, Zenon
<1>13. Seen = got /\ Stands(got, v, 0)
  <2>1. Seen = got
    BY <1>2, NothingAdded DEF Seen
  <2> QED
    BY <1>1, <1>7, <2>1 DEF GivenInv
<1>14. ASSUME conn = "held"
       PROVE  /\ a = <<>> => b = <<>> /\ ~resp.whole
              /\ Len(got) = Len(v)
              /\ \E q \in Nat : /\ q >= TrailersAt(resp) /\ TrailersAt(resp) \in Nat
                                /\ q = TrailersAt(resp) \/ Len(s) >= 4
                                /\ Stands(s, w, q) /\ q + Len(s) <= Len(w)
                                /\ Reading(resp, b, c, q + Len(s))
  <2>1. PICK p \in 0..Len(w) : At(p) /\ TrailersIn(p)
    BY <1>1, <1>2, <1>7, <1>14 DEF PlaceInv, ChunkedAt
  <2>2. PICK q, l, la, ls : q = p - Len(scratch) /\ l = Len(w) /\ la = Len(a) /\ ls = Len(scratch)
    OBVIOUS
  <2>3. Len(got) = Len(v) /\ q >= TrailersAt(resp) /\ (q = TrailersAt(resp) \/ ls >= 4) /\ Stands(scratch, w, q)
    BY <1>7, <2>1, <2>2, Zenon DEF TrailersIn
  <2>4. ls \in Nat /\ la \in Nat /\ Len(s) = ls + la /\ l \in Nat /\ p \in Nat /\ q + ls = p
    BY <1>2, <1>8, <1>11, <1>12, <2>2
  <2>5. q \in Nat /\ TrailersAt(resp) \in Nat
    BY <1>2, <2>3, TheEnd, Zenon DEF Stands
  <2>6. p < l
    <3>1. q + ls < l
      BY <1>2, <1>7, <2>2, <2>3, <2>5, TrailersEnd, Zenon
    <3> QED
      BY <2>4, <3>1
  <2>7. /\ Stands(a, w, p) /\ Reading(resp, b, c, p + la)
        /\ a = <<>> => b = <<>> /\ (resp.whole => p = l)
    BY <1>4, <1>7, <1>9, <1>14, <2>1, <2>2, <2>4, Zenon DEF Outcome
  <2>8. a = <<>> => b = <<>> /\ ~resp.whole
    BY <2>4, <2>6, <2>7
  <2>9. Stands(s, w, q)
    BY <1>2, <1>7, <1>8, <1>11, <2>2, <2>3, <2>4, <2>5, <2>7, StandsConcat
  <2>10. p + la = q + Len(s) /\ (ls >= 4 => Len(s) >= 4)
    BY <2>4, <2>5
  <2>11. q + Len(s) <= l
    BY <2>2, <2>9, Zenon DEF Stands
  <2> QED
    BY <2>2, <2>3, <2>5, <2>7, <2>8, <2>9, <2>10, <2>11, Zenon
<1>15. ConnAfter(y) # "held" => b = <<>> /\ a = <<>> /\ ~resp.whole
  <2>1. conn # "held" => ~resp.whole
    BY <1>1, <1>2 DEF GivenInv
  <2> QED
    BY <1>11, <1>14, <2>1
<1>16. CASE y.err
  <2>0. Reads(y, <<>>) /\ Fail
    BY <1>5, <1>16
  <2>1. /\ at' = "idle" /\ result' = "error" /\ part' = <<>> /\ scratch' = <<>> /\ got' = got
        /\ conn' # "held"
        /\ net' = c /\ buf' = b /\ conn' = ConnAfter(y) /\ resp' = resp
    BY <1>2, <1>10, <1>11, <1>16, <2>0 DEF Fail
  <2>2. Seen' = got
    BY <1>2, <2>1, NothingAdded DEF Seen
  <2>3. TypeInv'
    BY <1>1, <1>6, <1>11, <2>1 DEF TypeInv
  <2>4. CallInv'
    BY <1>1, <1>2, <1>6, <2>1 DEF CallInv
  <2>5. GivenInv'
    BY <1>1, <1>7, <1>13, <1>15, <1>16, <2>1, <2>2 DEF GivenInv
  <2>6. PlaceInv'
    BY <2>1 DEF PlaceInv
  <2>7. StreamLike
    BY <1>11, <1>16, <2>1 DEF StreamLike
  <2> QED
    BY <2>3, <2>4, <2>5, <2>6, <2>7 DEF Inv
<1>17. CASE ~y.err /\ FirstAt(s, Term) = 0
  <2>0. PICK x : x = Kept(s)
    OBVIOUS
  <2>1. /\ scratch' = x /\ at' = "trailers" /\ part' = <<>> /\ got' = got /\ result' = result
        /\ net' = c /\ buf' = b /\ conn' = ConnAfter(y) /\ resp' = resp
    BY <1>1, <1>2, <1>5, <1>7, <1>10, <1>17, <2>0
  <2>2. Seen' = got
    BY <1>2, <2>1, NothingAdded DEF Seen
  <2>3. PICK k \in 0..Len(s) :
          /\ x = SubSeq(s, k + 1, Len(s)) /\ x \in Seq(Bytes) /\ Len(x) = Len(s) - k
          /\ FirstAt(x, Term) = 0 /\ Len(x) <= TRAILER_BUFF \div 2
          /\ k = 0 \/ Len(x) = 4
    BY <1>12, <1>17, <2>0, KeptIs, Zenon
  <2>4. TypeInv'
    BY <1>1, <1>6, <1>11, <2>1, <2>3 DEF TypeInv
  <2>5. CallInv'
    BY <1>1, <1>2, <1>6, <2>1, <2>3 DEF CallInv
  <2>6. GivenInv'
    BY <1>1, <1>2, <1>7, <1>11, <1>13, <1>15, <2>1, <2>2 DEF GivenInv
  <2>7. PlaceInv'
    <3> SUFFICES ASSUME conn' = "held" PROVE PlaceInv'
      BY DEF PlaceInv
    <3>1. PICK q \in Nat :
            /\ Len(got) = Len(v)
            /\ q >= TrailersAt(resp) /\ TrailersAt(resp) \in Nat
            /\ q = TrailersAt(resp) \/ Len(s) >= 4
            /\ Stands(s, w, q) /\ q + Len(s) <= Len(w)
            /\ Reading(resp, b, c, q + Len(s))
      BY <1>11, <1>14, <2>1
    <3>2. PICK p, ls, lx : p = q + Len(s) /\ ls = Len(s) /\ lx = Len(x)
      OBVIOUS
    <3>3. ls \in Nat /\ k \in 0..ls /\ lx = ls - k
      BY <1>12, <2>3, <3>2
    <3>4. p \in 0..Len(w) /\ p - lx = q + k /\ q + k >= TrailersAt(resp)
      BY <1>8, <3>1, <3>2, <3>3
    <3>5. q + k = TrailersAt(resp) \/ lx >= 4
      <4>1. CASE k = 0
        BY <3>1, <3>2, <3>3, <4>1
      <4>2. CASE Len(x) = 4
        BY <3>2, <4>2
      <4> QED
        BY <2>3, <4>1, <4>2
    <3>6. Stands(x, w, q + k)
      BY <1>8, <1>12, <2>3, <3>1, Taken, Zenon
    <3>7. TrailersIn(p)'
      BY <1>7, <2>1, <3>1, <3>2, <3>4, <3>5, <3>6, Zenon DEF TrailersIn
    <3>8. At(p)'
      BY <2>1, <3>1, <3>2, Zenon DEF At
    <3> QED
      BY <1>2, <1>7, <2>1, <3>4, <3>7, <3>8 DEF PlaceInv, ChunkedAt
  <2>8. StreamLike
    BY <1>11, <2>1 DEF StreamLike
  <2> QED
    BY <2>4, <2>5, <2>6, <2>7, <2>8 DEF Inv
<1>18. CASE ~y.err /\ FirstAt(s, Term) # 0
  <2>1. PICK x, f : x = From(s, f + 4) /\ f = FirstAt(s, Term)
    OBVIOUS
  <2>2. Len(Term) = 4
    BY TermIs
  <2>3. Reads(y, x) /\ scratch' = <<>> /\ at' = "tidy" /\ part' = part /\ got' = got /\ result' = result
    BY <1>5, <1>7, <1>18, <2>1, <2>2, Zenon DEF Goto
  <2>4. a # <<>> /\ conn = "held" /\ ConnAfter(y) = "held"
    BY <1>2, <1>11, <1>12, <1>18
  <2>5. PICK q \in Nat :
          /\ Len(got) = Len(v)
          /\ q >= TrailersAt(resp) /\ TrailersAt(resp) \in Nat
          /\ q = TrailersAt(resp) \/ Len(s) >= 4
          /\ Stands(s, w, q) /\ q + Len(s) <= Len(w)
          /\ Reading(resp, b, c, q + Len(s))
    BY <1>14, <2>4
  <2>6. q + f + 3 = Len(w) /\ Len(s) = f + 3
    BY <1>2, <1>7, <1>12, <1>18, <2>1, <2>5, TrailersEnd, Zenon
  <2>7. f \in Nat
    <3>1. 4 \in Nat /\ 4 > 0
      OBVIOUS
    <3> QED
      BY <1>12, <2>1, <2>2, <3>1, TermIs, FirstAtIs, Zenon
  <2>8. PICK k : k = f + 3
    OBVIOUS
  <2>9. k \in 0..Len(s) /\ q + k = Len(w) /\ k + 1 = f + 4
    BY <1>8, <1>12, <2>5, <2>6, <2>7, <2>8
  <2>10. x = SubSeq(s, k + 1, Len(s))
    BY <2>1, <2>9, Zenon DEF From
  <2>11. x \o b \in Seq(Bytes) /\ Reading(resp, x \o b, c, q + k)
    BY <1>2, <1>7, <1>8, <1>11, <1>12, <2>5, <2>9, <2>10, PutBack, Zenon
  <2>12. net' = c /\ buf' = x \o b /\ conn' = "held" /\ resp' = resp
    BY <1>7, <2>3, <2>4, Zenon DEF Reads
  <2>13. Seen' = got
    BY <1>2, <2>3, NothingAdded DEF Seen
  <2>14. TypeInv'
    BY <1>1, <1>2, <1>6, <1>11, <1>12, <2>3, <2>11, <2>12 DEF TypeInv
  <2>15. CallInv'
    BY <1>1, <1>2, <1>6, <2>3, <2>12 DEF CallInv
  <2>16. GivenInv'
    BY <1>1, <1>2, <1>7, <1>13, <2>3, <2>4, <2>12, <2>13 DEF GivenInv
  <2>17. PlaceInv'
    <3>1. TidyAt(q + k)'
      BY <1>7, <2>5, <2>9, <2>12, <2>13, Zenon DEF TidyAt
    <3>2. At(q + k)'
      BY <2>11, <2>12, Zenon DEF At
    <3>3. q + k \in 0..Len(w)
      BY <1>8, <2>9
    <3> QED
      BY <1>2, <1>7, <2>3, <2>12, <3>1, <3>2, <3>3 DEF PlaceInv, ChunkedAt
  <2>18. StreamLike
    BY <2>3, <2>4, <2>12 DEF StreamLike
  <2> QED
    BY <2>14, <2>15, <2>16, <2>17, <2>18 DEF Inv
<1> QED
  BY <1>11, <1>16, <1>17, <1>18

\* A call of Read begins where the last one ended.
LEMMA CallStep ==
  ASSUME Inv, Call
  PROVE  Inv' /\ UNCHANGED <<resp, conn, got, result>>
<1>1. PICK m \in ReadSizes : Read(m)
  BY DEF Call
<1>2. at = "idle" /\ TypeInv /\ CallInv /\ GivenInv /\ PlaceInv
  BY <1>1 DEF Read, Inv
<1>3. /\ at' = (IF resp.kind = "chunked" THEN state ELSE "data") /\ cb' = m
      /\ part' = <<>> /\ scratch' = <<>>
      /\ UNCHANGED <<resp, net, conn, buf, state, left, got, result>>
  BY <1>1 DEF Read
<1>4. m \in Nat /\ m > 0 /\ resp \in Response /\ part = <<>> /\ scratch = <<>>
      /\ resp.kind \in {"length", "chunked", "close"}
      /\ state \in {"size", "data", "term", "trailers", "done"}
  BY <1>2, DecoderConstants, ResponseParts DEF TypeInv, CallInv
<1>5. <<>> \in Seq(Bytes) /\ Len(<<>>) = 0
  OBVIOUS
<1>6. Seen' = Seen
  BY <1>3, <1>4 DEF Seen
<1>7. TypeInv'
  BY <1>2, <1>3, <1>4, <1>5 DEF TypeInv
<1>8. CallInv'
  <2>1. 0 <= m /\ 0 < SIZE_BUFF /\ 0 < 2 /\ 0 <= TRAILER_BUFF \div 2
    BY <1>4, DecoderConstants
  <2> QED
    BY <1>2, <1>3, <1>4, <1>5, <2>1, FirstInNone DEF CallInv
<1>9. GivenInv'
  BY <1>2, <1>3, <1>4, <1>6 DEF GivenInv
<1>10. PlaceInv'
  <2> SUFFICES ASSUME conn' = "held" PROVE PlaceInv'
    BY DEF PlaceInv
  <2>1. PICK p \in 0..Len(Wire(resp)) :
          /\ At(p)
          /\ resp.kind = "chunked" => ChunkedAt(p)
          /\ resp.kind = "length" => LengthAt(p)
          /\ resp.kind = "close" => CloseAt(p)
    BY <1>2, <1>3 DEF PlaceInv
  <2>2. At(p)'
    BY <1>3, <2>1 DEF At
  <2>3. ASSUME resp.kind = "chunked" PROVE ChunkedAt(p)'
    <3>1. CASE state = "size" /\ \E i \in 1..LastChunk(resp) : SizeAt(i, p)
      <4>1. PICK i \in 1..LastChunk(resp) : SizeAt(i, p)
        BY <3>1
      <4>2. SizeAt(i, p)'
        BY <1>3, <1>4, <4>1 DEF SizeAt
      <4> QED
        BY <1>3, <2>3, <3>1, <4>2 DEF ChunkedAt
    <3>2. CASE state = "data" /\ \E i \in 1..LastChunk(resp) : DataIn(i, p)
      <4>1. PICK i \in 1..LastChunk(resp) : DataIn(i, p)
        BY <3>2
      <4>2. DataIn(i, p)'
        BY <1>3, <1>4, <4>1 DEF DataIn
      <4> QED
        BY <1>3, <2>3, <3>2, <4>2 DEF ChunkedAt
    <3> QED
      BY <1>2, <2>1, <2>3, <3>1, <3>2 DEF ChunkedAt
  <2>4. resp.kind = "length" => LengthAt(p)'
    BY <1>3, <1>6, <2>1 DEF LengthAt
  <2>5. resp.kind = "close" => CloseAt(p)'
    BY <1>3, <2>1 DEF CloseAt
  <2> QED
    BY <1>3, <2>1, <2>2, <2>3, <2>4, <2>5 DEF PlaceInv
<1> QED
  BY <1>3, <1>7, <1>8, <1>9, <1>10 DEF Inv

\* A step that changes nothing.
LEMMA StutterStep ==
  ASSUME Inv, UNCHANGED vars
  PROVE  Inv'
<1>1. UNCHANGED <<resp, net, conn, buf, state, left, at, cb, part, scratch, got, result>>
  BY DEF vars
<1>2. Seen' = Seen
  BY <1>1 DEF Seen
<1>3. TypeInv' /\ CallInv' /\ GivenInv'
  BY <1>1, <1>2 DEF Inv, TypeInv, CallInv, GivenInv
<1>4. PlaceInv'
  BY <1>1, <1>2 DEF Inv, PlaceInv, At, ChunkedAt, LengthAt, CloseAt, SizeAt, DataIn, TermAt, TrailersIn, TidyAt
<1> QED
  BY <1>3, <1>4 DEF Inv

\* Before the first call the decoder is at the beginning of the response.
LEMMA InitInv ==
  ASSUME Init
  PROVE  Inv
<1>1. PICK k \in 0..Len(Wire(resp)) : buf = SubSeq(Wire(resp), 1, k) /\ net = From(Wire(resp), k + 1)
  BY DEF Init
<1>2. /\ resp \in Response /\ conn = "held" /\ state = "size" /\ at = "idle" /\ cb = 0
      /\ part = <<>> /\ scratch = <<>> /\ got = <<>> /\ result = "none"
      /\ left = (IF resp.kind = "length" THEN Len(Body(resp)) ELSE 0)
  BY DEF Init
<1>3. PICK w, v, l : w = Wire(resp) /\ v = Body(resp) /\ l = Len(w)
  OBVIOUS
<1>4. w \in Seq(Bytes) /\ l \in Nat /\ v \in Seq(Bytes) /\ Len(v) \in Nat /\ (resp.kind # "chunked" => w = v)
  BY <1>2, <1>3, WireIs, BodyIs
<1>5. Stands(w, w, 0) /\ Stands(<<>>, v, 0) /\ Stands(<<>>, w, 0)
  BY <1>4 DEF Stands
<1>6. <<>> \in Seq(Bytes) /\ Len(<<>>) = 0 /\ 0 \in Nat /\ 0 <= 0 /\ 0 + 0 = 0
  OBVIOUS
<1>7. net = SubSeq(w, k + 1, Len(w)) /\ buf = SubSeq(w, 1, k) /\ k \in 0..Len(w)
  BY <1>1, <1>3 DEF From
<1>8. /\ buf \in Seq(Bytes) /\ Len(buf) = k /\ Stands(buf, w, 0)
      /\ net \in Seq(Bytes) /\ Len(net) = Len(w) - k /\ Stands(net, w, 0 + k)
  <2>1. k \in 0..Len(w) /\ 0 \in Nat /\ Stands(w, w, 0) /\ w \in Seq(Bytes)
    BY <1>4, <1>5, <1>7
  <2>2. /\ SubSeq(w, 1, k) \in Seq(Bytes) /\ Len(SubSeq(w, 1, k)) = k /\ Stands(SubSeq(w, 1, k), w, 0)
        /\ SubSeq(w, k + 1, Len(w)) \in Seq(Bytes) /\ Len(SubSeq(w, k + 1, Len(w))) = Len(w) - k
        /\ Stands(SubSeq(w, k + 1, Len(w)), w, 0 + k)
    BY <2>1, Taken, Zenon
  <2> QED
    BY <1>7, <2>2, Zenon
<1>9. At(0)
  <2>1. 0 + k + (Len(w) - k) = Len(w) /\ k \in Nat
    BY <1>3, <1>4, <1>7
  <2> QED
    BY <1>3, <1>8, <2>1, Zenon DEF At, Reading
<1>10. Seen = <<>>
  BY <1>2, <1>6, NothingAdded DEF Seen
<1>11. TypeInv
  BY <1>2, <1>3, <1>4, <1>6, <1>8 DEF TypeInv
<1>12. CallInv
  BY <1>2, <1>6 DEF CallInv
<1>13. GivenInv
  BY <1>2, <1>3, <1>5, <1>10 DEF GivenInv
<1>14. PlaceInv
  <2>1. resp.kind = "chunked" => ChunkedAt(0)
    <3> SUFFICES ASSUME resp.kind = "chunked" PROVE ChunkedAt(0)
      OBVIOUS
    <3>1. 1 \in 1..LastChunk(resp)
      BY <1>2, ResponseParts DEF LastChunk
    <3>2. Start(resp, 1) = 0 /\ Base(resp, 1) = 0
      BY <1>2, Places, BodyIs
    <3>3. SizeAt(1, 0)
      BY <1>2, <1>3, <1>5, <1>6, <3>1, <3>2, Zenon DEF SizeAt
    <3> QED
      BY <1>2, <3>1, <3>3 DEF ChunkedAt
  <2>2. resp.kind = "length" => LengthAt(0)
    <3>1. l = l - 0
      BY <1>4
    <3> QED
      BY <1>2, <1>3, <1>4, <1>6, <1>10, <3>1 DEF LengthAt
  <2>3. resp.kind = "close" => CloseAt(0)
    BY <1>2, <1>6 DEF CloseAt
  <2>4. 0 \in 0..Len(Wire(resp))
    BY <1>3, <1>4
  <2> QED
    BY <1>9, <2>1, <2>2, <2>3, <2>4 DEF PlaceInv
<1> QED
  BY <1>11, <1>12, <1>13, <1>14 DEF Inv
-----------------------------------------------------------------------------
(* The theorems *)

\* Every step keeps the decoder where the bytes say it is.
LEMMA DecodeStep ==
  ASSUME Inv, Decode
  PROVE  Inv' /\ StreamLike
BY LengthReadStep, CloseReadStep, TidyStep, SizeReadStep, ChunkReadStep, TermReadStep,
   TrailerReadStep, DoneReadStep DEF Decode

\* The inductive invariant: the decoder knows where in the response it is, and what the application
\* has been given is the body up to there.
THEOREM InvHolds == Spec => []Inv
<1>1. Init => Inv
  BY InitInv
<1>2. Inv /\ [Next]_vars => Inv'
  BY DecodeStep, CallStep, StutterStep DEF Next
<1> QED
  BY <1>1, <1>2, PTL DEF Spec

\* Every variable has its type, and no header line or trailer outgrows the buffer it is read into.
THEOREM TypesHold == Spec => []TypeOK
<1>1. Inv => TypeOK
  <2> SUFFICES ASSUME Inv PROVE TypeOK
    OBVIOUS
  <2>1. Len(<<>>) = 0
    OBVIOUS
  <2>2. Len(scratch) <= IF at = "size" THEN SIZE_BUFF ELSE TRAILER_BUFF
    <3>1. SIZE_BUFF \in Nat /\ TRAILER_BUFF \in Nat /\ TRAILER_BUFF \div 2 >= 4 /\ scratch \in Seq(Bytes)
      BY DecoderConstants DEF Inv, TypeInv
    <3>2. TRAILER_BUFF \div 2 <= TRAILER_BUFF /\ 2 <= TRAILER_BUFF /\ Len(scratch) \in Nat
      BY <3>1
    <3> QED
      BY <2>1, <3>1, <3>2 DEF Inv, CallInv
  <2> QED
    BY <2>2 DEF Inv, TypeInv, TypeOK
<1> QED
  BY <1>1, InvHolds, PTL

\* Of a whole response no call ever reports an error, and the connection goes back to the pool
\* only when all of the response has been taken from it and nothing waits to be read: the
\* decoders are exactly in step with the response, for every one a server may send, however it
\* is cut and in whatever pieces it is read.
THEOREM StaysInStep == Spec => []InStep
<1>1. Inv => InStep
  BY DEF Inv, TypeInv, CallInv, GivenInv, InStep
<1> QED
  BY <1>1, InvHolds, PTL

\* What the application has and what it has not been given yet are the body, cut in two.
LEMMA RestIs ==
  ASSUME NEW v \in Seq(Bytes), NEW g \in Seq(Bytes), Stands(g, v, 0)
  PROVE  Len(g) = Len(v) => From(v, Len(g) + 1) = <<>>
BY RestStands DEF From

\* The next piece of the body, and what is left after it.
LEMMA PieceIs ==
  ASSUME NEW v \in Seq(Bytes), NEW g \in Seq(Bytes), NEW d \in Seq(Bytes), Stands(g \o d, v, 0)
  PROVE  /\ Len(d) <= Len(From(v, Len(g) + 1))
         /\ d = SubSeq(From(v, Len(g) + 1), 1, Len(d))
         /\ From(v, Len(g \o d) + 1) =
              SubSeq(From(v, Len(g) + 1), Len(d) + 1, Len(From(v, Len(g) + 1)))
BY PieceStands, Zenon DEF From

\* Every step of a decoder is one of BodyStream, or none that it sees.
LEMMA StreamStep ==
  ASSUME Inv, Inv', StreamLike
  PROVE  [Stream!Next]_(Stream!vars)
<1>1. PICK M : M = CHOOSE n \in ReadSizes : \A m \in ReadSizes : m <= n
  OBVIOUS
<1>2. M \in Nat /\ \A m \in ReadSizes : m \in Nat /\ m <= M
  BY <1>1, DecoderConstants
<1>3. PICK v : v = Body(resp)
  OBVIOUS
<1>4. /\ resp \in Response /\ resp' = resp /\ v \in Seq(Bytes) /\ v = Body(resp)'
      /\ got \in Seq(Bytes) /\ got' \in Seq(Bytes) /\ part \in Seq(Bytes) /\ part' \in Seq(Bytes)
  BY <1>3, BodyIs DEF Inv, TypeInv, StreamLike
<1>5. Stands(got, v, 0)
  <2>1. Stands(got \o part, v, 0)
    BY <1>3 DEF Inv, GivenInv, Seen
  <2> QED
    BY <1>4, <2>1, StandsConcat
<1>6. Stands(got', v, 0)
  <2>1. Stands(got' \o part', v, 0)
    BY <1>4 DEF Inv, GivenInv, Seen
  <2> QED
    BY <1>4, <2>1, StandsConcat
<1>7. PICK x, z, h, hh, e, ee, W :
        /\ x = From(v, Len(got) + 1) /\ z = From(v, Len(got') + 1)
        /\ h = (conn = "held") /\ hh = (conn' = "held")
        /\ e = (result = "end") /\ ee = (result' = "end") /\ W = resp.whole
  OBVIOUS
<1>8. W \in BOOLEAN /\ h \in BOOLEAN /\ hh \in BOOLEAN /\ e \in BOOLEAN /\ ee \in BOOLEAN /\ (hh => h)
  BY <1>4, <1>7, ResponseParts DEF StreamLike
<1>9. ~hh /\ W => z = <<>>
  <2> SUFFICES ASSUME ~hh, W PROVE z = <<>>
    OBVIOUS
  <2>1. Len(got') = Len(v)
    BY <1>4, <1>7 DEF Inv, GivenInv
  <2> QED
    BY <1>4, <1>6, <1>7, <2>1, RestIs
<1>10. ee => ~hh
  BY <1>7 DEF Inv, GivenInv
<1>11. CASE got' = got /\ (result' = result \/ (result' = "error" /\ result # "end"))
  <2>1. z = x /\ ee = e
    BY <1>7, <1>11
  <2>2. hh = h \/ (hh = FALSE /\ h = TRUE /\ (W => x = <<>>))
    BY <1>8, <1>9, <2>1
  <2>3. CASE hh = h
    BY <1>3, <1>4, <1>7, <1>11, <2>1, <2>3 DEF Stream!vars
  <2>4. CASE hh = FALSE /\ h = TRUE /\ (W => x = <<>>)
    BY <1>3, <1>4, <1>7, <1>11, <2>1, <2>4 DEF Stream!Next, Stream!Drop, Stream!MayEnd
  <2> QED
    BY <2>2, <2>3, <2>4
<1>12. ASSUME NEW d \in Seq(Bytes), got' = got \o d, Len(d) <= cb, cb \in ReadSizes,
              result' = (IF d = <<>> THEN "end" ELSE "more"), d # <<>> => result # "end"
       PROVE  Stream!Next
  <2>1. CASE d = <<>>
    <3>1. got' = got /\ z = x /\ ee = TRUE /\ hh = FALSE /\ (W => x = <<>>)
      BY <1>4, <1>7, <1>8, <1>9, <1>10, <1>12, <2>1, NothingAdded
    <3> QED
      BY <1>3, <1>4, <1>7, <3>1 DEF Stream!Next, Stream!End, Stream!MayEnd
  <2>2. CASE d # <<>>
    <3>1. e = FALSE /\ ee = FALSE
      BY <1>7, <1>12, <2>2
    <3>2. PICK n : n = Len(d)
      OBVIOUS
    <3>3. n \in Nat /\ n > 0 /\ n <= M
      <4>1. n \in Nat /\ n > 0
        BY <1>12, <2>2, <3>2, BytesAdded
      <4>2. cb \in Nat /\ cb <= M
        BY <1>2, <1>12
      <4> QED
        BY <1>2, <1>12, <3>2, <4>1, <4>2
    <3>4. n <= Len(x) /\ d = SubSeq(x, 1, n) /\ z = SubSeq(x, n + 1, Len(x))
      <4>1. /\ Stands(got \o d, v, 0) /\ Stands(got, v, 0)
            /\ v \in Seq(Bytes) /\ got \in Seq(Bytes) /\ d \in Seq(Bytes)
        BY <1>4, <1>5, <1>6, <1>12
      <4>2. /\ Len(d) <= Len(From(v, Len(got) + 1))
            /\ d = SubSeq(From(v, Len(got) + 1), 1, Len(d))
            /\ From(v, Len(got \o d) + 1) =
                 SubSeq(From(v, Len(got) + 1), Len(d) + 1, Len(From(v, Len(got) + 1)))
        BY <4>1, PieceIs, Zenon
      <4>3. z = From(v, Len(got \o d) + 1)
        BY <1>7, <1>12, Zenon
      <4> QED
        BY <1>7, <3>2, <4>2, <4>3, Zenon
    <3>5. n \in {m \in 1..M : m <= Len(x)}
      BY <1>2, <3>3, <3>4
    <3>6. hh \in (IF W => z = <<>> THEN {h, FALSE} ELSE {h})
      BY <1>8, <1>9
    <3>7. got' = got \o SubSeq(x, 1, n)
      BY <1>12, <3>4
    <3> QED
      BY <1>1, <1>3, <1>4, <1>7, <3>1, <3>4, <3>5, <3>6, <3>7 DEF Stream!Next, Stream!Give, Stream!MayEnd, Stream!Spans
  <2> QED
    BY <2>1, <2>2
<1> QED
  BY <1>11, <1>12 DEF StreamLike

\* Whichever the decoder, the application sees what BodyStream promises: nothing but the body, in
\* order, no more of it in a call than it asked for, an end that is final and of a whole response
\* comes only after all of it, and the connection given up no earlier than that.
THEOREM DecodersImplementStream == Spec => ImplementsStream
<1>1. Init => Stream!Init
  BY DEF Init, Stream!Init
<1>2. Inv /\ Inv' /\ [Next]_vars => [Stream!Next]_(Stream!vars)
  <2> SUFFICES ASSUME Inv, Inv', [Next]_vars PROVE [Stream!Next]_(Stream!vars)
    OBVIOUS
  <2>1. CASE Decode
    BY <2>1, DecodeStep, StreamStep
  <2>2. CASE Call \/ UNCHANGED vars
    <3>1. UNCHANGED <<resp, conn, got, result>>
      BY <2>2, CallStep DEF vars
    <3> QED
      BY <3>1 DEF Stream!vars
  <2> QED
    BY <2>1, <2>2 DEF Next
<1> QED
  BY <1>1, <1>2, InvHolds, PTL DEF Spec, ImplementsStream, Stream!Spec
=============================================================================
