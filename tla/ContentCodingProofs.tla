------------------------ MODULE ContentCodingProofs ------------------------
(***************************************************************************)
(* Machine-checked proofs about ContentCoding, for every text, however     *)
(* zlib, the reads and the network cut it: the request that is sent is the *)
(* one that was announced, and the application gets what was compressed.   *)
(***************************************************************************)
EXTENDS ContentCoding, SequenceLemmas

Kinds == {"id", "flags", "xlen", "x", "c", "nul", "hc", "zhead", "start", "z", "end", "adler", "crc", "len"}
Of(kinds) == [k : kinds, v : Seq(Nat)]
Token == Of(Kinds)

-----------------------------------------------------------------------------
(* The request.                                                            *)

\* The tokens of t, as deflate makes them
Z(t) == [i \in DOMAIN t |-> Tok("z", <<t[i]>>)]

Sending == {"ask", "source", "deflate", "return"}
\* What this pass has read
Emitted == IF pc = "ask" THEN body ELSE body \o got

RequestTypes ==
  /\ session \in Sessions
  /\ src \in 0..Len(Text) /\ crc = SubSeq(Text, 1, src)
  /\ mBuff \in Seq(Nat) /\ zOut \in Seq(Token) /\ mOut \in Seq(Token)
  /\ got \in Seq(Token) /\ body \in Seq(Token)
  /\ cOut \in Nat /\ cOut <= Len(mOut) /\ cb \in Nat
  /\ zDone \in BOOLEAN /\ srcDone \in BOOLEAN /\ eof \in BOOLEAN /\ initDone \in BOOLEAN
  /\ srcDone /\ session.whole => src = Len(Text)
  /\ zDone => srcDone /\ mBuff = <<>>

\* What zlib has put out or keeps, with its header, when it was given t
Encoded(t) == RequestHeader \o Z(t)

\* Before the first call of deflate
Fresh ==
  /\ mBuff = crc /\ zOut = <<>> /\ ~zDone /\ ~eof /\ body = <<>> /\ cOut = 0
  /\ pc # "return"
  /\ pc = "ask" => src = 0 /\ ~srcDone
  /\ pc # "ask" => got = IF session.gzip THEN RequestHeader ELSE <<>>

\* Until deflate reports the end, what was read, what zlib keeps and what it was not given yet
\* make the stream of what was read of the text
Streaming ==
  /\ cOut = 0
  /\ (Emitted \o zOut) \o Z(mBuff) = Encoded(crc) \o (IF zDone THEN EndOf(crc) ELSE <<>>)
  /\ pc = "return" => got # <<>>

\* Afterwards, only the trailer may be missing
Flushed ==
  /\ zDone /\ pc # "deflate"
  /\ IF session.gzip THEN cOut \in {0, 2} /\ mOut = Trailer(crc) ELSE cOut = 0
  /\ Emitted = (Encoded(crc) \o EndOf(crc)) \o (IF session.gzip /\ cOut = 0 THEN Trailer(crc) ELSE <<>>)

StreamInv == IF ~initDone THEN Fresh ELSE IF ~eof THEN Streaming ELSE Flushed

\* What the server refuses was spoilt, or not all of it could be read
Refused == pc = "refused" => spoilt \/ ~session.whole

RequestInv ==
  /\ RequestTypes
  /\ ~spoilt /\ pc \in Sending => StreamInv
  /\ ~spoilt /\ session.whole /\ pass # "size" => total = Len(Coded(Text))
  /\ ~spoilt /\ session.whole /\ pc = "server" => body = Coded(Text) /\ pass # "size"
  /\ Refused

\* A session has the type its declaration gives it.
LEMMA SessionIs ==
  ASSUME session \in Sessions
  PROVE  Text \in Seq(Nat) /\ session.room \in Nat /\ session.gzip \in BOOLEAN /\ session.whole \in BOOLEAN
BY CodingSessions DEF SessionType, Text

\* The checksum stands for a text.
LEMMA CrcIs ==
  ASSUME RequestTypes
  PROVE  crc \in Seq(Nat)
<1>1. Text \in Seq(Nat) /\ src \in 0..Len(Text) /\ crc = SubSeq(Text, 1, src)
  BY SessionIs DEF RequestTypes
<1>2. SubSeq(Text, 1, src) \in Seq(Nat)
  BY <1>1
<1> QED
  BY <1>1, <1>2

\* The request's parts are tokens.
LEMMA PartsAre ==
  ASSUME NEW t \in Seq(Nat)
  PROVE  /\ Z(t) \in Seq(Token) /\ Len(Z(t)) = Len(t) /\ RequestHeader \in Seq(Token) /\ EndOf(t) \in Seq(Token)
         /\ Trailer(t) \in Seq(Token) /\ Len(Trailer(t)) = 2
         /\ session.gzip => Len(RequestHeader) = 2
<1>1. \A v \in Seq(Nat) :
        /\ Tok("z", v) \in Token /\ Tok("id", v) \in Token /\ Tok("flags", v) \in Token
        /\ Tok("zhead", v) \in Token /\ Tok("end", v) \in Token /\ Tok("adler", v) \in Token
        /\ Tok("crc", v) \in Token /\ Tok("len", v) \in Token
  BY DEF Tok, Token, Of, Kinds
<1>2. <<>> \in Seq(Nat) /\ <<Len(t)>> \in Seq(Nat) /\ \A i \in DOMAIN t : <<t[i]>> \in Seq(Nat)
  OBVIOUS
<1> HIDE DEF Token
<1>3. Z(t) \in Seq(Token) /\ Len(Z(t)) = Len(t)
  <2>1. \A i \in DOMAIN t : Tok("z", <<t[i]>>) \in Token
    BY <1>1, <1>2
  <2>2. DOMAIN t = 1..Len(t) /\ Len(t) \in Nat
    OBVIOUS
  <2>3. PICK z : z = Z(t)
    OBVIOUS
  <2>4. z \in [1..Len(t) -> Token]
    BY <2>1, <2>2, <2>3 DEF Z
  <2>5. z \in Seq(Token) /\ Len(z) = Len(t)
    BY <2>2, <2>4
  <2> QED
    BY <2>3, <2>5
<1>4. \A x \in Token : <<x>> \in Seq(Token)
  OBVIOUS
<1>5. \A x, y \in Token : <<x, y>> \in Seq(Token) /\ Len(<<x, y>>) = 2
  OBVIOUS
<1>6. EndOf(t) \in Seq(Token)
  BY <1>1, <1>2, <1>4 DEF EndOf
<1>7. Trailer(t) \in Seq(Token) /\ Len(Trailer(t)) = 2
  BY <1>1, <1>2, <1>5 DEF Trailer
<1>8. RequestHeader \in Seq(Token) /\ (session.gzip => Len(RequestHeader) = 2)
  BY <1>1, <1>2, <1>4, <1>5 DEF RequestHeader
<1> QED
  BY <1>3, <1>6, <1>7, <1>8

\* Tokens, one after the other.
LEMMA TokensConcat ==
  ASSUME NEW x \in Seq(Token), NEW y \in Seq(Token)
  PROVE  /\ x \o y \in Seq(Token) /\ Len(x \o y) = Len(x) + Len(y)
         /\ \A i \in 1..Len(x) : (x \o y)[i] = x[i]
         /\ \A i \in 1..Len(y) : (x \o y)[Len(x) + i] = y[i]
BY ConcatIs

\* The tokens of two texts, one after the other.
LEMMA ZConcat ==
  ASSUME NEW s \in Seq(Nat), NEW t \in Seq(Nat)
  PROVE  Z(s \o t) = Z(s) \o Z(t)
<1>1. PICK c, x, y, z : c = s \o t /\ x = Z(s) /\ y = Z(t) /\ z = Z(c)
  OBVIOUS
<1>2. c \in Seq(Nat) /\ Len(c) = Len(s) + Len(t)
      /\ (\A i \in 1..Len(s) : c[i] = s[i]) /\ (\A i \in 1..Len(t) : c[Len(s) + i] = t[i])
  BY <1>1, ConcatIs
<1>3. /\ x \in Seq(Token) /\ Len(x) = Len(s) /\ y \in Seq(Token) /\ Len(y) = Len(t)
      /\ z \in Seq(Token) /\ Len(z) = Len(s) + Len(t)
  BY <1>1, <1>2, PartsAre
<1>4. /\ \A i \in 1..Len(s) : x[i] = Tok("z", <<s[i]>>)
      /\ \A i \in 1..Len(t) : y[i] = Tok("z", <<t[i]>>)
      /\ \A i \in 1..Len(s) + Len(t) : z[i] = Tok("z", <<c[i]>>)
  <2>1. /\ DOMAIN s = 1..Len(s) /\ DOMAIN t = 1..Len(t) /\ DOMAIN c = 1..Len(s) + Len(t)
    BY <1>2
  <2> QED
    BY <1>1, <2>1 DEF Z
<1>5. PICK w : w = x \o y
  OBVIOUS
<1>6. /\ w \in Seq(Token) /\ Len(w) = Len(s) + Len(t)
      /\ (\A i \in 1..Len(s) : w[i] = x[i]) /\ (\A i \in 1..Len(t) : w[Len(s) + i] = y[i])
  <2>1. /\ w \in Seq(Token) /\ Len(w) = Len(x) + Len(y)
        /\ (\A i \in 1..Len(x) : w[i] = x[i]) /\ (\A i \in 1..Len(y) : w[Len(x) + i] = y[i])
    <3>1. /\ x \o y \in Seq(Token) /\ Len(x \o y) = Len(x) + Len(y)
          /\ (\A i \in 1..Len(x) : (x \o y)[i] = x[i]) /\ (\A i \in 1..Len(y) : (x \o y)[Len(x) + i] = y[i])
      BY <1>3, TokensConcat, Zenon
    <3> QED
      BY <1>5, <3>1, Zenon
  <2> QED
    BY <1>3, <2>1, Zenon
<1>7. ASSUME NEW i \in 1..Len(s) + Len(t) PROVE z[i] = w[i]
  <2>1. Len(s) \in Nat /\ Len(t) \in Nat
    OBVIOUS
  <2>2. CASE i \in 1..Len(s)
    BY <1>2, <1>4, <1>6, <2>2
  <2>3. CASE i \notin 1..Len(s)
    <3>1. PICK j \in 1..Len(t) : i = Len(s) + j
      <4>1. i - Len(s) \in 1..Len(t) /\ i = Len(s) + (i - Len(s))
        BY <2>1, <2>3
      <4> QED
        BY <4>1
    <3>2. z[i] = Tok("z", <<c[i]>>) /\ c[i] = t[j] /\ w[i] = y[j] /\ y[j] = Tok("z", <<t[j]>>)
      BY <1>2, <1>4, <1>6, <3>1
    <3> QED
      BY <3>2
  <2> QED
    BY <2>2, <2>3
<1>8. z = w
  BY <1>3, <1>6, <1>7, SeqEqual
<1> QED
  BY <1>1, <1>5, <1>8

\* Concatenation is associative.
Assoc(a, b, c) == a \o b \in Seq(Token) /\ (a \o b) \o c = a \o (b \o c)

\* It does not matter how three sequences of tokens are bracketed.
LEMMA Brackets ==
  ASSUME NEW a \in Seq(Token), NEW b \in Seq(Token), NEW c \in Seq(Token)
  PROVE  Assoc(a, b, c)
<1>1. a \o b \in Seq(Token)
  BY ConcatIs, Zenon
<1>2. Associates(a, b, c)
  BY ConcatAssociates, Zenon
<1> QED
  BY <1>1, <1>2, Zenon DEF Assoc, Associates

\* Different ways to put together what a turn of deflate brings.
Regrouped(b, g, p, q, s, y, e, z) ==
  p \o q = (s \o y) \o e => ((b \o (g \o p)) \o q) \o z = ((((b \o g) \o s) \o y) \o e) \o z

\* What is left in the buffers, brought by the turn and brought before comes out the same either way.
LEMMA Regroup ==
  ASSUME NEW b \in Seq(Token), NEW g \in Seq(Token), NEW p \in Seq(Token), NEW q \in Seq(Token),
         NEW s \in Seq(Token), NEW y \in Seq(Token), NEW e \in Seq(Token), NEW z
  PROVE  Regrouped(b, g, p, q, s, y, e, z)
<1> SUFFICES ASSUME p \o q = (s \o y) \o e
             PROVE  ((b \o (g \o p)) \o q) \o z = ((((b \o g) \o s) \o y) \o e) \o z
  BY Zenon DEF Regrouped
<1>1. PICK h, w : h = b \o g /\ w = s \o y
  OBVIOUS
<1>2. Assoc(b, g, p) /\ Assoc(s, y, e)
  BY Brackets, Zenon
<1>3. h \in Seq(Token) /\ w \in Seq(Token)
  BY <1>1, <1>2, Zenon DEF Assoc
<1>4. Assoc(h, p, q) /\ Assoc(h, w, e) /\ Assoc(h, s, y)
  BY <1>3, Brackets, Zenon
<1>5. (h \o p) \o q = h \o (w \o e)
  BY <1>1, <1>4, Zenon DEF Assoc
<1>6. h \o (w \o e) = ((h \o s) \o y) \o e
  BY <1>1, <1>4, Zenon DEF Assoc
<1>7. b \o (g \o p) = h \o p
  BY <1>1, <1>2, Zenon DEF Assoc
<1> QED
  BY <1>1, <1>5, <1>6, <1>7, Zenon

\* Nothing is put before or after the tokens.
LEMMA NoTokens ==
  /\ <<>> \in Seq(Token) /\ Z(<<>>) = <<>>
  /\ \A x \in Seq(Token) : x \o <<>> = x /\ <<>> \o x = x
<1>1. Z(<<>>) = <<>>
  <2>1. <<>> \in Seq(Nat) /\ Len(<<>>) = 0
    OBVIOUS
  <2>2. Z(<<>>) \in Seq(Token) /\ Len(Z(<<>>)) = 0
    BY <2>1, PartsAre, Zenon
  <2> QED
    BY <2>2
<1> QED
  BY <1>1

\* What a turn of deflate does: it takes m1 of what it was given, p goes to the caller, and q stays.
Start == IF ~initDone /\ ~session.gzip THEN RequestHeader ELSE zOut
Turn(m1, m2, p, q, ends, over) ==
  /\ mBuff = m1 \o m2 /\ mBuff' = m2
  /\ p \o q = (Start \o Z(m1)) \o (IF ends THEN EndOf(crc) ELSE <<>>)
  /\ zOut' = q /\ got' = got \o p
  /\ ends => srcDone /\ ~zDone /\ m2 = <<>>
  /\ zDone' = (zDone \/ ends)
  /\ eof' = over
  /\ over => zDone' /\ q = <<>>
  /\ IF over THEN GenerateTrailer ELSE UNCHANGED <<mOut, cOut>>
  /\ cb' \in Nat /\ cb = cb' + Len(p)
  /\ pc' \in {"source", "return"} /\ (pc' = "return" => over \/ p # <<>>)

\* A turn of deflate moves bytes of the text from m_buff into the stream, and of the stream to the caller.
LEMMA DeflateTurn ==
  ASSUME RequestTypes, Deflate
  PROVE  \E m1, m2 \in Seq(Nat), p, q \in Seq(Token), ends, over \in BOOLEAN :
            Turn(m1, m2, p, q, ends, over)
<1>1. PICK m \in 0..Len(mBuff) :
       LET ends == srcDone /\ m = Len(mBuff) /\ ~zDone
           pending == (Start \o [i \in 1..m |-> Tok("z", <<mBuff[i]>>)])
                            \o IF ends THEN EndOf(crc) ELSE <<>>
       IN \E k \in 0..Least(cb, Len(pending)), over \in BOOLEAN :
            /\ m < Len(mBuff) => k = cb
            /\ srcDone => k = Least(cb, Len(pending))
            /\ mBuff' = From(mBuff, m + 1)
            /\ zOut' = From(pending, k + 1)
            /\ zDone' = (zDone \/ ends)
            /\ LET flushed == srcDone /\ zDone' /\ k = Len(pending)
               IN /\ over => flushed /\ (session.gzip => k < cb)
                  /\ flushed /\ k < cb => over
            /\ got' = got \o SubSeq(pending, 1, k)
            /\ cb' = cb - k
            /\ eof' = over
            /\ IF over THEN GenerateTrailer ELSE UNCHANGED <<mOut, cOut>>
            /\ pc' = IF ~over /\ TopsUp(k, cb - k) THEN "source" ELSE "return"
  BY Zenon DEF Deflate, Start
<1>2. PICK m1, m2, y : m1 = SubSeq(mBuff, 1, m) /\ m2 = From(mBuff, m + 1) /\ y = Z(m1)
  OBVIOUS
<1>3. /\ m1 \in Seq(Nat) /\ m2 \in Seq(Nat) /\ Len(m1) = m /\ mBuff = m1 \o m2
      /\ m = Len(mBuff) => m2 = <<>>
  <2>1. mBuff \in Seq(Nat)
    BY DEF RequestTypes
  <2>2. /\ m1 \in Seq(Nat) /\ m2 \in Seq(Nat) /\ Len(m1) = m /\ mBuff = m1 \o m2
        /\ Len(m2) = Len(mBuff) - m
    BY <1>2, <2>1, CutIs, Zenon DEF From
  <2> QED
    BY <2>1, <2>2
<1>4. y = [i \in 1..m |-> Tok("z", <<mBuff[i]>>)]
  <2>1. DOMAIN m1 = 1..m /\ \A i \in 1..m : m1[i] = mBuff[i]
    BY <1>2, <1>3 DEF RequestTypes
  <2> QED
    BY <1>2, <2>1 DEF Z
<1>5. PICK ends, e : ends \in BOOLEAN /\ ends = (srcDone /\ m = Len(mBuff) /\ ~zDone)
                                 /\ e = IF ends THEN EndOf(crc) ELSE <<>>
  OBVIOUS
<1>6. PICK pending : pending = (Start \o y) \o e
  OBVIOUS
<1>7. PICK k \in 0..Least(cb, Len(pending)), over \in BOOLEAN :
        /\ mBuff' = m2
        /\ zOut' = From(pending, k + 1)
        /\ zDone' = (zDone \/ ends)
        /\ over => k = Len(pending) /\ srcDone /\ zDone'
        /\ got' = got \o SubSeq(pending, 1, k)
        /\ cb' = cb - k
        /\ eof' = over
        /\ IF over THEN GenerateTrailer ELSE UNCHANGED <<mOut, cOut>>
        /\ pc' = IF ~over /\ TopsUp(k, cb - k) THEN "source" ELSE "return"
  BY <1>1, <1>2, <1>4, <1>5, <1>6
<1>8. pending \in Seq(Token)
  <2>1. crc \in Seq(Nat)
    BY CrcIs
  <2>2. Start \in Seq(Token) /\ y \in Seq(Token) /\ e \in Seq(Token)
    BY <1>2, <1>3, <1>5, <2>1, PartsAre, NoTokens DEF Start, RequestTypes
  <2>3. Start \o y \in Seq(Token)
    BY <2>2, TokensConcat, Zenon
  <2> QED
    BY <1>6, <2>2, <2>3, TokensConcat, Zenon
<1>9. cb \in Nat /\ Len(pending) \in Nat
  BY <1>8 DEF RequestTypes
<1>10. k \in 0..Len(pending) /\ k \in Nat /\ cb - k \in Nat
  BY <1>9 DEF Least
<1>11. PICK p, q : p = SubSeq(pending, 1, k) /\ q = From(pending, k + 1)
  OBVIOUS
<1>12. p \in Seq(Token) /\ q \in Seq(Token) /\ Len(p) = k /\ Len(q) = Len(pending) - k /\ p \o q = pending
  BY <1>8, <1>10, <1>11, CutIs, Zenon DEF From
<1>13. (over => q = <<>>) /\ (k # 0 => p # <<>>)
  <2>1. k = Len(pending) => Len(q) = 0
    BY <1>9, <1>10, <1>12
  <2> QED
    BY <1>7, <1>12, <2>1
<1>14. Turn(m1, m2, p, q, ends, over)
  <2>1. mBuff = m1 \o m2 /\ mBuff' = m2
    BY <1>3, <1>7, Zenon
  <2>2. p \o q = (Start \o Z(m1)) \o (IF ends THEN EndOf(crc) ELSE <<>>)
    BY <1>2, <1>5, <1>6, <1>12, Zenon
  <2>3. zOut' = q /\ got' = got \o p /\ eof' = over /\ zDone' = (zDone \/ ends)
    BY <1>7, <1>11, Zenon
  <2>4. ends => srcDone /\ ~zDone /\ m2 = <<>>
    BY <1>3, <1>5, Zenon
  <2>5. over => zDone' /\ q = <<>>
    BY <1>7, <1>13, Zenon
  <2>6. cb' \in Nat /\ cb = cb' + Len(p)
    BY <1>7, <1>9, <1>10, <1>12
  <2>7. pc' \in {"source", "return"} /\ (pc' = "return" => over \/ p # <<>>)
    BY <1>7, <1>13 DEF TopsUp
  <2>8. IF over THEN GenerateTrailer ELSE UNCHANGED <<mOut, cOut>>
    BY <1>7
  <2> QED
    BY <2>1, <2>2, <2>3, <2>4, <2>5, <2>6, <2>7, <2>8, Zenon DEF Turn
<1> QED
  BY <1>3, <1>5, <1>7, <1>12, <1>14, Zenon

\* Reading the request keeps the types.
LEMMA RequestTypesNext ==
  ASSUME RequestTypes, Ask \/ Source \/ Deflate \/ Return
  PROVE  RequestTypes'
<1>1. Text \in Seq(Nat) /\ session.room \in Nat /\ session.gzip \in BOOLEAN
  BY SessionIs DEF RequestTypes
<1>2. BUF \in Nat
  BY CodingConstants
<1>3. session' = session /\ Text' = Text
  BY DEF Ask, Source, Deflate, Return, Text
<1>4. \A t \in Seq(Nat) : Trailer(t) \in Seq(Token) /\ EndOf(t) \in Seq(Token) /\ RequestHeader \in Seq(Token)
  BY PartsAre
<1>5. crc \in Seq(Nat)
  BY <1>1, SMTT(30) DEF RequestTypes
<1>0. mOut \in Seq(Token) /\ cOut \in Nat /\ cOut <= Len(mOut)
  BY DEF RequestTypes
<1>6. CASE Ask
  <2>1. PICK n, bytes, have, c :
          /\ n = Asked
          /\ bytes = IF session.gzip /\ ~initDone THEN RequestHeader ELSE mOut
          /\ have = IF session.gzip /\ ~initDone THEN HDR ELSE cOut
          /\ c = IF session.gzip THEN Least(have, n) ELSE 0
          /\ mOut' = bytes /\ cOut' = have - c /\ got' = SubSeq(bytes, 1, c) /\ cb' = n
    BY <1>6 DEF Ask
  <2>2. n \in Nat /\ have \in Nat /\ bytes \in Seq(Token)
    BY <1>1, <1>2, <1>4, <1>5, <2>1 DEF RequestTypes, HDR, Asked
  <2>3. c \in Nat /\ c <= have
    <3>1. have \in Nat /\ n \in Nat /\ c = IF session.gzip THEN Least(have, n) ELSE 0
      BY <2>1, <2>2
    <3> QED
      BY <3>1 DEF Least
  <2>6. have <= Len(bytes)
    <3>1. session.gzip => Len(RequestHeader) = 2
      BY <1>5, PartsAre
    <3>2. CASE session.gzip /\ ~initDone
      BY <2>1, <3>1, <3>2, SMTT(30) DEF HDR
    <3>3. CASE ~(session.gzip /\ ~initDone)
      BY <1>0, <2>1, <3>3
    <3> QED
      BY <3>2, <3>3
  <2>4. mOut' \in Seq(Token) /\ cOut' \in Nat /\ cb' \in Nat /\ cOut' <= Len(mOut')
    BY <2>1, <2>2, <2>3, <2>6
  <2>5. got' \in Seq(Token)
    BY <2>1, <2>2, <2>3, <2>6
  <2> QED
    BY <1>3, <1>6, <2>4, <2>5 DEF Ask, RequestTypes
<1>7. CASE Source
  <2>1. PICK n \in 0..Len(Text) - src :
          /\ ~srcDone => n \in Pieces \/ (n = 0 /\ (src = Len(Text) \/ ~session.whole))
          /\ srcDone => n = 0
          /\ mBuff' = mBuff \o SubSeq(Text, src + 1, src + n)
          /\ crc' = crc \o SubSeq(Text, src + 1, src + n)
          /\ src' = src + n
          /\ srcDone' = (n = 0)
    BY <1>7 DEF Source
  <2>2. src \in 0..Len(Text) /\ Len(Text) \in Nat /\ src \in Nat
    BY <1>1 DEF RequestTypes
  <2>3. SubSeq(Text, src + 1, src + n) \in Seq(Nat)
    BY <1>1, <2>2
  <2>4. mBuff' \in Seq(Nat)
    BY <2>1, <2>3 DEF RequestTypes
  <2>5. src' \in 0..Len(Text)
    BY <2>1, <2>2
  <2>6. crc' = SubSeq(Text, 1, src')
    <3>1. 1 \in 1..Len(Text) + 1 /\ src \in 1 - 1..Len(Text) /\ src + n \in src..Len(Text)
      BY <2>1, <2>2
    <3>2. SubSeq(Text, 1, src) \o SubSeq(Text, src + 1, src + n) = SubSeq(Text, 1, src + n)
      BY <1>1, <3>1, ConcatAdjacentSubSeq
    <3> QED
      BY <2>1, <3>2 DEF RequestTypes
  <2>7. srcDone' \in BOOLEAN /\ (srcDone' /\ session.whole => src' = Len(Text))
    BY <2>1, <2>2, CodingConstants DEF RequestTypes
  <2>8. zDone => srcDone' /\ mBuff' = <<>>
    <3> SUFFICES ASSUME zDone PROVE srcDone' /\ mBuff' = <<>>
      OBVIOUS
    <3>1. srcDone /\ mBuff = <<>>
      BY DEF RequestTypes
    <3>2. n = 0
      BY <2>1, <3>1
    <3>3. SubSeq(Text, src + 1, src + n) = <<>>
      BY <1>1, <2>2, <3>2
    <3>4. <<>> \o <<>> = <<>>
      OBVIOUS
    <3> QED
      BY <2>1, <3>1, <3>2, <3>3, <3>4, Zenon
  <2> QED
    BY <1>3, <1>7, <2>4, <2>5, <2>6, <2>7, <2>8 DEF Source, RequestTypes
<1>8. CASE Deflate
  <2>1. PICK m1, m2 \in Seq(Nat), p, q \in Seq(Token), ends, over \in BOOLEAN :
           Turn(m1, m2, p, q, ends, over)
    BY <1>8, DeflateTurn
  <2>2. mBuff' \in Seq(Nat) /\ zOut' \in Seq(Token) /\ cb' \in Nat /\ eof' \in BOOLEAN /\ zDone' \in BOOLEAN
    BY <2>1 DEF Turn, RequestTypes
  <2>3. got' \in Seq(Token)
    <3>1. got' = got \o p /\ got \in Seq(Token)
      BY <2>1 DEF Turn, RequestTypes
    <3> QED
      BY <3>1, TokensConcat, Zenon
  <2>4. zDone' => srcDone /\ mBuff' = <<>>
    <3>1. CASE ends
      BY <2>1, <3>1 DEF Turn
    <3>2. CASE ~ends
      <4>1. SUFFICES ASSUME zDone PROVE srcDone /\ mBuff' = <<>>
        BY <2>1, <3>2 DEF Turn
      <4>2. srcDone /\ mBuff = <<>> /\ mBuff = m1 \o m2 /\ mBuff' = m2
        BY <2>1, <4>1 DEF Turn, RequestTypes
      <4>3. Len(m1) + Len(m2) = 0
        <5>1. Len(m1 \o m2) = Len(m1) + Len(m2)
          BY ConcatIs
        <5>2. Len(<<>>) = 0
          OBVIOUS
        <5> QED
          BY <4>2, <5>1, <5>2
      <4> QED
        BY <4>2, <4>3
    <3> QED
      BY <3>1, <3>2
  <2>5. mOut' \in Seq(Token) /\ cOut' \in Nat /\ cOut' <= Len(mOut')
    <3>1. Trailer(crc) \in Seq(Token) /\ Len(Trailer(crc)) = 2
      BY <1>5, PartsAre
    <3>2. CASE over /\ session.gzip
      <4>1. mOut' = Trailer(crc) /\ cOut' = 2
        BY <2>1, <3>2 DEF Turn, GenerateTrailer
      <4>2. mOut' \in Seq(Token) /\ Len(mOut') = cOut'
        BY <3>1, <4>1, Zenon
      <4>3. cOut' \in Nat /\ cOut' <= cOut'
        BY <4>1
      <4> QED
        BY <4>2, <4>3, Zenon
    <3>3. CASE ~(over /\ session.gzip)
      <4>1. mOut' = mOut /\ cOut' = cOut
        BY <2>1, <3>3, SMTT(30) DEF Turn, GenerateTrailer
      <4> QED
        BY <1>0, <4>1
    <3> QED
      BY <3>2, <3>3
  <2>6. UNCHANGED <<session, src, crc, body, srcDone>> /\ initDone' = TRUE
    BY <1>8 DEF Deflate
  <2> QED
    BY <1>3, <2>2, <2>3, <2>4, <2>5, <2>6 DEF RequestTypes
<1>9. CASE Return
  <2>1. body' \in Seq(Token)
    <3>1. body \in Seq(Token) /\ got \in Seq(Token)
      BY DEF RequestTypes
    <3>2. body \o got \in Seq(Token)
      BY <3>1, TokensConcat
    <3>3. body' = body \o got \/ body' = <<>> \/ body' = body
      BY <1>9 DEF Return
    <3> QED
      BY <3>1, <3>2, <3>3, NoTokens
  <2>2. CASE UNCHANGED reading
    BY <1>3, <2>1, <2>2 DEF RequestTypes, reading
  <2>3. CASE Reset /\ UNCHANGED <<cb, got>>
    <3>1. SubSeq(Text, 1, 0) = <<>> /\ 0 \in 0..Len(Text)
      BY <1>1
    <3>2. mOut' = mOut /\ cOut' = 0 /\ cOut' <= Len(mOut')
      BY <1>0, <2>3 DEF Reset, ResetGzip
    <3>3. /\ src' = 0 /\ mBuff' = <<>> /\ zOut' = <<>> /\ zDone' = FALSE
          /\ initDone' = FALSE /\ srcDone' = FALSE /\ eof' = FALSE /\ crc' = <<>>
          /\ cb' = cb /\ got' = got
      BY <2>3 DEF Reset, ResetGzip
    <3>4. mBuff' \in Seq(Nat) /\ zOut' \in Seq(Token)
      BY <3>3, NoTokens
    <3>5. session \in Sessions /\ got \in Seq(Token) /\ cb \in Nat
      BY DEF RequestTypes
    <3> QED
      BY <1>0, <1>3, <2>1, <3>1, <3>2, <3>3, <3>4, <3>5 DEF RequestTypes
  <2> QED
    BY <1>9, <2>2, <2>3 DEF Return
<1> QED
  BY <1>6, <1>7, <1>8, <1>9


\* What is there to be joined, and its types.
LEMMA StreamTypes ==
  ASSUME RequestTypes
  PROVE  /\ body \in Seq(Token) /\ got \in Seq(Token) /\ body \o got \in Seq(Token)
         /\ zOut \in Seq(Token) /\ mOut \in Seq(Token) /\ mBuff \in Seq(Nat) /\ crc \in Seq(Nat)
         /\ Emitted \in Seq(Token) /\ Z(mBuff) \in Seq(Token) /\ Z(crc) \in Seq(Token)
         /\ RequestHeader \in Seq(Token) /\ Encoded(crc) \in Seq(Token) /\ EndOf(crc) \in Seq(Token)
         /\ Trailer(crc) \in Seq(Token) /\ Len(Trailer(crc)) = 2
         /\ Encoded(crc) \o EndOf(crc) \in Seq(Token)
         /\ session.gzip \in BOOLEAN
         /\ Start \in Seq(Token)
<1>1. /\ body \in Seq(Token) /\ got \in Seq(Token) /\ zOut \in Seq(Token) /\ mOut \in Seq(Token)
      /\ mBuff \in Seq(Nat)
  BY DEF RequestTypes
<1>2. crc \in Seq(Nat) /\ session.gzip \in BOOLEAN
  BY CrcIs, SessionIs DEF RequestTypes
<1>3. body \o got \in Seq(Token)
  BY <1>1, TokensConcat, Zenon
<1>4. /\ Z(mBuff) \in Seq(Token) /\ Z(crc) \in Seq(Token) /\ RequestHeader \in Seq(Token)
      /\ EndOf(crc) \in Seq(Token) /\ Trailer(crc) \in Seq(Token) /\ Len(Trailer(crc)) = 2
  BY <1>1, <1>2, PartsAre, Zenon
<1>5. Encoded(crc) \in Seq(Token)
  BY <1>4, TokensConcat, Zenon DEF Encoded
<1>6. Encoded(crc) \o EndOf(crc) \in Seq(Token)
  BY <1>4, <1>5, TokensConcat, Zenon
<1>7. Emitted \in Seq(Token)
  BY <1>1, <1>3, Zenon DEF Emitted
<1>8. Start \in Seq(Token)
  BY <1>1, <1>4, Zenon DEF Start
<1> QED
  BY <1>1, <1>2, <1>3, <1>4, <1>5, <1>6, <1>7, <1>8, Zenon

\* A read begins with what m_outBuff has, and that is all of the header or of the trailer unless
\* the request is spoilt.
LEMMA AskStream ==
  ASSUME RequestTypes, StreamInv, pc = "ask", Ask, ~spoilt'
  PROVE  StreamInv'
<1>1. PICK bytes, have, c :
        /\ bytes = IF session.gzip /\ ~initDone THEN RequestHeader ELSE mOut
        /\ have = IF session.gzip /\ ~initDone THEN HDR ELSE cOut
        /\ c = IF session.gzip THEN Least(have, Asked) ELSE 0
        /\ mOut' = bytes /\ cOut' = have - c /\ got' = SubSeq(bytes, 1, c)
        /\ ~(c # have)
  BY DEF Ask
<1>2. /\ UNCHANGED <<session, src, mBuff, zOut, zDone, initDone, srcDone, eof, crc, body>>
      /\ pc' = "source"
  BY DEF Ask
<1>3. Emitted = body /\ Emitted' = body \o got'
  BY <1>2 DEF Emitted
<1>4. c = have /\ cOut' = 0 /\ got' = SubSeq(bytes, 1, have)
  BY <1>1 DEF HDR, RequestTypes
<1>5. /\ body \in Seq(Token) /\ mOut \in Seq(Token) /\ RequestHeader \in Seq(Token)
      /\ (session.gzip => Len(RequestHeader) = 2) /\ session.gzip \in BOOLEAN
      /\ crc \in Seq(Nat) /\ Trailer(crc) \in Seq(Token) /\ Len(Trailer(crc)) = 2
      /\ Encoded(crc) \o EndOf(crc) \in Seq(Token)
  BY StreamTypes, PartsAre
<1>6. \A x \in Seq(Token) : SubSeq(x, 1, 0) = <<>> /\ (Len(x) = 2 => SubSeq(x, 1, 2) = x)
  <2>1. \A x \in Seq(Token) : SubSeq(x, 1, Len(x)) = x
    BY SubSeqFull
  <2>2. \A x \in Seq(Token) : SubSeq(x, 1, 0) = <<>>
    OBVIOUS
  <2> QED
    BY <2>1, <2>2, Zenon
<1>7. UNCHANGED <<Encoded(crc), EndOf(crc), Trailer(crc), RequestHeader, Z(mBuff), zOut>>
  BY <1>2 DEF Encoded, EndOf, Trailer, RequestHeader, Z
<1>8. CASE ~initDone
  <2>1. Fresh
    BY <1>8 DEF StreamInv
  <2>2. got' = IF session.gzip THEN RequestHeader ELSE <<>>
    <3>1. CASE session.gzip
      BY <1>1, <1>4, <1>5, <1>6, <1>8, <3>1 DEF HDR
    <3>2. CASE ~session.gzip
      BY <1>1, <1>4, <1>5, <1>6, <3>2
    <3> QED
      BY <3>1, <3>2
  <2>3. Fresh'
    BY <1>2, <1>4, <1>7, <2>1, <2>2 DEF Fresh
  <2> QED
    BY <1>2, <1>8, <2>3 DEF StreamInv
<1>9. CASE initDone /\ cOut = 0
  <2>1. bytes \in Seq(Token) /\ have = 0
    BY <1>1, <1>5, <1>9
  <2>2. got' = <<>>
    BY <1>4, <1>6, <2>1, Zenon
  <2>3. Emitted' = Emitted
    BY <1>3, <1>5, <2>2, NoTokens, Zenon
  <2>4. CASE ~eof
    <3>1. Streaming
      BY <1>9, <2>4 DEF StreamInv
    <3>2. Streaming'
      BY <1>2, <1>4, <1>7, <2>3, <3>1 DEF Streaming
    <3> QED
      BY <1>2, <1>9, <2>4, <3>2 DEF StreamInv
  <2>5. CASE eof
    <3>1. Flushed
      BY <1>9, <2>5 DEF StreamInv
    <3>2. mOut' = mOut
      BY <1>1, <1>9
    <3>3. Flushed'
      BY <1>2, <1>4, <1>7, <1>9, <2>3, <3>1, <3>2 DEF Flushed
    <3> QED
      BY <1>2, <1>9, <2>5, <3>3 DEF StreamInv
  <2> QED
    BY <2>4, <2>5
<1>10. CASE initDone /\ cOut # 0
  <2>1. eof /\ Flushed
    BY <1>10 DEF StreamInv, Streaming
  <2>2. session.gzip /\ cOut = 2 /\ mOut = Trailer(crc)
    BY <1>10, <2>1 DEF Flushed
  <2>3. mOut' = Trailer(crc) /\ have = 2 /\ bytes = Trailer(crc)
    BY <1>1, <1>10, <2>2
  <2>4. got' = Trailer(crc)
    BY <1>4, <1>5, <1>6, <2>3, Zenon
  <2>5. body = Encoded(crc) \o EndOf(crc)
    BY <1>3, <1>5, <2>1, <2>2, NoTokens DEF Flushed
  <2>6. Flushed'
    BY <1>2, <1>3, <1>4, <1>7, <2>1, <2>2, <2>3, <2>4, <2>5 DEF Flushed
  <2> QED
    BY <1>2, <1>10, <2>1, <2>6 DEF StreamInv
<1> QED
  BY <1>8, <1>9, <1>10


\* What is read of the text is one more piece of it in m_buff and in the checksum.
LEMMA SourceStream ==
  ASSUME RequestTypes, StreamInv, Source
  PROVE  StreamInv'
<1>1. PICK n \in 0..Len(Text) - src :
        /\ srcDone => n = 0
        /\ mBuff' = mBuff \o SubSeq(Text, src + 1, src + n)
        /\ crc' = crc \o SubSeq(Text, src + 1, src + n)
        /\ src' = src + n
        /\ srcDone' = (n = 0)
  BY DEF Source
<1>2. /\ UNCHANGED <<session, zOut, zDone, initDone, eof, mOut, cOut, got, body>>
      /\ pc = "source" /\ pc' = IF eof THEN "return" ELSE "deflate"
  BY DEF Source
<1>3. PICK d : d = SubSeq(Text, src + 1, src + n)
  OBVIOUS
<1>4. Text \in Seq(Nat) /\ src \in 0..Len(Text) /\ Len(Text) \in Nat
  BY SessionIs DEF RequestTypes
<1>5. d \in Seq(Nat) /\ (n = 0 => d = <<>>)
  BY <1>3, <1>4
<1>6. mBuff \in Seq(Nat) /\ crc \in Seq(Nat) /\ mBuff' = mBuff \o d /\ crc' = crc \o d
  BY <1>1, <1>3, CrcIs DEF RequestTypes
<1>7. n = 0 => mBuff' = mBuff /\ crc' = crc
  <2>1. mBuff \o <<>> = mBuff /\ crc \o <<>> = crc
    BY <1>6, ConcatEmptySeq, Zenon
  <2> QED
    BY <1>5, <1>6, <2>1, Zenon
<1>8. Emitted' = Emitted /\ RequestHeader' = RequestHeader
  BY <1>2 DEF Emitted, RequestHeader
<1>9. CASE ~initDone
  <2>1. Fresh'
    BY <1>2, <1>6, <1>8, <1>9 DEF StreamInv, Fresh
  <2> QED
    BY <1>2, <1>9, <2>1 DEF StreamInv
<1>10. CASE initDone /\ zDone
  <2>1. n = 0
    BY <1>1, <1>10 DEF RequestTypes
  <2>2. UNCHANGED <<mBuff, crc, Emitted, Encoded(crc), EndOf(crc), Z(mBuff), Trailer(crc), session, initDone,
                    eof, zOut, zDone, mOut, cOut>>
    BY <1>2, <1>7, <1>8, <2>1 DEF Encoded, EndOf, Z, Trailer
  <2>3. CASE ~eof
    <3>1. Streaming
      BY <1>10, <2>3 DEF StreamInv
    <3>2. Streaming'
      BY <1>2, <2>2, <2>3, <3>1 DEF Streaming
    <3> QED
      BY <1>2, <1>10, <2>3, <3>2 DEF StreamInv
  <2>4. CASE eof
    <3>1. Flushed
      BY <1>10, <2>4 DEF StreamInv
    <3>2. Flushed'
      BY <1>2, <2>2, <2>4, <3>1 DEF Flushed
    <3> QED
      BY <1>2, <1>10, <2>4, <3>2 DEF StreamInv
  <2> QED
    BY <2>3, <2>4
<1>11. CASE initDone /\ ~zDone
  <2>1. Streaming /\ ~eof
    BY <1>11 DEF StreamInv, Flushed
  <2>2. PICK h, e, y, z, w : /\ h = RequestHeader /\ e = Emitted \o zOut /\ y = Z(mBuff) /\ z = Z(d)
                             /\ w = Z(crc)
    OBVIOUS
  <2>3. /\ e \in Seq(Token) /\ y \in Seq(Token) /\ z \in Seq(Token) /\ h \in Seq(Token) /\ w \in Seq(Token)
    <3>1. Emitted \in Seq(Token) /\ zOut \in Seq(Token)
      BY StreamTypes
    <3>2. Emitted \o zOut \in Seq(Token)
      BY <3>1, TokensConcat, Zenon
    <3> QED
      BY <1>5, <2>2, <3>2, StreamTypes, PartsAre
  <2>4. Encoded(crc) \o <<>> = Encoded(crc) /\ Encoded(crc)' \o <<>> = Encoded(crc)'
    <3>1. Encoded(crc) \in Seq(Token) /\ Encoded(crc)' \in Seq(Token)
      <4>1. Z(crc') \in Seq(Token)
        <5>1. crc' \in Seq(Nat)
          BY <1>5, <1>6
        <5> QED
          BY <5>1, PartsAre
      <4> QED
        BY <1>8, <2>2, <2>3, <4>1, StreamTypes, TokensConcat DEF Encoded, Z
    <3> QED
      BY <3>1, NoTokens, Zenon
  <2>5. e \o y = h \o w
    BY <1>11, <2>1, <2>2, <2>4, Zenon DEF Streaming, Encoded
  <2>6. Z(mBuff)' = y \o z /\ Z(crc)' = w \o z
    <3>1. Z(mBuff)' = Z(mBuff \o d) /\ Z(crc)' = Z(crc \o d)
      BY <1>6 DEF Z
    <3> QED
      BY <1>5, <1>6, <2>2, <3>1, ZConcat, Zenon
  <2>7. (e \o y) \o z = e \o (y \o z) /\ (h \o w) \o z = h \o (w \o z)
    <3>1. Assoc(e, y, z) /\ Assoc(h, w, z)
      BY <2>3, Brackets, Zenon
    <3> QED
      BY <3>1, Zenon DEF Assoc
  <2>8. e \o (y \o z) = h \o (w \o z)
    BY <2>5, <2>7, Zenon
  <2>9. (Emitted \o zOut)' \o Z(mBuff)' = Encoded(crc)' \o <<>>
    <3>1. (Emitted \o zOut)' = e /\ Encoded(crc)' = h \o (w \o z)
      BY <1>2, <1>8, <2>2, <2>6, Zenon DEF Encoded
    <3> QED
      BY <2>4, <2>6, <2>8, <3>1, Zenon
  <2>10. Streaming'
    BY <1>2, <1>11, <2>1, <2>9 DEF Streaming
  <2> QED
    BY <1>2, <1>11, <2>1, <2>10 DEF StreamInv
<1> QED
  BY <1>9, <1>10, <1>11 DEF RequestTypes

\* Whatever a turn of deflate takes and puts out, the stream is that of what was read.
LEMMA DeflateStream ==
  ASSUME RequestTypes, RequestTypes', StreamInv, Deflate
  PROVE  StreamInv'
<1>1. PICK m1, m2 \in Seq(Nat), p, q \in Seq(Token), ends, over \in BOOLEAN :
         Turn(m1, m2, p, q, ends, over)
  BY DeflateTurn
<1>2. /\ UNCHANGED <<session, crc, body>> /\ initDone' = TRUE /\ pc = "deflate"
  BY DEF Deflate
<1>3. UNCHANGED <<Encoded(crc), EndOf(crc), Trailer(crc), session.gzip>>
  BY <1>2 DEF Encoded, EndOf, Trailer, RequestHeader, Z
<1>4. PICK a, e, h, end : /\ a = (body \o got) \o Start /\ e = (IF ends THEN EndOf(crc) ELSE <<>>)
                          /\ h = Encoded(crc) /\ end = EndOf(crc)
  OBVIOUS
<1>5. /\ a \in Seq(Token) /\ e \in Seq(Token) /\ h \in Seq(Token) /\ end \in Seq(Token) /\ <<>> \in Seq(Token)
      /\ Z(m1) \in Seq(Token) /\ Z(m2) \in Seq(Token) /\ body \in Seq(Token) /\ got \in Seq(Token)
      /\ Start \in Seq(Token)
  <2>1. (body \o got) \o Start \in Seq(Token)
    BY StreamTypes, TokensConcat, Zenon
  <2> QED
    BY <1>4, <2>1, StreamTypes, PartsAre, NoTokens, Zenon
<1>6. a \o Z(mBuff) = h \o (IF zDone THEN end ELSE <<>>)
  <2>1. CASE initDone
    <3>1. Streaming /\ Start = zOut /\ Emitted = body \o got
      BY <1>2, <2>1 DEF StreamInv, Flushed, Start, Emitted
    <3> QED
      BY <1>4, <3>1, Zenon DEF Streaming
  <2>2. CASE ~initDone
    <3>1. Fresh
      BY <2>2 DEF StreamInv
    <3>2. body = <<>> /\ zOut = <<>> /\ mBuff = crc /\ ~zDone
          /\ got = (IF session.gzip THEN RequestHeader ELSE <<>>)
      BY <1>2, <3>1 DEF Fresh
    <3>3. a = RequestHeader
      <4>1. <<>> \o RequestHeader = RequestHeader /\ RequestHeader \o <<>> = RequestHeader /\ <<>> \o <<>> = <<>>
        BY StreamTypes, NoTokens, Zenon
      <4>2. CASE session.gzip
        <5>1. got = RequestHeader /\ Start = <<>>
          BY <3>2, <4>2 DEF Start
        <5> QED
          BY <1>4, <3>2, <4>1, <5>1, Zenon
      <4>3. CASE ~session.gzip
        <5>1. got = <<>> /\ Start = RequestHeader
          BY <2>2, <3>2, <4>3 DEF Start
        <5> QED
          BY <1>4, <3>2, <4>1, <5>1, Zenon
      <4> QED
        BY <4>2, <4>3
    <3>4. h \o <<>> = h
      BY <1>5, NoTokens, Zenon
    <3> QED
      BY <1>4, <3>2, <3>3, <3>4, Zenon DEF Encoded
  <2> QED
    BY <2>1, <2>2
<1>7. ((body \o (got \o p)) \o q) \o Z(m2) = ((a \o Z(m1)) \o e) \o Z(m2)
  <2>1. p \o q = (Start \o Z(m1)) \o e
    BY <1>1, <1>4 DEF Turn
  <2> QED
    <3>1. Regrouped(body, got, p, q, Start, Z(m1), e, Z(m2))
      BY <1>5, Regroup
    <3> QED
      BY <1>4, <2>1, <3>1, Zenon DEF Regrouped
<1>8. Z(mBuff) = Z(m1) \o Z(m2)
  BY <1>1, ZConcat, Zenon DEF Turn
<1>9. (a \o Z(m1)) \o Z(m2) = a \o Z(mBuff) /\ a \o Z(m1) \in Seq(Token)
  <2>1. Assoc(a, Z(m1), Z(m2))
    BY <1>5, Brackets, Zenon
  <2> QED
    BY <1>8, <2>1, Zenon DEF Assoc
<1>10. ((a \o Z(m1)) \o e) \o Z(m2) = h \o (IF zDone' THEN end ELSE <<>>)
  <2>1. CASE ends
    <3>1. m2 = <<>> /\ ~zDone /\ zDone' /\ e = end
      BY <1>1, <1>4, <2>1 DEF Turn
    <3>2. Z(m2) = <<>>
      BY <3>1, NoTokens, Zenon
    <3>3. a \o Z(m1) = h
      <4>1. (a \o Z(m1)) \o <<>> = a \o Z(m1) /\ h \o <<>> = h
        BY <1>5, <1>9, NoTokens, Zenon
      <4> QED
        BY <1>6, <1>9, <3>1, <3>2, <4>1, Zenon
    <3>4. (h \o end) \o <<>> = h \o end
      <4>1. h \o end \in Seq(Token)
        BY <1>5, TokensConcat, Zenon
      <4> QED
        BY <4>1, NoTokens, Zenon
    <3> QED
      BY <3>1, <3>2, <3>3, <3>4, Zenon
  <2>2. CASE ~ends
    <3>1. e = <<>> /\ zDone' = zDone
      BY <1>1, <1>4, <2>2 DEF Turn, RequestTypes
    <3>2. (a \o Z(m1)) \o <<>> = a \o Z(m1)
      BY <1>9, NoTokens, Zenon
    <3> QED
      BY <1>6, <1>9, <3>1, <3>2, Zenon
  <2> QED
    BY <2>1, <2>2
<1>11. Emitted' = body \o (got \o p) /\ zOut' = q /\ mBuff' = m2
  BY <1>1, <1>2 DEF Turn, Emitted
<1>12. cOut = 0
  BY <1>2 DEF StreamInv, Fresh, Streaming, Flushed
<1>13. Z(mBuff)' = Z(m2)
  BY <1>11 DEF Z
<1>14. (Emitted' \o zOut') \o Z(mBuff)' = h \o (IF zDone' THEN end ELSE <<>>)
  BY <1>7, <1>10, <1>11, <1>13, Zenon
<1>15. CASE ~over
  <2>1. cOut' = 0 /\ eof' = FALSE
    BY <1>1, <1>12, <1>15 DEF Turn
  <2>2. pc' = "return" => got' # <<>>
    <3> SUFFICES ASSUME pc' = "return" PROVE got' # <<>>
      OBVIOUS
    <3>1. p # <<>> /\ got' = got \o p /\ p \in Seq(Token) /\ got \in Seq(Token)
      BY <1>1, <1>5, <1>15 DEF Turn
    <3>2. Len(got \o p) = Len(got) + Len(p) /\ Len(p) # 0 /\ Len(p) \in Nat /\ Len(got) \in Nat
      BY <3>1
    <3> QED
      BY <3>1, <3>2
  <2>3. (Emitted \o zOut)' \o Z(mBuff)' = Encoded(crc)' \o (IF zDone' THEN EndOf(crc)' ELSE <<>>)
    BY <1>3, <1>4, <1>14, Zenon
  <2>4. Streaming'
    BY <2>1, <2>2, <2>3 DEF Streaming
  <2> QED
    BY <1>2, <2>1, <2>4 DEF StreamInv
<1>16. CASE over
  <2>1. eof' = TRUE /\ zDone' /\ q = <<>>
    BY <1>1, <1>16 DEF Turn
  <2>2. mBuff' = <<>>
    BY <2>1 DEF RequestTypes
  <2>3. Z(mBuff)' = <<>>
    BY <2>2, NoTokens DEF Z
  <2>4. Emitted' = h \o end
    <3>1. Emitted' \in Seq(Token)
      <4>1. got \o p \in Seq(Token)
        BY <1>1, <1>5, TokensConcat, Zenon
      <4> QED
        BY <1>5, <1>11, <4>1, TokensConcat, Zenon
    <3>2. Emitted' \o <<>> = Emitted'
      BY <3>1, NoTokens, Zenon
    <3> QED
      BY <1>11, <1>14, <2>1, <2>3, <3>2, Zenon
  <2>5. (h \o end) \o <<>> = h \o end
    <3>1. h \o end \in Seq(Token)
      BY <1>5, TokensConcat, Zenon
    <3> QED
      BY <3>1, NoTokens, Zenon
  <2>6. IF session.gzip THEN mOut' = Trailer(crc) /\ cOut' = 2 ELSE cOut' = 0
    BY <1>1, <1>12, <1>16 DEF Turn, GenerateTrailer
  <2>7. pc' # "deflate"
    BY <1>1 DEF Turn
  <2>8. Flushed'
    <3>1. (Encoded(crc) \o EndOf(crc))' = h \o end /\ session' = session
      BY <1>2, <1>3, <1>4, Zenon
    <3>2. CASE session.gzip
      <4>1. mOut' = Trailer(crc)' /\ cOut' = 2
        BY <1>3, <2>6, <3>2
      <4>2. Emitted' = (Encoded(crc) \o EndOf(crc))' \o <<>>
        BY <2>4, <2>5, <3>1, Zenon
      <4> QED
        BY <2>1, <2>7, <3>1, <3>2, <4>1, <4>2 DEF Flushed
    <3>3. CASE ~session.gzip
      <4>1. cOut' = 0
        BY <2>6, <3>3
      <4>2. Emitted' = (Encoded(crc) \o EndOf(crc))' \o <<>>
        BY <2>4, <2>5, <3>1, Zenon
      <4> QED
        BY <2>1, <2>7, <3>1, <3>3, <4>1, <4>2 DEF Flushed
    <3> QED
      BY <3>2, <3>3
  <2> QED
    BY <1>2, <2>1, <2>8 DEF StreamInv
<1> QED
  BY <1>1, <1>15, <1>16


\* A pass that ended without a spoilt read is the whole coded text.
LEMMA PassIsCoded ==
  ASSUME RequestTypes, StreamInv, pc = "return", got = <<>>, cOut = 0
  PROVE  body = Coded(crc) /\ (session.whole => crc = Text)
<1>1. Flushed
  BY DEF StreamInv, Fresh, Streaming
<1>2. Emitted = body
  <2>1. body \o <<>> = body
    BY StreamTypes, NoTokens, Zenon
  <2> QED
    BY <2>1 DEF Emitted
<1>3. body = (Encoded(crc) \o EndOf(crc)) \o (IF session.gzip THEN Trailer(crc) ELSE <<>>)
  <2>1. CASE session.gzip
    BY <1>1, <1>2, <2>1 DEF Flushed
  <2>2. CASE ~session.gzip
    BY <1>1, <1>2, <2>2 DEF Flushed
  <2> QED
    BY <2>1, <2>2
<1>4. Coded(crc) = (Encoded(crc) \o EndOf(crc)) \o (IF session.gzip THEN Trailer(crc) ELSE <<>>)
  BY Zenon DEF Coded, Encoded, Z
<1>5. session.whole => crc = Text
  <2> SUFFICES ASSUME session.whole PROVE crc = Text
    OBVIOUS
  <2>1. src = Len(Text) /\ crc = SubSeq(Text, 1, src)
    BY <1>1 DEF Flushed, RequestTypes
  <2>2. SubSeq(Text, 1, Len(Text)) = Text
    BY SessionIs, SubSeqFull DEF RequestTypes
  <2> QED
    BY <2>1, <2>2
<1> QED
  BY <1>3, <1>4, <1>5

\* What was read is what was to be read; a pass is whole unless it is spoilt.
LEMMA ReturnStream ==
  ASSUME RequestInv, RequestTypes', Return
  PROVE  RequestInv'
<1>1. RequestTypes /\ pc = "return" /\ UNCHANGED session /\ Text' = Text /\ Coded(Text)' = Coded(Text)
  BY DEF RequestInv, Return, Text, Coded, RequestHeader, EndOf, Trailer
<1>2. pc' # "refused"
  BY DEF Return
<1>3. ASSUME ~spoilt' PROVE ~spoilt /\ StreamInv /\ (got = <<>> => cOut = 0)
  <2>1. ~spoilt /\ (got = <<>> => ~(cOut > 0))
    BY <1>3 DEF Return
  <2>2. cOut \in Nat
    BY <1>1 DEF RequestTypes
  <2> QED
    BY <1>1, <2>1, <2>2 DEF RequestInv, Sending
<1>4. CASE got # <<>>
  <2>1. /\ body' = body \o got /\ pc' = "ask" /\ UNCHANGED <<pass, total>>
        /\ UNCHANGED <<src, mBuff, zOut, zDone, initDone, srcDone, eof, mOut, cOut, crc, cb, got>>
    BY <1>4 DEF Return, reading
  <2>2. ASSUME ~spoilt' PROVE StreamInv'
    <3>1. StreamInv
      BY <1>3, <2>2
    <3>2. UNCHANGED <<Emitted, Encoded(crc), EndOf(crc), Trailer(crc), Z(mBuff), zOut>>
      BY <1>1, <2>1 DEF Emitted, Encoded, EndOf, Trailer, RequestHeader, Z
    <3>3. CASE ~initDone
      BY <1>1, <3>1, <3>3 DEF StreamInv, Fresh
    <3>4. CASE initDone /\ ~eof
      <4>1. Streaming
        BY <3>1, <3>4 DEF StreamInv
      <4>2. Streaming'
        BY <2>1, <3>2, <4>1 DEF Streaming
      <4> QED
        BY <2>1, <3>4, <4>2 DEF StreamInv
    <3>5. CASE initDone /\ eof
      <4>1. Flushed
        BY <3>1, <3>5 DEF StreamInv
      <4>2. Flushed'
        BY <1>1, <2>1, <3>2, <4>1 DEF Flushed
      <4> QED
        BY <2>1, <3>5, <4>2 DEF StreamInv
    <3> QED
      BY <3>3, <3>4, <3>5
  <2> QED
    BY <1>1, <1>2, <1>3, <2>1, <2>2 DEF RequestInv, Refused
<1>5. CASE got = <<>> /\ pass = "size"
  <2>1. /\ pass' = "send" /\ total' = Len(body) /\ body' = <<>> /\ pc' = "ask"
        /\ src' = 0 /\ mBuff' = <<>> /\ zOut' = <<>> /\ zDone' = FALSE
        /\ initDone' = FALSE /\ srcDone' = FALSE /\ eof' = FALSE
        /\ cOut' = 0 /\ crc' = <<>>
    BY <1>5 DEF Return, Reset, ResetGzip
  <2>2. StreamInv'
    BY <2>1 DEF StreamInv, Fresh
  <2>3. ~spoilt' /\ session'.whole => total' = Len(Coded(Text))
    BY <1>1, <1>3, <1>5, <2>1, PassIsCoded
  <2> QED
    BY <1>1, <1>2, <2>1, <2>2, <2>3 DEF RequestInv, Refused
<1>6. CASE got = <<>> /\ pass # "size"
  <2>1. pass' = "done" /\ pc' = "server" /\ body' = body /\ total' = total
    BY <1>6 DEF Return
  <2>2. ~spoilt' /\ session'.whole => body' = Coded(Text)
    BY <1>1, <1>3, <1>6, <2>1, PassIsCoded
  <2>3. ~spoilt' /\ session'.whole => total' = Len(Coded(Text))
    BY <1>1, <1>3, <1>6, <2>1 DEF RequestInv
  <2> QED
    BY <1>1, <1>2, <2>1, <2>2, <2>3 DEF RequestInv, Refused, Sending
<1> QED
  BY <1>4, <1>5, <1>6

\* The steps that read the request.
LEMMA SendsKeep ==
  ASSUME RequestInv, Sends
  PROVE  RequestInv'
<1>1. RequestTypes
  BY DEF RequestInv
<1>2. RequestTypes'
  BY <1>1, RequestTypesNext DEF Sends
<1>3. CASE Return
  BY <1>2, <1>3, ReturnStream
<1>4. CASE Ask \/ Source \/ Deflate
  <2>1. /\ UNCHANGED <<session, total, pass>> /\ Text' = Text /\ Coded(Text)' = Coded(Text)
        /\ pc \in Sending /\ pc' \in Sending /\ (spoilt => spoilt')
    <3>1. session' = session /\ total' = total /\ pass' = pass
      BY <1>4 DEF Ask, Source, Deflate
    <3>2. Text' = Text /\ Coded(Text)' = Coded(Text)
      BY <3>1 DEF Text, Coded, RequestHeader, EndOf, Trailer
    <3>3. pc \in {"ask", "source", "deflate"} /\ pc' \in {"source", "deflate", "return"}
      <4>1. CASE Ask
        BY <4>1 DEF Ask
      <4>2. CASE Source
        <5>1. pc = "source" /\ pc' = IF eof THEN "return" ELSE "deflate"
          BY <4>2 DEF Source
        <5> QED
          BY <5>1
      <4>3. CASE Deflate
        <5>1. pc = "deflate"
          BY <4>3 DEF Deflate
        <5>2. pc' \in {"source", "return"}
          BY <1>1, <4>3, DeflateTurn, ZenonT(60) DEF Turn
        <5> QED
          BY <5>1, <5>2
      <4> QED
        BY <1>4, <4>1, <4>2, <4>3
    <3>4. spoilt => spoilt'
      BY <1>4 DEF Ask, Source, Deflate
    <3> QED
      BY <3>1, <3>2, <3>3, <3>4 DEF Sending
  <2>2. ~spoilt' => StreamInv'
    <3>1. ~spoilt' => StreamInv
      BY <2>1 DEF RequestInv
    <3>2. CASE Ask
      BY <1>1, <3>1, <3>2, AskStream DEF Ask
    <3>3. CASE Source
      BY <1>1, <3>1, <3>3, SourceStream
    <3>4. CASE Deflate
      BY <1>1, <1>2, <3>1, <3>4, DeflateStream
    <3> QED
      BY <1>4, <3>2, <3>3, <3>4
  <2>3. pc' \notin {"server", "refused"}
    BY <2>1 DEF Sending
  <2> QED
    BY <1>2, <2>1, <2>2, <2>3 DEF RequestInv, Refused
<1> QED
  BY <1>3, <1>4 DEF Sends

\* The server refuses only what was spoilt, or what could not be read to its end.
LEMMA ServerKeeps ==
  ASSUME RequestInv, Server
  PROVE  RequestInv'
<1>1. UNCHANGED <<session, pass, src, mBuff, zOut, zDone, initDone, srcDone, eof, mOut, cOut, crc, cb, got,
                  body, total, spoilt>> /\ pc = "server" /\ pc' \in {"ready", "refused"}
  BY DEF Server, request, reading
<1>2. RequestTypes' /\ Text' = Text /\ Coded(Text)' = Coded(Text)
  BY <1>1 DEF RequestInv, RequestTypes, Text, Coded, RequestHeader, EndOf, Trailer
<1>3. ~spoilt /\ session.whole => body = Coded(Text) /\ Len(body) = total
  BY <1>1 DEF RequestInv
<1>4. Refused'
  BY <1>1, <1>3 DEF Server, Refused
<1> QED
  BY <1>1, <1>2, <1>4 DEF RequestInv, Sending
-----------------------------------------------------------------------------
(* The steps that read the response leave the request alone *)

FieldPlaces == {"extra", "name", "comment", "hcrc"}
Reading == FieldPlaces \cup {"ready", "input", "topup", "inflate", "fixed", "xdata", "drop", "trailer", "failed"}

\* PreInit is at a field that the flags name
PlaceInv ==
  /\ pc \in FieldPlaces => \E i \in DOMAIN Fields : Fields[i] = pc
  /\ pc = "xdata" => \E i \in DOMAIN Fields : Fields[i] = "extra"

\* The header's fields, in their order.
LEMMA FieldsAre == Fields \in Seq(FieldPlaces)
<1>1. \A f \in FieldPlaces : Present(f) \in Seq(FieldPlaces)
  BY DEF Present
<1>2. PICK a, b, c, d \in Seq(FieldPlaces) :
        a = Present("extra") /\ b = Present("name") /\ c = Present("comment") /\ d = Present("hcrc")
  BY <1>1 DEF FieldPlaces
<1>3. Fields = a \o b \o c \o d
  BY <1>2, Zenon DEF Fields
<1>4. a \o b \in Seq(FieldPlaces)
  BY <1>2
<1>5. (a \o b) \o c \in Seq(FieldPlaces)
  BY <1>2, <1>4
<1>6. ((a \o b) \o c) \o d \in Seq(FieldPlaces)
  BY <1>2, <1>5
<1> QED
  BY <1>3, <1>6, Zenon

\* After a field comes another one, or the header is done.
LEMMA NextField ==
  ASSUME NEW f, f = "fixed" \/ \E i \in DOMAIN Fields : Fields[i] = f
  PROVE  FieldAfter(f) = "drop" \/ \E i \in DOMAIN Fields : Fields[i] = FieldAfter(f)
<1>0. Fields \in Seq(FieldPlaces)
  BY FieldsAre
<1>1. CASE f = "fixed"
  BY <1>0, <1>1 DEF FieldAfter
<1>2. CASE f # "fixed"
  <2>1. PICK c : c = CHOOSE i \in DOMAIN Fields : Fields[i] = f
    OBVIOUS
  <2>2. c \in DOMAIN Fields
    BY <1>2, <2>1
  <2>3. PICK later : later = From(Fields, 1 + c)
    OBVIOUS
  <2>4. FieldAfter(f) = IF later = <<>> THEN "drop" ELSE later[1]
    BY <1>2, <2>1, <2>3, Zenon DEF FieldAfter
  <2>5. later # <<>> => 1 + c \in DOMAIN Fields /\ later[1] = Fields[1 + c]
    BY <1>0, <2>2, <2>3 DEF From
  <2> QED
    BY <2>4, <2>5
<1> QED
  BY <1>1, <1>2

\* PreInit goes from field to field.
LEMMA EnterPlace ==
  ASSUME PlaceInv, UNCHANGED session, NEW at, NEW f \in FieldPlaces \cup {"fixed"},
         f = "fixed" \/ \E i \in DOMAIN Fields : Fields[i] = f, Enter(FieldAfter(f), at)
  PROVE  pc' \in FieldPlaces \cup {"drop"} /\ PlaceInv'
<1>1. pc' = FieldAfter(f)
  BY DEF Enter
<1>2. Fields' = Fields
  BY DEF Fields, Present
<1>3. Fields \in Seq(FieldPlaces)
  BY FieldsAre
<1>4. FieldAfter(f) = "drop" \/ \E i \in DOMAIN Fields : Fields[i] = FieldAfter(f)
  BY NextField
<1>5. CASE FieldAfter(f) = "drop"
  BY <1>1, <1>5 DEF PlaceInv, FieldPlaces
<1>6. CASE \E i \in DOMAIN Fields : Fields[i] = FieldAfter(f)
  BY <1>1, <1>2, <1>3, <1>6 DEF PlaceInv, FieldPlaces
<1> QED
  BY <1>4, <1>5, <1>6

\* The steps of reading stay among themselves.
LEMMA ReadsPlace ==
  ASSUME PlaceInv, Reads \/ Inflating
  PROVE  UNCHANGED <<session, request>> /\ pc \in Reading /\ pc' \in Reading /\ PlaceInv'
<1> USE DEF Reading, FieldPlaces
<1>0. ASSUME UNCHANGED <<session, request>>, pc \in Reading, pc' \in Reading \ (FieldPlaces \cup {"xdata"})
      PROVE  UNCHANGED <<session, request>> /\ pc \in Reading /\ pc' \in Reading /\ PlaceInv'
  BY <1>0 DEF PlaceInv
<1>1. ASSUME UNCHANGED <<session, request>>, pc \in Reading, UNCHANGED pc
      PROVE  UNCHANGED <<session, request>> /\ pc \in Reading /\ pc' \in Reading /\ PlaceInv'
  BY <1>1 DEF PlaceInv, Fields, Present
<1>2. ASSUME NEW data, Returns(data)
      PROVE  pc' = "ready"
  BY <1>2 DEF Returns
<1>3. Fails => pc' = "failed"
  BY DEF Fails
<1>4. CASE Reads
  <2>1. pc = "ready" /\ pc' = "input" /\ UNCHANGED <<session, request>>
    BY <1>4 DEF Reads, Read
  <2> QED
    BY <1>0, <2>1
<1>5. CASE Input
  <2>1. pc = "input" /\ UNCHANGED <<session, request>>
    BY <1>5 DEF Input
  <2>2. pc' \in {"ready", "fixed", "topup", "inflate"}
    BY <1>2, <1>5 DEF Input
  <2> QED
    BY <1>0, <2>1, <2>2
<1>6. CASE InputFails
  <2>1. pc \in {"input", "topup"} \cup Ensures /\ pc' = "failed" /\ UNCHANGED <<session, request>>
    BY <1>3, <1>6 DEF InputFails
  <2> QED
    BY <1>0, <2>1 DEF Ensures
<1>7. CASE Ensure
  BY <1>1, <1>7 DEF Ensure, Ensures
<1>8. CASE Fixed
  <2>1. pc = "fixed" /\ UNCHANGED <<session, request>> /\ (Enter(FieldAfter("fixed"), HDR) \/ Fails)
    BY <1>8 DEF Fixed
  <2> QED
    BY <1>0, <1>3, <2>1, EnterPlace
<1>9. CASE Extra
  <2>1. UNCHANGED <<session, request>> /\ pc \in {"extra", "xdata"}
    BY <1>9 DEF Extra
  <2>2. \E i \in DOMAIN Fields : Fields[i] = "extra"
    BY <2>1 DEF PlaceInv
  <2>3. CASE pc = "extra"
    <3>1. pc' = "xdata"
      BY <1>9, <2>3 DEF Extra
    <3> QED
      BY <2>1, <2>2, <3>1 DEF PlaceInv, Fields, Present
  <2>4. CASE pc = "xdata"
    <3>1. Enter(FieldAfter("extra"), offset)
      BY <1>9, <2>4 DEF Extra
    <3> QED
      BY <2>1, <2>2, <3>1, EnterPlace
  <2> QED
    BY <2>1, <2>3, <2>4
<1>10. CASE CString
  <2>1. UNCHANGED <<session, request>> /\ pc \in {"name", "comment"}
    BY <1>10 DEF CString
  <2>2. \E i \in DOMAIN Fields : Fields[i] = pc
    BY <2>1 DEF PlaceInv
  <2>3. Enter(FieldAfter(pc), offset + 1) \/ UNCHANGED pc
    BY <1>10 DEF CString
  <2> QED
    BY <1>1, <2>1, <2>2, <2>3, EnterPlace
<1>11. CASE HeaderCrc
  BY <1>0, <1>11 DEF HeaderCrc
<1>12. CASE Drop
  BY <1>0, <1>3, <1>12 DEF Drop
<1>13. CASE TopUp
  BY <1>0, <1>13 DEF TopUp
<1>14. CASE Inflate
  <2>1. pc = "inflate" /\ UNCHANGED <<session, request>>
    BY <1>14 DEF Inflate
  <2>2. pc' \in {"failed", "trailer", "input", "ready"}
    BY <1>2, <1>3, <1>14 DEF Inflate
  <2> QED
    BY <1>0, <2>1, <2>2
<1>15. CASE EndOfInflation
  <2>1. pc = "trailer" /\ UNCHANGED <<session, request>>
    BY <1>15 DEF EndOfInflation
  <2>2. pc' \in {"failed", "ready"}
    BY <1>2, <1>3, <1>15 DEF EndOfInflation
  <2> QED
    BY <1>0, <2>1, <2>2
<1> QED
  BY <1>4, <1>5, <1>6, <1>7, <1>8, <1>9, <1>10, <1>11, <1>12, <1>13, <1>14, <1>15 DEF Inflating, PreInit

\* The request is not touched by what reads the response.
LEMMA ReadsKeep ==
  ASSUME RequestInv, UNCHANGED <<session, request>>, pc' \notin Sending \cup {"server", "refused"} \/ UNCHANGED pc
  PROVE  RequestInv'
<1>1. UNCHANGED <<session, pass, src, mBuff, zOut, zDone, initDone, srcDone, eof, mOut, cOut, crc, cb, got,
                  body, total, spoilt>>
  BY DEF request, reading
<1>2. RequestTypes' /\ Text' = Text /\ Coded(Text)' = Coded(Text)
  BY <1>1 DEF RequestInv, RequestTypes, Text, Coded, RequestHeader, EndOf, Trailer
<1>3. CASE pc' \notin Sending \cup {"server", "refused"}
  BY <1>1, <1>2, <1>3, SMTT(30) DEF RequestInv, Refused
<1>4. CASE UNCHANGED pc
  BY <1>1, <1>4 DEF RequestInv, RequestTypes, Refused, StreamInv, Fresh, Streaming, Flushed, Emitted, Encoded,
     Text, Coded, RequestHeader, EndOf, Trailer, Z
<1> QED
  BY <1>3, <1>4

\* A request begins with nothing read.
LEMMA InitRequest ==
  ASSUME Init
  PROVE  RequestInv /\ PlaceInv
<1>1. Text \in Seq(Nat)
  BY SessionIs DEF Init
<1>2. SubSeq(Text, 1, 0) = <<>>
  BY <1>1
<1>3. RequestTypes
  <2>1. /\ session \in Sessions /\ src = 0 /\ crc = <<>> /\ mBuff = <<>> /\ zOut = <<>> /\ mOut = <<>>
        /\ got = <<>> /\ body = <<>> /\ cOut = 0 /\ cb = 0
        /\ ~zDone /\ ~srcDone /\ ~eof /\ ~initDone
        /\ {zDone, srcDone, eof, initDone} \subseteq BOOLEAN
    BY DEF Init
  <2>2. <<>> \in Seq(Token) /\ <<>> \in Seq(Nat) /\ Len(<<>>) = 0 /\ 0 \in 0..Len(Text)
    BY <1>1
  <2> QED
    BY <1>2, <2>1, <2>2 DEF RequestTypes
<1>4. StreamInv
  BY DEF Init, StreamInv, Fresh
<1> QED
  BY <1>3, <1>4 DEF Init, RequestInv, PlaceInv, FieldPlaces, Refused, Sending

\* Each step keeps the request in order.
LEMMA RequestNext ==
  ASSUME RequestInv, PlaceInv, [Next]_vars
  PROVE  RequestInv' /\ PlaceInv'
<1>1. CASE Sends
  <2>1. pc' \in Sending \cup {"server"}
    <3>1. CASE Return
      BY <3>1 DEF Return, Sending
    <3>2. CASE Deflate
      BY <3>2, DeflateTurn, ZenonT(60) DEF RequestInv, Turn, Sending
    <3>3. CASE Ask \/ Source
      <4>1. pc' \in {"source", "return", "deflate"}
        BY <3>3 DEF Ask, Source
      <4> QED
        BY <4>1 DEF Sending
    <3> QED
      BY <1>1, <3>1, <3>2, <3>3 DEF Sends
  <2> QED
    BY <1>1, <2>1, SendsKeep DEF PlaceInv, FieldPlaces, Sending
<1>2. CASE Server
  <2>1. pc' \in {"ready", "refused"}
    BY <1>2 DEF Server
  <2> QED
    BY <1>2, <2>1, ServerKeeps DEF PlaceInv, FieldPlaces
<1>3. CASE Reads \/ Inflating
  <2>1. UNCHANGED <<session, request>> /\ pc' \in Reading /\ PlaceInv'
    BY <1>3, ReadsPlace
  <2> QED
    BY <2>1, ReadsKeep DEF Reading, FieldPlaces, Sending
<1>4. CASE UNCHANGED vars
  <2>1. UNCHANGED <<session, request, pc>>
    BY <1>4 DEF vars
  <2> QED
    BY <2>1, ReadsKeep DEF PlaceInv, Fields, Present
<1> QED
  BY <1>1, <1>2, <1>3, <1>4 DEF Next

\* Without gzip there is no header or trailer, and a read stays in the room it is given.
Plain ==
  ~session.gzip =>
    /\ cOut = 0 /\ ~spoilt
    /\ pc \in {"source", "deflate", "return"} => Len(got) + cb = Asked

\* Ask begins with the room, and deflate takes from it what it adds to the read.
LEMMA PlainNext ==
  ASSUME RequestInv, PlaceInv, Plain, [Next]_vars
  PROVE  Plain'
<1>1. RequestTypes /\ Text \in Seq(Nat) /\ session.room \in Nat /\ session.gzip \in BOOLEAN /\ BUF \in Nat
  BY SessionIs, CodingConstants DEF RequestInv, RequestTypes
<1>2. Asked \in Nat /\ cb \in Nat /\ got \in Seq(Token) /\ mOut \in Seq(Token) /\ cOut \in Nat
  BY <1>1 DEF Asked, RequestTypes
<1>3. CASE Ask
  <2>1. pc' = "source" /\ cb' = Asked /\ session' = session /\ Asked' = Asked
    BY <1>3 DEF Ask, Asked
  <2> SUFFICES ASSUME ~session.gzip PROVE /\ cOut' = 0 /\ ~spoilt' /\ Len(got') + cb' = Asked'
    BY <2>1 DEF Plain
  <2>2. cOut = 0 /\ ~spoilt
    BY DEF Plain
  <2>3. got' = SubSeq(mOut, 1, 0) /\ cOut' = 0 - 0 /\ (spoilt' => spoilt)
    BY <1>3, <2>2 DEF Ask
  <2>4. Len(got') = 0
    BY <1>2, <2>3
  <2> QED
    BY <1>2, <2>1, <2>2, <2>3, <2>4
<1>4. CASE Source
  <2>1. /\ pc = "source" /\ UNCHANGED <<session, cOut, spoilt, got, cb, Asked>>
    BY <1>4 DEF Source, Asked
  <2> QED
    BY <2>1 DEF Plain
<1>5. CASE Deflate
  <2>1. PICK p \in Seq(Token), over \in BOOLEAN : got' = got \o p /\ cb' \in Nat /\ cb = cb' + Len(p)
                                /\ (IF over THEN GenerateTrailer ELSE UNCHANGED <<mOut, cOut>>)
    BY <1>1, <1>5, DeflateTurn, ZenonT(60) DEF Turn
  <2>2. pc = "deflate" /\ UNCHANGED <<session, spoilt, Asked>>
    BY <1>5 DEF Deflate, Asked
  <2>3. ~session.gzip => cOut' = cOut
    BY <2>1 DEF GenerateTrailer
  <2>4. Len(got') = Len(got) + Len(p)
    BY <1>2, <2>1, TokensConcat
  <2>5. Len(got) \in Nat /\ Len(p) \in Nat
    BY <1>2, <2>1
  <2>6. Len(got') + cb' = Len(got) + cb
    BY <1>2, <2>1, <2>4, <2>5
  <2> QED
    BY <2>2, <2>3, <2>6 DEF Plain
<1>6. CASE Return
  <2>1. pc = "return" /\ pc' \in {"ask", "server"} /\ session' = session
    BY <1>6 DEF Return
  <2> SUFFICES ASSUME ~session.gzip PROVE cOut' = 0 /\ ~spoilt'
    BY <2>1 DEF Plain
  <2>2. cOut = 0 /\ ~spoilt /\ Len(got) + cb = Asked
    BY <2>1 DEF Plain
  <2>3. ~(Len(got) > Asked) /\ ~(cOut > 0)
    BY <1>2, <2>2
  <2>4. ~spoilt'
    BY <1>6, <2>2, <2>3 DEF Return
  <2>5. cOut' = 0
    BY <1>6, <2>2 DEF Return, Reset, ResetGzip, reading
  <2> QED
    BY <2>4, <2>5
<1>7. CASE Server
  <2>1. UNCHANGED <<session, cOut, spoilt>> /\ pc' \in {"ready", "refused"}
    BY <1>7 DEF Server, request, reading
  <2> QED
    BY <2>1 DEF Plain
<1>8. CASE Reads \/ Inflating
  <2>1. UNCHANGED <<session, request>> /\ pc' \in Reading
    BY <1>8, ReadsPlace
  <2>2. UNCHANGED <<session, cOut, spoilt>> /\ pc' \notin {"source", "deflate", "return"}
    BY <2>1 DEF request, reading, Reading, FieldPlaces
  <2> QED
    BY <2>2 DEF Plain
<1>9. CASE UNCHANGED vars
  <2>1. UNCHANGED <<session, pc, cOut, spoilt, got, cb, Asked>>
    BY <1>9 DEF vars, request, reading, Asked
  <2> QED
    BY <2>1 DEF Plain
<1> QED
  BY <1>3, <1>4, <1>5, <1>6, <1>7, <1>8, <1>9 DEF Next, Sends

\* A request goes out as the sizing announced it and as the server can decode it, whatever the
\* text, the pieces and the sizes of the reads: always with deflate, and with gzip unless one of the
\* three kinds of read that gzipDeflateHandler::Read gets wrong came first.
THEOREM RequestUnderstood == Spec => []Understood
<1> DEFINE Inv == RequestInv /\ PlaceInv /\ Plain
<1>1. Init => Inv
  <2>1. Init => Plain
    BY DEF Init, Plain
  <2> QED
    BY <2>1, InitRequest
<1>2. Inv /\ [Next]_vars => Inv'
  BY RequestNext, PlainNext
<1>3. Inv => Understood
  BY DEF RequestInv, Refused, Plain, Understood
<1> QED
  BY <1>1, <1>2, <1>3, PTL DEF Spec

-----------------------------------------------------------------------------
(* The response.                                                           *)

\* What inflate has not taken yet
Remaining == buff \o wire
\* What inflate brought, the trailer's checks still to come
Pending == IF pc = "trailer" THEN out ELSE <<>>
NoneDecodes(s) == \A i \in 1..Len(s) : s[i].k # "z"
Headers == FieldPlaces \cup {"fixed", "xdata", "drop"}

ReadTypes ==
  /\ session \in Sessions
  /\ wire \in Seq(Token) /\ buff \in Seq(Token)
  /\ held \in Seq(Nat) /\ out \in Seq(Nat) /\ text \in Seq(Nat)
  /\ offset \in Nat
  /\ iInit \in BOOLEAN /\ iEof \in BOOLEAN /\ late \in BOOLEAN

\* Until the server answers
Dormant ==
  /\ buff = <<>> /\ ~iInit /\ ~iEof /\ ~late
  /\ held = <<>> /\ text = <<>> /\ result = "none"

\* What is known of each stage of a Read
StageInv ==
  /\ pc # "ready" => room \in ReadSizes /\ result # "end"
  /\ pc \in Headers => session.gzip
  /\ pc \in Headers \cup {"topup"} => ~iInit
  /\ pc = "extra" => offset = HDR /\ need = HDR + 1
  /\ pc = "inflate" => ~iEof
  /\ pc = "trailer" => iEof /\ need = 2 /\ Len(out) <= room

\* The application has, zlib keeps and the rest decodes to the text, once inflate has begun in
\* the right place; in the wrong one it never gives anything
ContentInv ==
  /\ \E g \in 0..Len(Response) : Remaining = From(Response, g + 1)
  /\ IF ~iInit
     THEN /\ text = <<>> /\ held = <<>> /\ ~iEof /\ ~late
          /\ pc \notin {"topup", "inflate"} => Remaining = Response
     ELSE IF mode = "lost" THEN text = <<>> /\ ~iEof /\ ~late
     ELSE IF iEof \/ late THEN held = <<>> /\ NoneDecodes(Remaining) /\ text \o Pending = Text
     ELSE (text \o held) \o Bytes(Remaining) = Text

ReadInv ==
  /\ ReadTypes /\ PlaceInv
  /\ pc \notin Reading => Dormant
  /\ pc \in Reading \ {"failed"} => StageInv /\ ContentInv

-----------------------------------------------------------------------------
(* What tokens decode to.                                                  *)

Values(s) == [i \in DOMAIN s |-> IF s[i].k = "z" THEN s[i].v ELSE <<>>]

\* Each token decodes to some bytes.
LEMMA ValuesAre ==
  ASSUME NEW s \in Seq(Token)
  PROVE  /\ Values(s) \in Seq(Seq(Nat)) /\ Len(Values(s)) = Len(s)
         /\ \A i \in 1..Len(s) : Values(s)[i] = IF s[i].k = "z" THEN s[i].v ELSE <<>>
<1>1. \A i \in DOMAIN s : s[i] \in Token
  OBVIOUS
<1>2. \A i \in DOMAIN s : (IF s[i].k = "z" THEN s[i].v ELSE <<>>) \in Seq(Nat)
  BY <1>1 DEF Token, Of
<1>3. DOMAIN s = 1..Len(s) /\ Len(s) \in Nat
  OBVIOUS
<1>4. PICK f : f = Values(s)
  OBVIOUS
<1>5. DOMAIN f = 1..Len(s) /\ f \in [1..Len(s) -> Seq(Nat)]
      /\ \A i \in 1..Len(s) : f[i] = IF s[i].k = "z" THEN s[i].v ELSE <<>>
  BY <1>2, <1>3, <1>4 DEF Values
<1>6. f \in Seq(Seq(Nat)) /\ Len(f) = Len(s)
  BY <1>3, <1>5
<1> QED
  BY <1>4, <1>5, <1>6

\* The tokens of two sequences decode one after the other.
LEMMA BytesConcat ==
  ASSUME NEW s \in Seq(Token), NEW t \in Seq(Token)
  PROVE  Bytes(s) \in Seq(Nat) /\ Bytes(t) \in Seq(Nat) /\ Bytes(s \o t) = Bytes(s) \o Bytes(t)
<1>1. PICK a, b, c, u : a = Values(s) /\ b = Values(t) /\ u = s \o t /\ c = Values(u)
  OBVIOUS
<1>2. /\ u \in Seq(Token) /\ Len(u) = Len(s) + Len(t)
      /\ \A i \in 1..Len(s) : u[i] = s[i]
      /\ \A i \in 1..Len(t) : u[Len(s) + i] = t[i]
  BY <1>1
<1>3. /\ a \in Seq(Seq(Nat)) /\ Len(a) = Len(s) /\ b \in Seq(Seq(Nat)) /\ Len(b) = Len(t)
      /\ c \in Seq(Seq(Nat)) /\ Len(c) = Len(u)
  BY <1>1, <1>2, ValuesAre
<1>4. \A i \in 1..Len(s) : c[i] = a[i]
  <2>1. \A i \in 1..Len(s) : i \in 1..Len(u)
    BY <1>2
  <2> QED
    BY <1>1, <1>2, <2>1, ValuesAre, ZenonT(60)
<1>5. \A i \in 1..Len(t) : c[Len(s) + i] = b[i]
  <2> SUFFICES ASSUME NEW i \in 1..Len(t) PROVE c[Len(s) + i] = b[i]
    OBVIOUS
  <2>1. PICK j : j = Len(s) + i
    OBVIOUS
  <2>2. j \in 1..Len(u) /\ u[j] = t[i]
    BY <1>2, <2>1
  <2>3. c[j] = IF u[j].k = "z" THEN u[j].v ELSE <<>>
    BY <1>1, <1>2, <2>2, ValuesAre
  <2>4. b[i] = IF t[i].k = "z" THEN t[i].v ELSE <<>>
    BY <1>1, ValuesAre
  <2> QED
    BY <2>1, <2>2, <2>3, <2>4
<1>6. c = a \o b
  <2>0. a \o b \in Seq(Seq(Nat)) /\ Len(a \o b) = Len(a) + Len(b)
        /\ (\A i \in 1..Len(a) : (a \o b)[i] = a[i]) /\ \A i \in 1..Len(b) : (a \o b)[Len(a) + i] = b[i]
    <3>1. PICK S : S = Seq(Nat)
      OBVIOUS
    <3>2. a \in Seq(S) /\ b \in Seq(S)
      BY <1>3, <3>1
    <3> QED
      BY <3>1, <3>2, ConcatIs
  <2>1. PICK d : d = a \o b
    OBVIOUS
  <2>2. d \in Seq(Seq(Nat)) /\ Len(d) = Len(a) + Len(b)
        /\ (\A i \in 1..Len(a) : d[i] = a[i]) /\ \A i \in 1..Len(b) : d[Len(a) + i] = b[i]
    BY <2>0, <2>1, Zenon
  <2>3. Len(c) = Len(d)
    BY <1>2, <1>3, <2>2
  <2>4. ASSUME NEW i \in 1..Len(d) PROVE c[i] = d[i]
    <3>1. CASE i \in 1..Len(a)
      BY <1>3, <1>4, <2>2, <3>1
    <3>2. CASE i \notin 1..Len(a)
      <4>1. PICK j \in 1..Len(b) : i = Len(a) + j
        <5>1. i - Len(a) \in 1..Len(b) /\ i = Len(a) + (i - Len(a))
          BY <1>3, <2>2, <3>2
        <5> QED
          BY <5>1
      <4> QED
        BY <1>3, <1>5, <2>2, <4>1
    <3> QED
      BY <3>1, <3>2
  <2>5. c = d
    BY <1>3, <2>2, <2>3, <2>4
  <2> QED
    BY <2>1, <2>5
<1>7. FlattenSeq(a) \in Seq(Nat) /\ FlattenSeq(b) \in Seq(Nat) /\ FlattenSeq(a \o b) = FlattenSeq(a) \o FlattenSeq(b)
  BY <1>3, FlattenConcat, Zenon
<1> QED
  BY <1>1, <1>6, <1>7, Zenon DEF Bytes, Values

\* Framing decodes to nothing.
LEMMA NoBytes ==
  ASSUME NEW s \in Seq(Token), NoneDecodes(s)
  PROVE  Bytes(s) = <<>>
<1>1. PICK a : a = Values(s)
  OBVIOUS
<1>2. a \in Seq(Seq(Nat)) /\ Len(a) = Len(s) /\ Len(s) \in Nat /\ \A i \in 1..Len(s) : a[i] = <<>>
  <2>1. a \in Seq(Seq(Nat)) /\ Len(a) = Len(s) /\ Len(s) \in Nat
    BY <1>1, ValuesAre
  <2>2. ASSUME NEW i \in 1..Len(s) PROVE a[i] = <<>>
    <3>1. a[i] = IF s[i].k = "z" THEN s[i].v ELSE <<>>
      BY <1>1, ValuesAre
    <3> QED
      BY <3>1 DEF NoneDecodes
  <2> QED
    BY <2>1, <2>2
<1>3. PICK e, t : e = [i \in 0..Len(s) |-> 0] /\ t = <<>>
  OBVIOUS
<1>4. t \in Seq(Nat) /\ SubSeq(t, 0 + 1, 0) = t /\ Len(t) = 0
  BY <1>3
<1>5. /\ e[0] = 0 /\ \A i \in 0..Len(a) : e[i] = 0
      /\ \A i \in 1..Len(a) : i - 1 \in 0..Len(a) /\ i \in 0..Len(a)
  BY <1>2, <1>3
<1>6. \A i \in 0..Len(a) : e[i] \in 0..Len(t)
  BY <1>4, <1>5
<1>7. \A i \in 1..Len(a) : a[i] = SubSeq(t, e[i - 1] + 1, e[i]) /\ e[i - 1] <= e[i]
  BY <1>2, <1>3, <1>4, <1>5
<1>8. FlattenSeq(a) = SubSeq(t, 1, e[Len(a)])
  <2>1. t \in Seq(Nat) /\ a \in Seq(Seq(Nat)) /\ e[0] = 0
    BY <1>2, <1>4, <1>5
  <2> QED
    BY <1>6, <1>7, <2>1, FlattenPieces, Zenon
<1>9. Len(a) \in 0..Len(a)
  BY <1>2
<1>10. FlattenSeq(a) = <<>>
  BY <1>3, <1>4, <1>5, <1>8, <1>9
<1> QED
  BY <1>1, <1>10, Zenon DEF Bytes, Values

-----------------------------------------------------------------------------
(* What the server's response is made of.                                  *)

Heads == Of(Kinds \ {"z", "end", "adler"})
Datas == Of({"z"})
Tails == Of(Kinds \ {"z", "start", "zhead"})

\* Each of them is a token.
LEMMA TokensAre ==
  /\ \A s \in Seq(Heads) : s \in Seq(Token) /\ NoneDecodes(s)
                           /\ \A i \in 1..Len(s) : s[i].k \notin {"z", "end", "adler"}
  /\ \A s \in Seq(Datas) : s \in Seq(Token) /\ \A i \in 1..Len(s) : s[i].k = "z"
  /\ \A s \in Seq(Tails) : s \in Seq(Token) /\ NoneDecodes(s)
                           /\ \A i \in 1..Len(s) : s[i].k \notin {"z", "start", "zhead"}
<1>1. Heads \subseteq Token /\ Datas \subseteq Token /\ Tails \subseteq Token
  BY DEF Heads, Datas, Tails, Token, Of, Kinds
<1>2. \A s \in Seq(Heads) : s \in Seq(Token) /\ \A i \in 1..Len(s) : s[i] \in Heads
  BY <1>1
<1>3. \A s \in Seq(Datas) : s \in Seq(Token) /\ \A i \in 1..Len(s) : s[i] \in Datas
  BY <1>1
<1>4. \A s \in Seq(Tails) : s \in Seq(Token) /\ \A i \in 1..Len(s) : s[i] \in Tails
  BY <1>1
<1>5. /\ \A x \in Heads : x.k \notin {"z", "end", "adler"}
      /\ \A x \in Datas : x.k = "z"
      /\ \A x \in Tails : x.k \notin {"z", "start", "zhead"}
  BY DEF Heads, Datas, Tails, Of
<1>6. ASSUME NEW s \in Seq(Heads)
      PROVE  s \in Seq(Token) /\ NoneDecodes(s) /\ \A i \in 1..Len(s) : s[i].k \notin {"z", "end", "adler"}
  BY <1>2, <1>5 DEF NoneDecodes
<1>7. ASSUME NEW s \in Seq(Datas)
      PROVE  s \in Seq(Token) /\ \A i \in 1..Len(s) : s[i].k = "z"
  BY <1>3, <1>5
<1>8. ASSUME NEW s \in Seq(Tails)
      PROVE  s \in Seq(Token) /\ NoneDecodes(s) /\ \A i \in 1..Len(s) : s[i].k \notin {"z", "start", "zhead"}
  BY <1>4, <1>5 DEF NoneDecodes
<1> QED
  BY <1>6, <1>7, <1>8

\* The compressed text decodes to the text.
LEMMA StreamIs ==
  ASSUME session \in Sessions
  PROVE  \E z \in Seq(Datas) : StreamOf(Text) = <<Tok("start", <<>>)>> \o z /\ Bytes(z) = Text
<1>1. PICK t, c : t = Text /\ c = session.cuts
  OBVIOUS
<1>2. /\ t \in Seq(Nat) /\ c \in Seq(Nat) /\ \A i, j \in DOMAIN c : i <= j => c[i] <= c[j]
      /\ IF c = <<>> THEN t = <<>> ELSE c[Len(c)] = Len(t)
  BY <1>1, CodingSessions DEF SessionType, Cut, Text
<1>3. PICK e : e = [i \in 0..Len(c) |-> IF i = 0 THEN 0 ELSE c[i]]
  OBVIOUS
<1>4. Len(c) \in Nat /\ DOMAIN c = 1..Len(c)
  BY <1>2
<1>5. e[0] = 0 /\ \A i \in 1..Len(c) : e[i] = c[i] /\ e[i] \in Nat
  BY <1>2, <1>3, <1>4
<1>6. \A i \in 0..Len(c) : e[i] \in 0..Len(t)
  <2>1. c # <<>> => Len(c) \in DOMAIN c
    BY <1>2, <1>4
  <2>2. ASSUME NEW i \in 1..Len(c) PROVE e[i] \in 0..Len(t)
    <3>1. e[i] = c[i] /\ c[i] \in Nat /\ i \in DOMAIN c /\ Len(c) \in DOMAIN c /\ i <= Len(c) /\ c # <<>>
      BY <1>2, <1>4, <1>5, <2>1
    <3>2. c[i] <= c[Len(c)] /\ c[Len(c)] = Len(t)
      BY <1>2, <3>1
    <3> QED
      BY <1>2, <3>1, <3>2
  <2> QED
    BY <1>2, <1>4, <1>5, <2>2
<1>7. ASSUME NEW i \in 1..Len(c) PROVE e[i - 1] <= e[i]
  <2>1. CASE i = 1
    BY <1>5, <2>1
  <2>2. CASE i # 1
    <3>1. i - 1 \in DOMAIN c /\ i \in DOMAIN c /\ i - 1 <= i /\ i - 1 \in 1..Len(c)
      BY <1>4, <2>2
    <3>2. c[i - 1] <= c[i]
      BY <1>2, <3>1
    <3> QED
      BY <1>5, <3>1, <3>2
  <2> QED
    BY <2>1, <2>2
<1>8. e[Len(c)] = Len(t)
  BY <1>2, <1>4, <1>5
<1>9. PICK z : z = [i \in DOMAIN c |-> Tok("z", SubSeq(t, e[i - 1] + 1, e[i]))]
  OBVIOUS
<1>10. \A i \in 1..Len(c) : SubSeq(t, e[i - 1] + 1, e[i]) \in Seq(Nat)
  <2> SUFFICES ASSUME NEW i \in 1..Len(c) PROVE SubSeq(t, e[i - 1] + 1, e[i]) \in Seq(Nat)
    OBVIOUS
  <2>1. i - 1 \in 0..Len(c) /\ i \in 0..Len(c)
    BY <1>4
  <2>2. PICK x, y \in 0..Len(t) : x = e[i - 1] /\ y = e[i]
    BY <1>6, <2>1
  <2>3. SubSeq(t, x + 1, y) \in Seq(Nat)
    BY <1>2
  <2> QED
    BY <2>2, <2>3
<1>11. /\ z \in Seq(Datas) /\ Len(z) = Len(c)
       /\ \A i \in 1..Len(c) : z[i].k = "z" /\ z[i].v = SubSeq(t, e[i - 1] + 1, e[i])
  <2>1. \A i \in 1..Len(c) : z[i] = [k |-> "z", v |-> SubSeq(t, e[i - 1] + 1, e[i])] /\ z[i] \in Datas
    BY <1>4, <1>9, <1>10 DEF Tok, Datas, Of
  <2>2. DOMAIN z = 1..Len(c)
    BY <1>4, <1>9
  <2>3. z \in [1..Len(c) -> Datas]
    BY <1>9, <2>1, <2>2
  <2>4. z \in Seq(Datas) /\ Len(z) = Len(c)
    BY <1>4, <2>2, <2>3
  <2>5. \A i \in 1..Len(c) : z[i].k = "z" /\ z[i].v = SubSeq(t, e[i - 1] + 1, e[i])
    <3> TAKE i \in 1..Len(c)
    <3>1. PICK x : x = SubSeq(t, e[i - 1] + 1, e[i])
      OBVIOUS
    <3>2. PICK r : r = z[i]
      OBVIOUS
    <3>3. r = [k |-> "z", v |-> x]
      BY <2>1, <3>1, <3>2
    <3>4. r.k = "z" /\ r.v = x
      BY <3>3
    <3> QED
      BY <3>1, <3>2, <3>4, Zenon
  <2> QED
    BY <2>4, <2>5
<1>12. PICK a : a = Values(z)
  OBVIOUS
<1>13. /\ a \in Seq(Seq(Nat)) /\ Len(a) = Len(c)
       /\ \A i \in 1..Len(c) : a[i] = SubSeq(t, e[i - 1] + 1, e[i])
  <2>1. z \in Seq(Token)
    BY <1>11, TokensAre
  <2> QED
    BY <1>11, <1>12, <2>1, ValuesAre
<1>14. FlattenSeq(a) = SubSeq(t, 1, e[Len(a)])
  <2>1. \A i \in 0..Len(a) : e[i] \in 0..Len(t)
    BY <1>6, <1>13
  <2>2. \A i \in 1..Len(a) : a[i] = SubSeq(t, e[i - 1] + 1, e[i]) /\ e[i - 1] <= e[i]
    BY <1>7, <1>13
  <2> QED
    BY <1>2, <1>5, <1>13, <2>1, <2>2, FlattenPieces, Zenon
<1>15. SubSeq(t, 1, Len(t)) = t
  BY <1>2
<1>16. Bytes(z) = t
  BY <1>8, <1>12, <1>13, <1>14, <1>15 DEF Bytes, Values
<1>17. StreamOf(Text) = <<Tok("start", <<>>)>> \o z
  <2>1. z = [i \in DOMAIN c |-> Tok("z", SubSeq(t, (IF i - 1 = 0 THEN 0 ELSE c[i - 1]) + 1, IF i = 0 THEN 0 ELSE c[i]))]
    <3>1. \A i \in DOMAIN c : /\ e[i - 1] = (IF i - 1 = 0 THEN 0 ELSE c[i - 1])
                              /\ e[i] = (IF i = 0 THEN 0 ELSE c[i])
      BY <1>3, <1>4
    <3> QED
      BY <1>9, <3>1
  <2> QED
    BY <1>1, <2>1 DEF StreamOf
<1> QED
  BY <1>1, <1>11, <1>16, <1>17

\* A field of the gzip header.
LEMMA FieldTokens ==
  /\ \A f \in FieldPlaces : Field(f) \in Seq(Heads)
  /\ Len(Field("extra")) >= 1 /\ Field("extra")[1] = Tok("xlen", <<EXTRA>>)
<1>1. /\ <<>> \in Seq(Nat) /\ <<EXTRA>> \in Seq(Nat)
      /\ \A v \in Seq(Nat) : {Tok("xlen", v), Tok("x", v), Tok("c", v), Tok("nul", v), Tok("hc", v)} \subseteq Heads
  BY DEF Tok, Heads, Of, Kinds, EXTRA
<1>2. PICK l, x, c, n, h : /\ l = Tok("xlen", <<EXTRA>>) /\ x = Tok("x", <<>>) /\ c = Tok("c", <<>>)
                           /\ n = Tok("nul", <<>>) /\ h = Tok("hc", <<>>)
  OBVIOUS
<1>3. l \in Heads /\ x \in Heads /\ c \in Heads /\ n \in Heads /\ h \in Heads
  BY <1>1, <1>2
<1>4. Field("extra") = <<l>> \o [i \in 1..EXTRA |-> x]
  BY <1>2 DEF Field
<1>5. Field("name") = <<c, c, n>> /\ Field("comment") = <<c, n>> /\ Field("hcrc") = <<h, h>>
  BY <1>2 DEF Field
<1>6. [i \in 1..EXTRA |-> x] \in Seq(Heads) /\ <<l>> \in Seq(Heads)
  BY <1>3 DEF EXTRA
<1>7. PICK y : y = [i \in 1..EXTRA |-> x] /\ y \in Seq(Heads)
  BY <1>6
<1>8. <<l>> \o y \in Seq(Heads) /\ Len(<<l>> \o y) >= 1 /\ (<<l>> \o y)[1] = l
  <2>1. PICK u : u = <<l>>
    OBVIOUS
  <2>2. u \in Seq(Heads) /\ Len(u) = 1 /\ u[1] = l
    BY <1>3, <2>1
  <2>3. u \o y \in Seq(Heads) /\ Len(u \o y) >= 1 /\ (u \o y)[1] = u[1]
    <3>1. PICK w : w = u \o y
      OBVIOUS
    <3>2. w \in Seq(Heads) /\ Len(w) = Len(u) + Len(y) /\ \A k \in 1..Len(u) : w[k] = u[k]
      BY <1>7, <2>2, <3>1, ConcatIs
    <3>3. Len(y) \in Nat
      <4>1. y \in Seq(Heads)
        BY <1>7
      <4> QED
        BY <4>1
    <3> QED
      BY <2>2, <3>1, <3>2, <3>3
  <2> QED
    BY <2>1, <2>2, <2>3, Zenon
<1>9. <<c, c, n>> \in Seq(Heads) /\ <<c, n>> \in Seq(Heads) /\ <<h, h>> \in Seq(Heads)
  BY <1>3
<1> QED
  BY <1>2, <1>4, <1>5, <1>7, <1>8, <1>9 DEF FieldPlaces

\* All of them.
HeaderFields == FlattenSeq([i \in DOMAIN Fields |-> Field(Fields[i])])

\* They are tokens of a gzip header, none of the stream, and begin as the first field does.
LEMMA HeaderFieldsAre ==
  /\ HeaderFields \in Seq(Heads)
  /\ (Fields # <<>> /\ Fields[1] = "extra") =>
       Len(HeaderFields) >= 1 /\ HeaderFields[1] = Tok("xlen", <<EXTRA>>)
<1>1. PICK n, fs : fs = Fields /\ n = Len(fs)
  OBVIOUS
<1>2. fs \in Seq(FieldPlaces) /\ n \in Nat /\ DOMAIN fs = 1..n
  BY <1>1, FieldsAre
<1>3. PICK seqs : seqs = [i \in DOMAIN fs |-> Field(fs[i])]
  OBVIOUS
<1>4. \A i \in 1..n : seqs[i] = Field(fs[i]) /\ seqs[i] \in Seq(Heads)
  BY <1>2, <1>3, FieldTokens
<1>5. DOMAIN seqs = 1..n /\ seqs \in [1..n -> Seq(Heads)]
  BY <1>2, <1>3, <1>4
<1>6. seqs \in Seq(Seq(Heads)) /\ Len(seqs) = n
  BY <1>2, <1>5
<1>7. PICK w : w = FlattenSeq(seqs)
  OBVIOUS
<1>8. w = HeaderFields
  BY <1>1, <1>3, <1>7, Zenon DEF HeaderFields
<1>9. w \in Seq(Heads)
  BY <1>6, <1>7, FlattenConcat, Zenon
<1>10. ASSUME fs # <<>>, fs[1] = "extra"
       PROVE  Len(w) >= 1 /\ w[1] = Tok("xlen", <<EXTRA>>)
  <2>1. 1 \in 0..n /\ 0 \in 0..n /\ 1 \in 1..n /\ 1 > 0 /\ 1 - 1 = 0
    BY <1>2, <1>10
  <2>2. PICK sums \in [0..n -> Seq(Heads)] : Sums(sums, seqs)
    BY <1>6, FlattenSums
  <2>3. /\ Stands(sums[1], w, 0) /\ Stands(seqs[1], w, Len(sums[1 - 1]))
        /\ Len(sums[1]) = Len(sums[1 - 1]) + Len(seqs[1])
    BY <1>6, <1>7, <2>1, <2>2, SumsStand
  <2>4. sums[0] = <<>> /\ Len(sums[0]) = 0
    BY <2>2 DEF Sums
  <2>5. Stands(seqs[1], w, 0) /\ Len(seqs[1]) >= 1 /\ seqs[1][1] = Tok("xlen", <<EXTRA>>)
    BY <1>4, <1>10, <2>1, <2>3, <2>4, FieldTokens
  <2>6. seqs[1] \in Seq(Heads)
    BY <1>4, <2>1
  <2> QED
    BY <1>9, <2>5, <2>6 DEF Stands
<1> QED
  BY <1>1, <1>8, <1>9, <1>10

\* A field other than the extra field is never first after another one, and it never comes again.
LEMMA ExtraIsFirst ==
  ASSUME NEW i \in 1..Len(Fields), Fields[i] = "extra"
  PROVE  i = 1
<1>1. PICK a, b, c, d :
        a = Present("extra") /\ b = Present("name") /\ c = Present("comment") /\ d = Present("hcrc")
  OBVIOUS
<1> DEFINE Others == FieldPlaces \ {"extra"}
<1>2. a \in Seq(FieldPlaces) /\ Len(a) <= 1 /\ b \in Seq(Others) /\ c \in Seq(Others) /\ d \in Seq(Others)
  <2>1. ASSUME NEW S, NEW f \in S PROVE Present(f) \in Seq(S) /\ Len(Present(f)) <= 1
    <3>1. Present(f) = <<f>> \/ Present(f) = <<>>
      BY DEF Present
    <3>2. <<f>> \in Seq(S) /\ Len(<<f>>) = 1
      BY <2>1
    <3>3. <<>> \in Seq(S) /\ Len(<<>>) = 0
      OBVIOUS
    <3>4. CASE Present(f) = <<f>>
      BY <3>2, <3>4, 1 <= 1
    <3>5. CASE Present(f) = <<>>
      BY <3>3, <3>5, 0 <= 1
    <3> QED
      BY <3>1, <3>4, <3>5
  <2>2. "extra" \in FieldPlaces /\ "name" \in Others /\ "comment" \in Others /\ "hcrc" \in Others
    BY DEF FieldPlaces
  <2> QED
    BY <1>1, <2>1, <2>2, Zenon
<1>3. b \o c \in Seq(Others)
  BY <1>2
<1>4. (b \o c) \o d \in Seq(Others)
  BY <1>2, <1>3
<1>5. PICK e : e = (b \o c) \o d /\ e \in Seq(Others)
  BY <1>4
<1>6. Fields = a \o e
  <2>1. Others \subseteq FieldPlaces
    OBVIOUS
  <2>2. b \in Seq(FieldPlaces) /\ c \in Seq(FieldPlaces) /\ d \in Seq(FieldPlaces)
    BY <1>2, <2>1
  <2>3. b \o c \in Seq(FieldPlaces)
    BY <2>2, ConcatIs, Zenon
  <2>4. Associates(a, b, c) /\ Associates(a, b \o c, d)
    BY <1>2, <2>2, <2>3, ConcatAssociates, Zenon
  <2> QED
    BY <1>1, <1>5, <2>4, Zenon DEF Fields, Associates
<1>7. Len(Fields) = Len(a) + Len(e) /\ \A j \in 1..Len(e) : Fields[Len(a) + j] = e[j]
  BY <1>2, <1>5, <1>6
<1>8. CASE i <= Len(a)
  BY <1>2, <1>8
<1>9. CASE i > Len(a)
  <2>1. i - Len(a) \in 1..Len(e) /\ Len(a) + (i - Len(a)) = i
    BY <1>2, <1>5, <1>7, <1>9
  <2>2. Fields[i] = e[i - Len(a)]
    BY <1>7, <2>1
  <2>3. e[i - Len(a)] \in Others
    BY <1>5, <2>1
  <2> QED
    BY <2>2, <2>3
<1> QED
  BY <1>2, <1>7, <1>8, <1>9

\* The stream's tokens between what is before and behind them.
Around(h, st, z, e, t) == ((h \o (st \o z)) \o e) \o t = ((h \o st) \o z) \o (e \o t)

\* The stream may be taken with what is before it or with what is behind it.
LEMMA AroundStream ==
  ASSUME NEW h \in Seq(Token), NEW st \in Seq(Token), NEW z \in Seq(Token), NEW e \in Seq(Token),
         NEW t \in Seq(Token)
  PROVE  Around(h, st, z, e, t)
<1>1. Assoc(h, st, z)
  BY Brackets, Zenon
<1>2. PICK x : x = h \o (st \o z)
  OBVIOUS
<1>3. x \in Seq(Token)
  BY <1>2, TokensConcat, Zenon
<1>4. Assoc(x, e, t)
  BY <1>3, Brackets, Zenon
<1> QED
  BY <1>1, <1>2, <1>4, Zenon DEF Assoc, Around

\* The response is framing up to the start of the stream, the tokens of the text, and framing.
Parts(a, z, b) ==
  /\ a \in Seq(Heads) /\ z \in Seq(Datas) /\ b \in Seq(Tails)
  /\ Response = (a \o z) \o b /\ Bytes(z) = Text
  /\ session.gzip /\ Fields # <<>> /\ Fields[1] = "extra" => Len(a) >= 3 /\ a[3] = Tok("xlen", <<EXTRA>>)

\* Whatever the coding, the response has these three parts.
LEMMA ResponseParts ==
  ASSUME session \in Sessions
  PROVE  \E a, z, b : Parts(a, z, b)
<1>0. Text \in Seq(Nat) /\ session.gzip \in BOOLEAN
  BY SessionIs
<1>1. PICK z \in Seq(Datas) : StreamOf(Text) = <<Tok("start", <<>>)>> \o z /\ Bytes(z) = Text
  BY StreamIs
<1>2. PICK st, id, fl, zh, en, ad, tr :
        /\ st = Tok("start", <<>>) /\ id = Tok("id", <<>>) /\ fl = Tok("flags", <<>>) /\ zh = Tok("zhead", <<>>)
        /\ en = Tok("end", <<>>) /\ ad = Tok("adler", Text) /\ tr = Trailer(Text)
  OBVIOUS
<1>3. /\ st \in Heads /\ id \in Heads /\ fl \in Heads /\ zh \in Heads /\ en \in Tails /\ ad \in Tails
      /\ tr \in Seq(Tails)
  <2>1. <<>> \in Seq(Nat) /\ <<Len(Text)>> \in Seq(Nat)
    BY <1>0
  <2>2. /\ \A v \in Seq(Nat) : {Tok("start", v), Tok("id", v), Tok("flags", v), Tok("zhead", v)} \subseteq Heads
        /\ \A v \in Seq(Nat) : {Tok("end", v), Tok("adler", v), Tok("crc", v), Tok("len", v)} \subseteq Tails
    BY DEF Tok, Heads, Tails, Of, Kinds
  <2>3. PICK c, l \in Tails : c = Tok("crc", Text) /\ l = Tok("len", <<Len(Text)>>)
    BY <1>0, <2>1, <2>2
  <2>4. tr = <<c, l>>
    BY <1>2, <2>3 DEF Trailer
  <2>5. tr \in Seq(Tails)
    BY <2>4
  <2> QED
    BY <1>0, <1>2, <2>1, <2>2, <2>5
<1>4. z \in Seq(Token)
  BY TokensAre
<1>5. <<st>> \in Seq(Heads) /\ <<en>> \in Seq(Tails) /\ <<ad>> \in Seq(Tails) /\ <<id, fl>> \in Seq(Heads)
      /\ <<zh>> \in Seq(Heads) /\ <<>> \in Seq(Tails)
  BY <1>3
<1>6. CASE session.gzip
  <2>1. PICK h, f, hf, hs, et : /\ h = <<id, fl>> /\ f = HeaderFields /\ hf = h \o f /\ hs = hf \o <<st>>
                                /\ et = <<en>> \o tr
    OBVIOUS
  <2>2. f \in Seq(Heads)
    BY <2>1, HeaderFieldsAre
  <2>3. hf \in Seq(Heads) /\ Len(hf) = 2 + Len(f) /\ \A i \in 1..Len(f) : hf[2 + i] = f[i]
    <3>1. h \in Seq(Heads) /\ Len(h) = 2
      BY <1>5, <2>1
    <3> QED
      BY <2>1, <2>2, <3>1, ConcatIs
  <2>4. /\ hs \in Seq(Heads) /\ Len(hs) = Len(hf) + Len(<<st>>)
        /\ \A i \in 1..Len(hf) : hs[i] = hf[i]
    BY <1>5, <2>1, <2>3, ConcatIs
  <2>5. et \in Seq(Tails)
    BY <1>3, <1>5, <2>1, ConcatIs
  <2>6. Response = ((hf \o (<<st>> \o z)) \o <<en>>) \o tr
    BY <1>1, <1>2, <1>6, <2>1, Zenon DEF Response, HeaderFields
  <2>7. Response = (hs \o z) \o et
    <3>1. hf \in Seq(Token) /\ <<st>> \in Seq(Token) /\ <<en>> \in Seq(Token) /\ tr \in Seq(Token)
      BY <1>3, <1>5, <2>3, TokensAre, Zenon
    <3>2. PICK s1, e1 \in Seq(Token) : s1 = <<st>> /\ e1 = <<en>>
      BY <3>1
    <3>3. Around(hf, s1, z, e1, tr)
      BY <1>4, <3>1, AroundStream, Zenon
    <3> QED
      BY <2>1, <2>6, <3>2, <3>3, Zenon DEF Around
  <2>8. ASSUME Fields # <<>>, Fields[1] = "extra"
        PROVE  Len(hs) >= 3 /\ hs[3] = Tok("xlen", <<EXTRA>>)
    <3>1. Len(f) >= 1 /\ f[1] = Tok("xlen", <<EXTRA>>) /\ Len(f) \in Nat
      BY <2>1, <2>2, <2>8, HeaderFieldsAre
    <3>2. 1 \in 1..Len(f) /\ 3 \in 1..Len(hf) /\ 2 + 1 = 3 /\ Len(<<st>>) = 1 /\ Len(hf) \in Nat
      BY <2>3, <3>1
    <3>3. hs[3] = f[1]
      BY <2>3, <2>4, <3>2
    <3>4. Len(hs) >= 3
      BY <2>3, <2>4, <3>1, <3>2
    <3> QED
      BY <3>1, <3>3, <3>4
  <2> QED
    BY <1>1, <2>4, <2>5, <2>7, <2>8 DEF Parts
<1>7. CASE ~session.gzip
  <2>1. PICK h, e : /\ h = (IF session.zhead THEN <<zh>> ELSE <<>>)
                    /\ e = (IF session.zhead THEN <<ad>> ELSE <<en>>)
    OBVIOUS
  <2>2. h \in Seq(Heads) /\ e \in Seq(Tails)
    BY <1>5, <2>1
  <2>3. PICK s : s = <<st>> \o z
    OBVIOUS
  <2>4. h \in Seq(Token) /\ e \in Seq(Token) /\ <<st>> \in Seq(Token) /\ <<>> \in Seq(Token) /\ s \in Seq(Token)
    BY <1>4, <1>5, <2>2, <2>3, TokensAre, TokensConcat, NoTokens, Zenon
  <2>5. Response = (h \o s) \o e
    <3>1. CASE session.zhead
      BY <1>1, <1>2, <1>7, <2>1, <2>3, <3>1, Zenon DEF Response
    <3>2. CASE ~session.zhead
      <4>1. Response = s \o e
        BY <1>1, <1>2, <1>7, <2>1, <2>3, <3>2, Zenon DEF Response
      <4>2. h \o s = s
        BY <2>1, <2>4, <3>2, NoTokens, Zenon
      <4> QED
        BY <4>1, <4>2, Zenon
    <3> QED
      BY <3>1, <3>2
  <2>6. PICK hs : hs = h \o <<st>>
    OBVIOUS
  <2>7. hs \in Seq(Heads)
    BY <1>5, <2>2, <2>6, ConcatIs
  <2>8. h \o s = hs \o z
    <3>1. Assoc(h, <<st>>, z)
      BY <1>4, <2>4, Brackets, Zenon
    <3> QED
      BY <2>3, <2>6, <3>1, Zenon DEF Assoc
  <2> QED
    BY <1>1, <1>7, <2>2, <2>5, <2>7, <2>8, Zenon DEF Parts
<1> QED
  BY <1>0, <1>6, <1>7

\* Nothing decodes before the stream's start or behind its end.
LEMMA ResponseIs ==
  ASSUME session \in Sessions
  PROVE  /\ Response \in Seq(Token) /\ Bytes(Response) = Text
         /\ \A i, j \in 1..Len(Response) : Response[j].k = "z" =>
              /\ Response[i].k \in {"start", "zhead"} => i < j
              /\ Response[i].k \in {"end", "adler"} => j < i
         /\ session.gzip /\ Fields # <<>> /\ Fields[1] = "extra" =>
              Len(Response) >= 3 /\ Response[3] = Tok("xlen", <<EXTRA>>)
<1>1. PICK a, z, b : Parts(a, z, b)
  BY ResponseParts
<1>2. /\ a \in Seq(Token) /\ NoneDecodes(a) /\ \A i \in 1..Len(a) : a[i].k \notin {"z", "end", "adler"}
      /\ z \in Seq(Token) /\ \A i \in 1..Len(z) : z[i].k = "z"
      /\ b \in Seq(Token) /\ NoneDecodes(b) /\ \A i \in 1..Len(b) : b[i].k \notin {"z", "start", "zhead"}
  BY <1>1, TokensAre DEF Parts
<1>3. PICK az : /\ az = a \o z /\ az \in Seq(Token) /\ Len(az) = Len(a) + Len(z)
                /\ (\A i \in 1..Len(a) : az[i] = a[i]) /\ \A i \in 1..Len(z) : az[Len(a) + i] = z[i]
  <2>1. PICK T : T = Token
    OBVIOUS
  <2>2. a \in Seq(T) /\ z \in Seq(T)
    BY <1>2, <2>1
  <2>3. a \o z \in Seq(T) /\ Len(a \o z) = Len(a) + Len(z)
        /\ (\A i \in 1..Len(a) : (a \o z)[i] = a[i]) /\ \A i \in 1..Len(z) : (a \o z)[Len(a) + i] = z[i]
    BY <2>2, ConcatIs
  <2> QED
    BY <2>1, <2>3, Zenon
<1>4. PICK r : /\ r = az \o b /\ r \in Seq(Token) /\ Len(r) = Len(az) + Len(b)
               /\ (\A i \in 1..Len(az) : r[i] = az[i]) /\ \A i \in 1..Len(b) : r[Len(az) + i] = b[i]
  <2>1. PICK T : T = Token
    OBVIOUS
  <2>2. az \in Seq(T) /\ b \in Seq(T)
    BY <1>2, <1>3, <2>1
  <2>3. az \o b \in Seq(T) /\ Len(az \o b) = Len(az) + Len(b)
        /\ (\A i \in 1..Len(az) : (az \o b)[i] = az[i]) /\ \A i \in 1..Len(b) : (az \o b)[Len(az) + i] = b[i]
    BY <2>2, ConcatIs
  <2> QED
    BY <2>1, <2>3, Zenon
<1>5. r = Response
  BY <1>1, <1>3, <1>4, Zenon DEF Parts
<1>6. PICK m, n, l \in Nat : m = Len(a) /\ n = Len(z) /\ l = Len(b)
  <2>1. Len(a) \in Nat /\ Len(z) \in Nat /\ Len(b) \in Nat
    BY <1>2
  <2> QED
    BY <2>1
<1>7. Len(az) = m + n /\ Len(r) = m + n + l
  BY <1>3, <1>4, <1>6
<1>8. \A i \in 1..m : r[i] = a[i]
  BY <1>3, <1>4, <1>6, <1>7
<1>9. (\A i \in 1..n : r[m + i] = z[i]) /\ \A i \in 1..l : r[m + n + i] = b[i]
  <2>1. \A i \in 1..n : az[m + i] = z[i] /\ m + i \in 1..Len(az)
    BY <1>3, <1>6, <1>7
  <2>2. \A i \in 1..l : r[m + n + i] = b[i]
    BY <1>4, <1>6, <1>7
  <2> QED
    BY <1>4, <2>1, <2>2
<1>10. ASSUME NEW i \in 1..m + n + l
       PROVE  /\ r[i].k = "z" => m < i /\ i <= m + n
              /\ r[i].k \in {"start", "zhead"} => i <= m
              /\ r[i].k \in {"end", "adler"} => m + n < i
  <2>1. CASE i \in 1..m
    BY <1>2, <1>6, <1>8, <2>1
  <2>2. CASE i > m /\ i <= m + n
    <3>1. i - m \in 1..n /\ m + (i - m) = i
      BY <1>6, <2>2
    <3>2. r[i] = z[i - m]
      BY <1>9, <3>1
    <3>3. r[i].k = "z"
      BY <1>2, <1>6, <3>1, <3>2
    <3> QED
      BY <1>6, <2>2, <3>3
  <2>3. CASE i > m + n
    <3>1. i - (m + n) \in 1..l /\ m + n + (i - (m + n)) = i
      BY <1>6, <2>3
    <3>2. r[i] = b[i - (m + n)]
      BY <1>9, <3>1
    <3>3. r[i].k \notin {"z", "start", "zhead"}
      BY <1>2, <1>6, <3>1, <3>2
    <3> QED
      BY <1>6, <2>3, <3>3
  <2> QED
    BY <1>6, <2>1, <2>2, <2>3
<1>11. Bytes(r) = Text
  <2>1. Bytes(a) = <<>> /\ Bytes(b) = <<>> /\ Bytes(z) = Text /\ Text \in Seq(Nat)
    BY <1>1, <1>2, NoBytes, SessionIs DEF Parts
  <2>2. Bytes(r) = Bytes(az) \o Bytes(b) /\ Bytes(az) = Bytes(a) \o Bytes(z)
    BY <1>2, <1>3, <1>4, BytesConcat
  <2>3. <<>> \o Text = Text /\ Text \o <<>> = Text
    BY <2>1
  <2> QED
    BY <2>1, <2>2, <2>3, Zenon
<1>12. ASSUME NEW i \in 1..Len(r), NEW j \in 1..Len(r), r[j].k = "z"
       PROVE  /\ r[i].k \in {"start", "zhead"} => i < j
              /\ r[i].k \in {"end", "adler"} => j < i
  BY <1>7, <1>10, <1>12
<1>13. ASSUME session.gzip, Fields # <<>>, Fields[1] = "extra"
       PROVE  Len(r) >= 3 /\ r[3] = Tok("xlen", <<EXTRA>>)
  <2>1. m >= 3 /\ a[3] = Tok("xlen", <<EXTRA>>)
    BY <1>1, <1>6, <1>13 DEF Parts
  <2> QED
    BY <1>7, <1>8, <2>1
<1> QED
  BY <1>4, <1>5, <1>11, <1>12, <1>13

-----------------------------------------------------------------------------
(* A call of inflate.                                                      *)

\* Some number is the first in a set of them.
LEMMA FirstOf ==
  ASSUME NEW n \in Nat, NEW T, n \in T
  PROVE  \E k \in 0..n : k \in T /\ \A i \in 0..n : i \in T => k <= i
<1> DEFINE U == {i \in 0..n : i \in T}
<1>1. U \in SUBSET Nat /\ n \in U
  OBVIOUS
<1> HIDE DEF U
<1>2. PICK k \in U : \A y \in U : k <= y
  BY <1>1, LeastElement
<1>3. k \in 0..n /\ k \in T /\ \A i \in 0..n : i \in T => k <= i
  BY <1>2 DEF U
<1> QED
  BY <1>3

\* It stops at the first token that it does not take, behind one that ends the stream, or where
\* its input ends.
Good(m, i) ==
  IF i = 1 /\ ~iInit THEN buff[i].k = (IF m = "raw" THEN "start" ELSE "zhead")
  ELSE buff[i].k \in {"start", "z", IF m = "raw" THEN "end" ELSE "adler"}
Ends(i) == buff[i].k \in {"end", "adler"}
LastTaken(m) ==
  CHOOSE k \in 0..Len(buff) :
    /\ \A i \in 1..k : Good(m, i) /\ (i < k => ~Ends(i))
    /\ k = Len(buff) \/ ~Good(m, k + 1) \/ (k > 0 /\ Ends(k))

\* There is such a token, and inflate takes none behind it.
LEMMA LastIs ==
  ASSUME NEW m, buff \in Seq(Token)
  PROVE  LastTaken(m) \in 0..Len(buff) /\ \A i \in 1..LastTaken(m) : Good(m, i)
<1> DEFINE Stop(k) == k = Len(buff) \/ ~Good(m, k + 1) \/ (k > 0 /\ Ends(k))
           T == {k \in 0..Len(buff) : Stop(k)}
<1>1. Len(buff) \in Nat /\ Len(buff) \in T
  OBVIOUS
<1>2. \A i \in 0..Len(buff) : i \in T <=> Stop(i)
  OBVIOUS
<1> HIDE DEF T
<1>3. PICK k \in 0..Len(buff) : k \in T /\ \A i \in 0..Len(buff) : i \in T => k <= i
  BY <1>1, FirstOf
<1>4. ASSUME NEW i \in 1..k
      PROVE  Good(m, i) /\ (i < k => ~Ends(i))
  <2>1. i - 1 \in 0..Len(buff) /\ i \in 0..Len(buff) /\ ~(k <= i - 1) /\ (i < k => ~(k <= i)) /\ (i - 1) + 1 = i /\ i > 0
    BY <1>1
  <2>2. ~Stop(i - 1) /\ (i < k => ~Stop(i))
    BY <1>2, <1>3, <2>1
  <2>3. Good(m, (i - 1) + 1)
    BY <2>2
  <2> QED
    BY <2>1, <2>2, <2>3
<1>5. Stop(k)
  BY <1>2, <1>3
<1>6. \E x \in 0..Len(buff) : /\ \A i \in 1..x : Good(m, i) /\ (i < x => ~Ends(i))
                              /\ x = Len(buff) \/ ~Good(m, x + 1) \/ (x > 0 /\ Ends(x))
  BY <1>4, <1>5
<1> QED
  BY <1>6 DEF LastTaken

Decoded(k) == held \o Bytes(SubSeq(buff, 1, k))
\* What a call that takes k tokens leaves
Taken(m, o, k) ==
  /\ o.mode = m /\ o.used = k
  /\ o.out \in Seq(Nat) /\ o.held \in Seq(Nat) /\ o.out \o o.held = Decoded(k) /\ Len(o.out) <= room
  /\ o.end \in BOOLEAN /\ o.late \in BOOLEAN /\ o.ok \in BOOLEAN
  /\ o.end \/ o.late => k > 0 /\ Ends(k) /\ o.held = <<>>
  /\ o.ok /\ ~iInit /\ held = <<>> => k > 0 /\ buff[1].k \in {"start", "zhead"}

\* What was decoded is given as far as there is room, and the rest is kept.
Halves(d, n, a, b) ==
  /\ a \in Seq(Nat) /\ b \in Seq(Nat) /\ a \o b = d /\ Len(a) <= n
  /\ Len(d) <= n => b = <<>>
  /\ d = <<>> => a = <<>>

\* Cutting decoded bytes to the room of the call loses none of them.
LEMMA CutToRoom ==
  ASSUME NEW d \in Seq(Nat), NEW n \in Nat
  PROVE  Halves(d, n, SubSeq(d, 1, Least(n, Len(d))), From(d, n + 1))
<1> SUFFICES ASSUME NEW a, NEW b, a = SubSeq(d, 1, Least(n, Len(d))), b = From(d, n + 1)
             PROVE  /\ a \in Seq(Nat) /\ b \in Seq(Nat) /\ a \o b = d /\ Len(a) <= n
                    /\ Len(d) <= n => b = <<>>
                    /\ d = <<>> => a = <<>>
  BY Zenon DEF Halves
<1>1. CASE n < Len(d)
  <2>1. Least(n, Len(d)) = n /\ n \in 0..Len(d)
    BY <1>1 DEF Least
  <2>2. /\ a \in Seq(Nat) /\ b \in Seq(Nat) /\ a \o b = d /\ Len(a) = n
    BY <2>1, CutIs DEF From
  <2>3. Len(d) \in Nat /\ d # <<>> /\ ~(Len(d) <= n) /\ Len(a) <= n
    <3>1. Len(d) \in Nat /\ (d = <<>> => Len(d) = 0)
      OBVIOUS
    <3> QED
      BY <1>1, <2>2, <3>1, SMTT(30)
  <2> QED
    BY <2>2, <2>3, Zenon
<1>2. CASE ~(n < Len(d))
  <2>1. Least(n, Len(d)) = Len(d) /\ SubSeq(d, 1, Len(d)) = d /\ Len(d) <= n
    BY <1>2 DEF Least
  <2>2. a = d /\ b = <<>>
    BY <2>1 DEF From
  <2>3. d \o <<>> = d /\ <<>> \in Seq(Nat)
    OBVIOUS
  <2> QED
    BY <2>1, <2>2, <2>3, Zenon
<1> QED
  BY <1>1, <1>2

\* inflate's outcomes.
LEMMA InflatesIs ==
  ASSUME session \in Sessions, buff \in Seq(Token), held \in Seq(Nat), room \in Nat, NEW m, NEW o \in Inflates(m)
  PROVE  \E k \in 0..Len(buff) : Taken(m, o, k)
<1> DEFINE Some(k) == SubSeq(Decoded(k), 1, Least(room, Len(Decoded(k))))
           Over(k) == k > 0 /\ Ends(k) /\ Len(Decoded(k)) <= room
           Past(k) == Over(k) /\ m = "raw" /\ session.looksPast /\ k = Len(buff)
<1>1. PICK k \in 0..LastTaken(m) :
        o = [mode |-> m, used |-> k, out |-> Some(k), held |-> From(Decoded(k), room + 1),
             end |-> Over(k) /\ ~Past(k), late |-> Past(k),
             ok |-> /\ k > 0 \/ Some(k) # <<>>
                    /\ k < Len(buff) /\ ~Over(k) => Len(Decoded(k)) >= room]
  BY Zenon DEF Inflates, LastTaken, Good, Ends, Decoded
<1>2. session.looksPast \in BOOLEAN
  BY CodingSessions DEF SessionType
<1>3. /\ o.mode = m /\ o.used = k /\ o.out = Some(k) /\ o.held = From(Decoded(k), room + 1)
      /\ o.end = (Over(k) /\ ~Past(k)) /\ o.late = Past(k)
      /\ o.ok \in BOOLEAN /\ (o.ok => k > 0 \/ Some(k) # <<>>)
  BY <1>1
<1>4. k \in 0..Len(buff) /\ (k > 0 => Good(m, 1))
  <2>1. LastTaken(m) \in 0..Len(buff) /\ \A i \in 1..LastTaken(m) : Good(m, i)
    BY LastIs
  <2>2. Len(buff) \in Nat
    OBVIOUS
  <2> QED
    BY <2>1, <2>2
<1>5. SubSeq(buff, 1, k) \in Seq(Token) /\ Len(SubSeq(buff, 1, k)) = k
  BY <1>4, CutIs
<1>6. Decoded(k) \in Seq(Nat)
  <2>1. Bytes(SubSeq(buff, 1, k)) \in Seq(Nat)
    BY <1>5, BytesConcat
  <2> QED
    BY <2>1 DEF Decoded
<1>7. /\ Some(k) \in Seq(Nat) /\ o.held \in Seq(Nat) /\ Some(k) \o o.held = Decoded(k) /\ Len(Some(k)) <= room
      /\ Len(Decoded(k)) <= room => o.held = <<>>
      /\ Decoded(k) = <<>> => Some(k) = <<>>
  <2>1. Halves(Decoded(k), room, Some(k), From(Decoded(k), room + 1))
    BY <1>6, CutToRoom, Zenon
  <2> QED
    BY <1>3, <2>1, Zenon DEF Halves
<1>8. ASSUME o.ok, ~iInit, held = <<>>
      PROVE  k > 0 /\ buff[1].k \in {"start", "zhead"}
  <2>1. k # 0
    <3>1. SUFFICES ASSUME k = 0 PROVE Some(k) = <<>>
      BY <1>3, <1>8
    <3>2. NoneDecodes(SubSeq(buff, 1, k))
      BY <1>5, <3>1 DEF NoneDecodes
    <3>3. Bytes(SubSeq(buff, 1, k)) = <<>>
      BY <1>5, <3>2, NoBytes
    <3> QED
      BY <1>7, <1>8, <3>3 DEF Decoded
  <2>2. k > 0
    BY <1>4, <2>1
  <2> QED
    BY <1>4, <1>8, <2>2 DEF Good
<1>9. /\ o.end \in BOOLEAN /\ o.late \in BOOLEAN
      /\ o.end \/ o.late => k > 0 /\ Ends(k) /\ Len(Decoded(k)) <= room
  BY <1>2, <1>3
<1> HIDE DEF Some, Over, Past
<1> QED
  BY <1>3, <1>4, <1>7, <1>8, <1>9 DEF Taken

-----------------------------------------------------------------------------
(* The steps of a Read.                                                    *)

\* The rest of a sequence behind its first part, and the rest of that.
RestIs(s, r, g) == r \in Seq(Token) /\ Len(r) = Len(s) - g /\ \A i \in 1..Len(r) : r[i] = s[g + i]

\* The rest of a sequence of tokens, token by token.
LEMMA Rest ==
  ASSUME NEW s \in Seq(Token), NEW g \in 0..Len(s)
  PROVE  RestIs(s, From(s, g + 1), g)
BY DEF RestIs, From

\* The rest of the rest is a rest of the whole.
LEMMA RestOfRest ==
  ASSUME NEW s \in Seq(Token), NEW g \in 0..Len(s), NEW j \in 0..Len(s) - g
  PROVE  g + j \in 0..Len(s) /\ From(From(s, g + 1), j + 1) = From(s, (g + j) + 1)
<1>1. PICK r : r = From(s, g + 1)
  OBVIOUS
<1>2. r \in Seq(Token) /\ Len(r) = Len(s) - g /\ \A i \in 1..Len(r) : r[i] = s[g + i]
  BY <1>1, Rest DEF RestIs
<1>3. g + j \in 0..Len(s) /\ j \in 0..Len(r)
  BY <1>2
<1>4. PICK a, b : a = From(r, j + 1) /\ b = From(s, (g + j) + 1)
  OBVIOUS
<1>5. a \in Seq(Token) /\ Len(a) = Len(r) - j /\ \A i \in 1..Len(a) : a[i] = r[j + i]
  BY <1>2, <1>3, <1>4, Rest DEF RestIs
<1>6. b \in Seq(Token) /\ Len(b) = Len(s) - (g + j) /\ \A i \in 1..Len(b) : b[i] = s[(g + j) + i]
  BY <1>3, <1>4, Rest DEF RestIs
<1>7. Len(a) = Len(b)
  BY <1>2, <1>5, <1>6
<1>8. ASSUME NEW i \in 1..Len(a) PROVE a[i] = b[i]
  <2>1. j + i \in 1..Len(r) /\ g + (j + i) = (g + j) + i
    BY <1>2, <1>3, <1>5
  <2> QED
    BY <1>2, <1>5, <1>6, <1>7, <2>1
<1>9. a = b
  BY <1>5, <1>6, <1>7, <1>8, SeqEqual
<1> QED
  BY <1>1, <1>3, <1>4, <1>9

\* What remains of the response decodes to the text where the stream starts, and to nothing behind
\* its end.
LEMMA SuffixIs ==
  ASSUME session \in Sessions, NEW g \in 0..Len(Response), NEW r, r = From(Response, g + 1)
  PROVE  /\ r \in Seq(Token) /\ Len(r) = Len(Response) - g
         /\ \A j \in 0..Len(r) : g + j \in 0..Len(Response) /\ From(r, j + 1) = From(Response, (g + j) + 1)
         /\ r # <<>> /\ r[1].k \in {"start", "zhead"} => Bytes(r) = Text
         /\ \A j \in 1..Len(r) : r[j].k \in {"end", "adler"} => NoneDecodes(From(r, j + 1))
<1>1. PICK s : s = Response
  OBVIOUS
<1>2. /\ s \in Seq(Token) /\ Bytes(s) = Text
      /\ \A i, j \in 1..Len(s) : s[j].k = "z" => /\ s[i].k \in {"start", "zhead"} => i < j
                                                 /\ s[i].k \in {"end", "adler"} => j < i
  BY <1>1, ResponseIs
<1>3. r \in Seq(Token) /\ Len(r) = Len(s) - g /\ \A i \in 1..Len(r) : r[i] = s[g + i]
  BY <1>1, <1>2, Rest DEF RestIs
<1>4. g \in 0..Len(s) /\ Len(s) \in Nat
  BY <1>1, <1>2
<1>5. ASSUME NEW j \in 0..Len(r)
      PROVE  g + j \in 0..Len(Response) /\ From(r, j + 1) = From(Response, (g + j) + 1)
  BY <1>1, <1>2, <1>3, <1>4, RestOfRest
<1>6. ASSUME r # <<>>, r[1].k \in {"start", "zhead"}
      PROVE  Bytes(r) = Text
  <2>1. PICK a : a = SubSeq(s, 1, g)
    OBVIOUS
  <2>2. /\ a \in Seq(Token) /\ Len(a) = g /\ a \o r = s
    BY <1>1, <1>2, <1>4, <2>1, CutIs DEF From
  <2>3. \A i \in 1..Len(a) : a[i] = s[i]
    BY <1>2, <1>4, <2>1, <2>2
  <2>4. NoneDecodes(a)
    <3>1. 1 \in 1..Len(r) /\ g + 1 \in 1..Len(s) /\ s[g + 1].k \in {"start", "zhead"}
      BY <1>3, <1>4, <1>6
    <3>2. ASSUME NEW i \in 1..Len(a) PROVE s[i].k # "z"
      <4>1. i \in 1..Len(s) /\ ~(g + 1 < i)
        BY <1>4, <2>2
      <4> QED
        BY <1>2, <3>1, <4>1
    <3> QED
      BY <2>3, <3>2 DEF NoneDecodes
  <2>5. Bytes(a) = <<>>
    BY <2>2, <2>4, NoBytes
  <2>6. Bytes(s) = Bytes(a) \o Bytes(r) /\ Bytes(r) \in Seq(Nat)
    BY <1>3, <2>2, BytesConcat
  <2>7. <<>> \o Bytes(r) = Bytes(r)
    BY <2>6
  <2> QED
    BY <1>2, <2>5, <2>6, <2>7, Zenon
<1>7. ASSUME NEW j \in 1..Len(r), r[j].k \in {"end", "adler"}
      PROVE  NoneDecodes(From(r, j + 1))
  <2>1. PICK b : b = From(r, j + 1)
    OBVIOUS
  <2>2. j \in 0..Len(r)
    BY <1>3
  <2>3. b \in Seq(Token) /\ Len(b) = Len(r) - j /\ \A i \in 1..Len(b) : b[i] = r[j + i]
    BY <1>3, <2>1, <2>2, Rest DEF RestIs
  <2>4. g + j \in 1..Len(s) /\ s[g + j].k \in {"end", "adler"}
    BY <1>3, <1>4, <1>7
  <2>5. ASSUME NEW i \in 1..Len(b) PROVE b[i].k # "z"
    <3>1. j + i \in 1..Len(r) /\ g + (j + i) \in 1..Len(s) /\ ~(g + (j + i) < g + j)
      BY <1>3, <1>4, <2>3
    <3>2. b[i] = s[g + (j + i)]
      BY <1>3, <2>3, <3>1
    <3> QED
      BY <1>2, <2>4, <3>1, <3>2
  <2> QED
    BY <2>1, <2>5 DEF NoneDecodes
<1> QED
  BY <1>1, <1>3, <1>5, <1>6, <1>7

\* What remains when k tokens of m_buff are taken.
LEMMA TakeTokens ==
  ASSUME buff \in Seq(Token), wire \in Seq(Token), NEW k \in 0..Len(buff)
  PROVE  /\ From(buff, k + 1) \in Seq(Token) /\ SubSeq(buff, 1, k) \in Seq(Token)
         /\ From(buff, k + 1) \o wire = From(Remaining, k + 1)
         /\ Bytes(Remaining) = Bytes(SubSeq(buff, 1, k)) \o Bytes(From(buff, k + 1) \o wire)
         /\ Remaining \in Seq(Token) /\ k \in 0..Len(Remaining) /\ \A i \in 1..Len(buff) : Remaining[i] = buff[i]
<1>1. PICK a, b, w, r : a = SubSeq(buff, 1, k) /\ b = From(buff, k + 1) /\ w = b \o wire /\ r = Remaining
  OBVIOUS
<1>2. a \in Seq(Token) /\ b \in Seq(Token) /\ Len(a) = k /\ a \o b = buff
  BY <1>1, CutIs DEF From
<1>3. Assoc(a, b, wire)
  BY <1>2, Brackets, Zenon
<1>4. r = a \o w
  BY <1>1, <1>2, <1>3, Zenon DEF Assoc, Remaining
<1>5. w \in Seq(Token) /\ r \in Seq(Token)
  BY <1>1, <1>2, <1>4, TokensConcat, Zenon
<1>6. PICK T : T = Token
  OBVIOUS
<1>7. /\ Len(r) = Len(a) + Len(w)
      /\ \A i \in 1..Len(w) : r[Len(a) + i] = w[i]
  <2>1. a \in Seq(T) /\ w \in Seq(T)
    BY <1>2, <1>5, <1>6
  <2>2. Len(a \o w) = Len(a) + Len(w) /\ \A i \in 1..Len(w) : (a \o w)[Len(a) + i] = w[i]
    BY <2>1, ConcatIs
  <2> QED
    BY <1>4, <2>2
<1>8. /\ Len(r) = Len(buff) + Len(wire)
      /\ \A i \in 1..Len(buff) : r[i] = buff[i]
  <2>1. buff \in Seq(T) /\ wire \in Seq(T)
    BY <1>6
  <2>2. /\ Len(buff \o wire) = Len(buff) + Len(wire)
        /\ \A i \in 1..Len(buff) : (buff \o wire)[i] = buff[i]
    BY <2>1, ConcatIs
  <2> QED
    BY <1>1, <2>2 DEF Remaining
<1>9. k \in 0..Len(r)
  <2>1. Len(buff) \in Nat /\ Len(wire) \in Nat
    OBVIOUS
  <2> QED
    BY <1>8, <2>1
<1>10. w = From(r, k + 1)
  <2>1. PICK x : x = From(r, k + 1)
    OBVIOUS
  <2>2. x \in Seq(Token) /\ Len(x) = Len(r) - k /\ \A i \in 1..Len(x) : x[i] = r[k + i]
    BY <1>5, <1>9, <2>1, Rest DEF RestIs
  <2>3. Len(x) = Len(w)
    BY <1>2, <1>5, <1>7, <2>2
  <2>4. ASSUME NEW i \in 1..Len(x) PROVE x[i] = w[i]
    BY <1>2, <1>7, <2>2, <2>3
  <2>5. x = w
    BY <1>5, <2>2, <2>3, <2>4
  <2> QED
    BY <2>1, <2>5
<1>11. Bytes(r) = Bytes(a) \o Bytes(w)
  BY <1>2, <1>4, <1>5, BytesConcat, Zenon
<1> QED
  BY <1>1, <1>2, <1>5, <1>8, <1>9, <1>10, <1>11

\* ReadInput moves tokens from the network to m_buff.
LEMMA InputSame ==
  ASSUME ReadInput, buff \in Seq(Token), wire \in Seq(Token), room \in Nat
  PROVE  buff' \in Seq(Token) /\ wire' \in Seq(Token) /\ Remaining' = Remaining
<1>1. CASE ~open
  BY <1>1 DEF ReadInput, input, Remaining
<1>2. CASE open
  <2>1. PICK n \in 0..Least(Len(wire), IF room \div 2 > READ_INPUT THEN room \div 2 ELSE READ_INPUT) :
          buff' = buff \o SubSeq(wire, 1, n) /\ wire' = From(wire, n + 1)
    BY <1>2 DEF ReadInput
  <2>2. n \in 0..Len(wire)
    <3>1. PICK q : q = IF room \div 2 > READ_INPUT THEN room \div 2 ELSE READ_INPUT
      OBVIOUS
    <3>2. q \in Nat
      BY <3>1, CodingConstants
    <3>3. Least(Len(wire), q) <= Len(wire) /\ Least(Len(wire), q) \in Nat
      BY <3>2 DEF Least
    <3> QED
      BY <2>1, <3>1, <3>3
  <2>3. PICK a, b : a = SubSeq(wire, 1, n) /\ b = From(wire, n + 1)
    OBVIOUS
  <2>4. a \in Seq(Token) /\ b \in Seq(Token) /\ a \o b = wire
    BY <2>2, <2>3, CutIs DEF From
  <2>5. Assoc(buff, a, b)
    BY <2>4, Brackets, Zenon
  <2> QED
    BY <2>1, <2>3, <2>4, <2>5, Zenon DEF Assoc, Remaining
<1> QED
  BY <1>1, <1>2

\* The session does not change, and neither does what comes back.
LEMMA SessionSame ==
  ASSUME UNCHANGED session
  PROVE  UNCHANGED <<Text, Response, Fields>>
BY DEF Text, Response, Fields, Present, StreamOf, Trailer

\* A step that moves no bytes.
Idle ==
  /\ UNCHANGED <<session, iInit, iEof, mode, held, late, text>>
  /\ Remaining' = Remaining /\ Pending' = Pending
  /\ pc \in {"topup", "inflate"} => pc' \in {"topup", "inflate"}

\* It leaves what is still to be read as it is.
LEMMA IdleContent ==
  ASSUME ContentInv, Idle
  PROVE  ContentInv'
<1>1. Text' = Text /\ Response' = Response
  BY SessionSame DEF Idle
<1>2. \E g \in 0..Len(Response') : Remaining' = From(Response', g + 1)
  BY <1>1 DEF ContentInv, Idle
<1>3. NoneDecodes(Remaining)' = NoneDecodes(Remaining) /\ Bytes(Remaining)' = Bytes(Remaining)
  BY DEF Idle, NoneDecodes, Bytes
<1>4. ~iInit => /\ text' = <<>> /\ held' = <<>> /\ ~iEof' /\ ~late'
                /\ pc' \notin {"topup", "inflate"} => Remaining' = Response'
  BY <1>1 DEF ContentInv, Idle
<1>5. iInit /\ mode = "lost" => text' = <<>> /\ ~iEof' /\ ~late'
  BY DEF ContentInv, Idle
<1>6. iInit /\ mode # "lost" /\ (iEof \/ late) =>
        held' = <<>> /\ NoneDecodes(Remaining)' /\ text' \o Pending' = Text'
  BY <1>1, <1>3 DEF ContentInv, Idle
<1>7. iInit /\ mode # "lost" /\ ~(iEof \/ late) => (text' \o held') \o Bytes(Remaining)' = Text'
  BY <1>1, <1>3 DEF ContentInv, Idle
<1>8. UNCHANGED <<iInit, mode, iEof, late>>
  BY DEF Idle
<1> QED
  BY <1>2, <1>4, <1>5, <1>6, <1>7, <1>8 DEF ContentInv

\* What PreInit finds where the length of the extra field should be.
LEMMA ExtraLength ==
  ASSUME ReadTypes, PlaceInv, StageInv, ContentInv, pc = "extra", Len(buff) >= need
  PROVE  offset = HDR /\ buff[offset + 1].v[1] \in Nat
<1>1. session.gzip /\ ~iInit /\ offset = HDR /\ need = HDR + 1
  BY DEF StageInv, Headers, FieldPlaces
<1>2. Remaining = Response
  BY <1>1 DEF ContentInv
<1>3. Fields # <<>> /\ Fields[1] = "extra"
  <2>1. PICK i \in DOMAIN Fields : Fields[i] = "extra"
    BY DEF PlaceInv, FieldPlaces
  <2>2. Fields \in Seq(FieldPlaces)
    BY FieldsAre
  <2>3. i \in 1..Len(Fields)
    BY <2>1, <2>2
  <2>4. i = 1
    BY <2>1, <2>3, ExtraIsFirst
  <2> QED
    BY <2>1, <2>2, <2>3, <2>4
<1>4. Len(Response) >= 3 /\ Response[3] = Tok("xlen", <<EXTRA>>)
  BY <1>1, <1>3, ResponseIs DEF ReadTypes
<1>5. offset + 1 = 3 /\ 3 \in 1..Len(buff)
  BY <1>1 DEF HDR, ReadTypes
<1>6. buff[3] = Response[3]
  <2>1. 0 \in 0..Len(buff)
    BY DEF ReadTypes
  <2>2. \A i \in 1..Len(buff) : Remaining[i] = buff[i]
    BY <2>1, TakeTokens DEF ReadTypes
  <2> QED
    BY <1>2, <1>5, <2>2
<1>7. Tok("xlen", <<EXTRA>>).v[1] = 2
  BY DEF Tok, EXTRA
<1> QED
  BY <1>1, <1>4, <1>5, <1>6, <1>7

\* A field of the header.
Enters(f, at) == Enter(FieldAfter(f), at)

\* PreInit enters the next field where the last one ended.
LEMMA EnterStage ==
  ASSUME ReadTypes, PlaceInv, StageInv, UNCHANGED <<session, zstream, room, result>>,
         pc \in Headers, NEW at \in Nat, NEW f \in FieldPlaces \cup {"fixed"},
         f = "fixed" \/ \E i \in DOMAIN Fields : Fields[i] = f,
         f = "fixed" => at = HDR,
         Enters(f, at)
  PROVE  StageInv' /\ offset' \in Nat /\ pc' \in FieldPlaces \cup {"drop"}
<1>1. /\ pc' = FieldAfter(f)
      /\ offset' = IF pc' = "hcrc" THEN at + 2 ELSE at
      /\ need' = CASE pc' = "extra" -> at + 1 [] pc' = "hcrc" -> at + 2 [] OTHER -> at
  BY Zenon DEF Enters, Enter
<1>2. offset' \in Nat
  BY <1>1
<1>3. pc' \in FieldPlaces \cup {"drop"}
  BY EnterPlace DEF Enters
<1>4. pc' = "extra" => f = "fixed"
  <2> SUFFICES ASSUME pc' = "extra", f # "fixed" PROVE FALSE
    OBVIOUS
  <2>1. PICK n, c, fs : fs = Fields /\ n = Len(fs) /\ c = CHOOSE i \in DOMAIN fs : fs[i] = f
    OBVIOUS
  <2>2. fs \in Seq(FieldPlaces) /\ c \in 1..n /\ n \in Nat
    BY <2>1, FieldsAre
  <2>3. PICK later : later = From(fs, 1 + c)
    OBVIOUS
  <2>4. FieldAfter(f) = IF later = <<>> THEN "drop" ELSE later[1]
    BY <2>1, <2>3, Zenon DEF FieldAfter
  <2>5. later # <<>> /\ later[1] = "extra"
    BY <1>1, <2>4
  <2>6. 1 + c \in 1..n /\ later[1] = fs[1 + c]
    BY <2>1, <2>2, <2>3, <2>5 DEF From
  <2>7. 1 + c = 1
    BY <2>1, <2>5, <2>6, ExtraIsFirst
  <2> QED
    BY <2>2, <2>7
<1>5. pc' = "extra" => offset' = HDR /\ need' = HDR + 1
  BY <1>1, <1>4
<1>6. room' \in ReadSizes /\ result' # "end" /\ session'.gzip /\ ~iInit'
  BY DEF StageInv, Headers, zstream, FieldPlaces
<1> QED
  BY <1>2, <1>3, <1>5, <1>6 DEF StageInv, Headers, FieldPlaces

\* What the stages of a Read know, and what they must keep.
Known == ReadTypes /\ PlaceInv /\ StageInv /\ ContentInv
Kept == ReadTypes' /\ (pc' # "failed" => StageInv' /\ ContentInv')

\* A Read begins.
LEMMA ReadKeeps ==
  ASSUME Known, Reads
  PROVE  Kept
<1>1. PICK n \in ReadSizes : Read(n)
  BY DEF Reads
<1>2. /\ pc = "ready" /\ result # "end" /\ room' = n /\ pc' = "input"
      /\ UNCHANGED <<session, wire, open, buff, iInit, iEof, mode, held, late, offset, need, out, text, result>>
  BY <1>1 DEF Read, input, zstream, header
<1>3. ReadTypes'
  BY <1>2 DEF Known, ReadTypes
<1>4. StageInv'
  BY <1>2 DEF StageInv, Headers, FieldPlaces
<1>5. Idle
  BY <1>2 DEF Idle, Remaining, Pending
<1> QED
  BY <1>3, <1>4, <1>5, IdleContent DEF Known, Kept

\* Input is read, and where the response has ended that is all.
LEMMA InputKeeps ==
  ASSUME Known, Input
  PROVE  Kept
<1>1. /\ pc = "input" /\ ReadInput /\ offset' = 0
      /\ IF iEof THEN Returns(<<>>)
         ELSE /\ pc' = IF ~iInit THEN IF session.gzip THEN "fixed" ELSE "topup" ELSE "inflate"
              /\ UNCHANGED <<text, result>>
      /\ UNCHANGED <<session, iInit, iEof, mode, held, late, room, out>>
  BY DEF Input, zstream
<1>2. room \in ReadSizes /\ room \in Nat /\ result # "end"
  BY <1>1, CodingConstants DEF Known, StageInv
<1>3. buff' \in Seq(Token) /\ wire' \in Seq(Token) /\ Remaining' = Remaining
  BY <1>1, <1>2, InputSame DEF Known, ReadTypes
<1>4. text' = text
  <2>1. CASE iEof
    <3>1. text' = text \o <<>>
      BY <1>1, <2>1 DEF Returns
    <3> QED
      BY <3>1 DEF Known, ReadTypes
  <2> QED
    BY <1>1, <2>1
<1>5. ReadTypes'
  BY <1>1, <1>3, <1>4 DEF Known, ReadTypes
<1>6. CASE iEof
  <2>1. pc' = "ready"
    BY <1>1, <1>6 DEF Returns
  <2>2. Idle
    BY <1>1, <1>3, <1>4, <2>1 DEF Idle, Pending
  <2> QED
    BY <1>5, <2>1, <2>2, IdleContent DEF Known, Kept, StageInv, Headers, FieldPlaces
<1>7. CASE ~iEof
  <2>1. pc' \in {"fixed", "topup", "inflate"} /\ (pc' = "fixed" => session.gzip) /\ (pc' \in {"fixed", "topup"} => ~iInit)
        /\ result' = result
    BY <1>1, <1>7
  <2>2. Idle
    BY <1>1, <1>3, <1>4, <2>1 DEF Idle, Pending
  <2>3. StageInv'
    BY <1>1, <1>2, <1>7, <2>1 DEF StageInv, Headers, FieldPlaces
  <2> QED
    BY <1>5, <2>2, <2>3, IdleContent DEF Known, Kept
<1> QED
  BY <1>6, <1>7

\* Input could not be read: nothing moves.
LEMMA FailKeeps ==
  ASSUME Known, InputFails
  PROVE  Kept
<1>1. pc' = "failed" /\ UNCHANGED <<session, wire, buff, iInit, iEof, late, held, offset, out, text>>
  BY DEF InputFails, Fails, input, zstream, header
<1> QED
  BY <1>1 DEF Known, Kept, ReadTypes

\* PreInit goes through the header, and inflate is given something to begin with.
LEMMA PreInitKeeps ==
  ASSUME Known, PreInit
  PROVE  Kept
<1> USE DEF Known
<1>1. CASE Ensure
  <2>1. /\ pc \in Ensures /\ pc' = pc /\ ReadInput
        /\ UNCHANGED <<session, iInit, iEof, mode, held, late, offset, need, room, out, text, result>>
    BY <1>1 DEF Ensure, zstream, header
  <2>2. room \in Nat
    BY <2>1, CodingConstants DEF StageInv, Ensures
  <2>3. buff' \in Seq(Token) /\ wire' \in Seq(Token) /\ Remaining' = Remaining
    BY <2>1, <2>2, InputSame DEF ReadTypes
  <2>4. ReadTypes' /\ StageInv'
    BY <2>1, <2>3 DEF ReadTypes, StageInv
  <2>5. Idle
    BY <2>1, <2>3 DEF Idle, Pending
  <2> QED
    BY <2>4, <2>5, IdleContent DEF Kept
<1>2. CASE Fixed
  <2>1. /\ pc = "fixed"
        /\ (Enters("fixed", HDR) /\ UNCHANGED <<text, result>>) \/ (Fails /\ UNCHANGED header)
        /\ UNCHANGED <<session, wire, open, buff, iInit, iEof, mode, held, late, room, out>>
    BY <1>2 DEF Fixed, input, zstream, Enters
  <2>2. CASE Enters("fixed", HDR) /\ UNCHANGED <<text, result>>
    <3>1. StageInv' /\ offset' \in Nat /\ pc' \in FieldPlaces \cup {"drop"}
      <4>1. HDR \in Nat /\ pc \in Headers
        BY <2>1 DEF HDR, Headers
      <4> QED
        BY <2>1, <2>2, <4>1, EnterStage DEF zstream
    <3>2. ReadTypes'
      BY <2>1, <2>2, <3>1 DEF ReadTypes
    <3>3. Idle
      BY <2>1, <2>2, <3>1 DEF Idle, Remaining, Pending, FieldPlaces
    <3> QED
      BY <3>1, <3>2, <3>3, IdleContent DEF Kept
  <2>3. CASE Fails /\ UNCHANGED header
    BY <2>1, <2>3 DEF Kept, ReadTypes, Fails, header
  <2> QED
    BY <2>1, <2>2, <2>3
<1>3. CASE Extra
  <2>1. /\ pc \in {"extra", "xdata"} /\ Len(buff) >= need
        /\ UNCHANGED <<session, wire, open, buff, iInit, iEof, mode, held, late, room, out, text, result>>
    BY <1>3 DEF Extra, input, zstream
  <2>2. Remaining' = Remaining
    BY <2>1 DEF Remaining
  <2>3. CASE pc = "extra"
    <3>1. offset' = offset + 1 + buff[offset + 1].v[1] /\ pc' = "xdata"
      BY <1>3, <2>3 DEF Extra
    <3>2. offset' \in Nat
      BY <2>1, <2>3, <3>1, ExtraLength DEF HDR
    <3>3. ReadTypes'
      BY <2>1, <3>2 DEF ReadTypes
    <3>4. StageInv'
      BY <2>1, <2>3, <3>1 DEF StageInv, Headers, FieldPlaces
    <3>5. Idle
      BY <2>1, <2>2, <3>1 DEF Idle, Pending
    <3> QED
      BY <3>3, <3>4, <3>5, IdleContent DEF Kept
  <2>4. CASE pc = "xdata"
    <3>1. Enters("extra", offset)
      BY <1>3, <2>4 DEF Extra, Enters
    <3>2. "extra" \in FieldPlaces \cup {"fixed"} /\ pc \in Headers /\ \E i \in DOMAIN Fields : Fields[i] = "extra"
      BY <2>4 DEF Headers, FieldPlaces, PlaceInv
    <3>3. StageInv' /\ offset' \in Nat /\ pc' \in FieldPlaces \cup {"drop"}
      BY <2>1, <3>1, <3>2, EnterStage DEF zstream, ReadTypes
    <3>4. ReadTypes'
      BY <2>1, <3>3 DEF ReadTypes
    <3>5. Idle
      BY <2>1, <2>2, <2>4, <3>3 DEF Idle, Pending, FieldPlaces
    <3> QED
      BY <3>3, <3>4, <3>5, IdleContent DEF Kept
  <2> QED
    BY <2>1, <2>3, <2>4
<1>4. CASE CString
  <2>1. /\ pc \in {"name", "comment"}
        /\ UNCHANGED <<session, wire, open, buff, iInit, iEof, mode, held, late, room, out, text, result>>
        /\ Enters(pc, offset + 1) \/ (offset' = offset + 1 /\ UNCHANGED pc)
    BY <1>4 DEF CString, input, zstream, Enters
  <2>2. Remaining' = Remaining /\ offset + 1 \in Nat
    BY <2>1 DEF Remaining, ReadTypes
  <2>3. pc \in FieldPlaces \cup {"fixed"} /\ pc # "fixed" /\ pc \in Headers /\ \E i \in DOMAIN Fields : Fields[i] = pc
    BY <2>1 DEF Headers, FieldPlaces, PlaceInv
  <2>4. StageInv' /\ offset' \in Nat /\ pc' \in FieldPlaces \cup {"drop"}
    <3>1. CASE Enters(pc, offset + 1)
      BY <2>1, <2>2, <2>3, <3>1, EnterStage DEF zstream
    <3>2. CASE offset' = offset + 1 /\ UNCHANGED pc
      BY <2>1, <2>2, <2>3, <3>2 DEF StageInv
    <3> QED
      BY <2>1, <3>1, <3>2
  <2>5. ReadTypes'
    BY <2>1, <2>4 DEF ReadTypes
  <2>6. Idle
    BY <2>1, <2>2, <2>4 DEF Idle, Pending, FieldPlaces
  <2> QED
    BY <2>4, <2>5, <2>6, IdleContent DEF Kept
<1>5. CASE HeaderCrc
  <2>1. /\ pc = "hcrc" /\ pc' = "drop"
        /\ UNCHANGED <<session, wire, open, buff, iInit, iEof, mode, held, late, offset, need, room, out, text, result>>
    BY <1>5 DEF HeaderCrc, response, input, zstream, header
  <2>2. ReadTypes' /\ StageInv'
    BY <2>1 DEF ReadTypes, StageInv, Headers, FieldPlaces
  <2>3. Idle
    BY <2>1 DEF Idle, Pending, Remaining
  <2> QED
    BY <2>2, <2>3, IdleContent DEF Kept
<1>6. CASE Drop
  <2>1. /\ pc = "drop" /\ buff' = From(buff, offset + 1)
        /\ IF offset <= Len(buff) THEN pc' = "topup" /\ UNCHANGED <<text, result>> ELSE pc' = "failed" /\ UNCHANGED text
        /\ UNCHANGED <<session, wire, iInit, iEof, mode, held, late, offset, need, room, out>>
    BY <1>6 DEF Drop, Fails, zstream, header
  <2>2. buff' \in Seq(Token) /\ text' = text
    BY <2>1 DEF From, ReadTypes
  <2>3. ReadTypes'
    BY <2>1, <2>2 DEF ReadTypes
  <2>4. ASSUME pc' # "failed" PROVE StageInv' /\ ContentInv'
    <3>1. offset \in 0..Len(buff) /\ pc' = "topup" /\ result' = result
      BY <2>1, <2>4 DEF ReadTypes
    <3>2. Remaining' = From(Remaining, offset + 1) /\ offset \in 0..Len(Remaining)
      <4>1. buff' \o wire = From(Remaining, offset + 1) /\ offset \in 0..Len(Remaining)
        BY <2>1, <3>1, TakeTokens DEF ReadTypes
      <4> QED
        BY <2>1, <4>1 DEF Remaining
    <3>3. Text' = Text /\ Response' = Response
      BY <2>1, SessionSame
    <3>4. PICK g \in 0..Len(Response) : Remaining = From(Response, g + 1)
      BY DEF ContentInv
    <3>5. g + offset \in 0..Len(Response) /\ Remaining' = From(Response, (g + offset) + 1)
      BY <3>2, <3>4, SuffixIs DEF ReadTypes
    <3>6. \E x \in 0..Len(Response') : Remaining' = From(Response', x + 1)
      BY <3>3, <3>5
    <3>7. ~iInit' /\ text' = <<>> /\ held' = <<>> /\ ~iEof' /\ ~late'
      BY <2>1, <2>2 DEF ContentInv, StageInv, Headers
    <3> QED
      BY <2>1, <3>1, <3>6, <3>7 DEF ContentInv, StageInv, Headers, FieldPlaces
  <2> QED
    BY <2>3, <2>4 DEF Kept
<1>7. CASE TopUp
  <2>1. /\ pc = "topup" /\ pc' = "inflate" /\ (ReadInput \/ UNCHANGED input)
        /\ UNCHANGED <<session, iInit, iEof, mode, held, late, offset, need, room, out, text, result>>
    BY <1>7 DEF TopUp, zstream, header
  <2>2. room \in Nat
    BY <2>1, CodingConstants DEF StageInv
  <2>3. buff' \in Seq(Token) /\ wire' \in Seq(Token) /\ Remaining' = Remaining
    <3>1. CASE ReadInput
      BY <2>2, <3>1, InputSame DEF ReadTypes
    <3>2. CASE UNCHANGED input
      BY <3>2 DEF input, ReadTypes, Remaining
    <3> QED
      BY <2>1, <3>1, <3>2
  <2>4. ReadTypes'
    BY <2>1, <2>3 DEF ReadTypes
  <2>5. StageInv'
    BY <2>1 DEF StageInv, ContentInv, Headers, FieldPlaces
  <2>6. Idle
    BY <2>1, <2>3 DEF Idle, Pending
  <2> QED
    BY <2>4, <2>5, <2>6, IdleContent DEF Kept
<1> QED
  BY <1>1, <1>2, <1>3, <1>4, <1>5, <1>6, <1>7 DEF PreInit

\* What the attempts of a call come to.
Outcomes(o) ==
  \/ iInit /\ late /\ o = ReportsEnd
  \/ iInit /\ o = Error
  \/ ~iInit /\ Len(buff) = 1 /\ o = TakesHeader
  \/ \E m : \E k \in 0..Len(buff) :
       /\ Taken(m, o, k)
       /\ IF iInit THEN ~late /\ mode # "lost" /\ m = mode ELSE m \in {"raw", "zlib"}

\* Every outcome of a call of inflate is one of these.
LEMMA AttemptsAre ==
  ASSUME Known, pc = "inflate", NEW o \in Attempts
  PROVE  Outcomes(o)
<1>1. room \in Nat
  BY CodingConstants DEF Known, StageInv
<1>2. ASSUME NEW m, o \in Inflates(m)
      PROVE  \E k \in 0..Len(buff) : Taken(m, o, k)
  BY <1>1, <1>2, InflatesIs DEF Known, ReadTypes
<1>3. iInit /\ late => mode # "lost"
  BY DEF Known, ContentInv
<1>4. CASE iInit /\ late
  BY <1>3, <1>4 DEF Attempts, Outcomes
<1>5. CASE iInit /\ ~late /\ mode = "lost"
  BY <1>5 DEF Attempts, Outcomes
<1>6. CASE iInit /\ ~late /\ mode # "lost"
  <2>1. o \in Inflates(mode)
    BY <1>6 DEF Attempts
  <2> QED
    BY <1>2, <1>6, <2>1 DEF Outcomes
<1>7. CASE ~iInit
  <2>1. CASE Len(buff) = 1 /\ buff[1].k = "zhead"
    BY <1>7, <2>1 DEF Attempts, Outcomes
  <2>2. CASE ~(Len(buff) = 1 /\ buff[1].k = "zhead")
    <3>1. o \in Inflates("raw") \/ o \in Inflates("zlib")
      BY <1>7, <2>2, Zenon DEF Attempts
    <3>2. \E m \in {"raw", "zlib"} : \E k \in 0..Len(buff) : Taken(m, o, k)
      BY <1>2, <3>1
    <3> QED
      BY <1>7, <3>2 DEF Outcomes
  <2> QED
    BY <2>1, <2>2
<1> QED
  BY <1>4, <1>5, <1>6, <1>7

\* What a call of inflate does with its outcome.
Goes(o) ==
  \/ pc' = "failed" /\ ~o.ok /\ text' = text /\ result' = "error"
  \/ pc' = "trailer" /\ o.ok /\ o.end /\ UNCHANGED <<text, result>>
  \/ pc' = "input" /\ o.ok /\ ~o.end /\ o.out = <<>> /\ UNCHANGED <<text, result>>
  \/ pc' = "ready" /\ o.ok /\ text' = text \o o.out
     /\ result' = (IF o.out = <<>> THEN "end" ELSE "more") /\ (o.out = <<>> => o.end)
After(o) ==
  /\ pc = "inflate" /\ Goes(o)
  /\ iInit' = o.ok /\ mode' = o.mode /\ held' = o.held /\ late' = o.late /\ iEof' = o.end
  /\ buff' = From(buff, o.used + 1) /\ out' = o.out /\ need' = 2
  /\ UNCHANGED <<session, wire, offset, room>>

\* The action Inflate is a call with one of the outcomes.
LEMMA InflateAfter ==
  ASSUME Inflate
  PROVE  \E o \in Attempts : After(o)
<1>1. PICK o \in Attempts :
        /\ iInit' = o.ok /\ mode' = o.mode
        /\ held' = o.held /\ late' = o.late
        /\ buff' = From(buff, o.used + 1)
        /\ iEof' = o.end
        /\ out' = o.out
        /\ CASE ~o.ok                         -> Fails
             [] o.ok /\ o.end /\ session.gzip -> pc' = "trailer" /\ UNCHANGED <<text, result>>
             [] o.ok /\ GoesRound(o)          -> pc' = "input" /\ UNCHANGED <<text, result>>
             [] OTHER                         -> Returns(o.out)
  BY Zenon DEF Inflate
<1>2. Goes(o)
  <2>1. CASE ~o.ok
    BY <1>1, <2>1 DEF Fails, Goes
  <2>2. CASE o.ok /\ o.end /\ session.gzip
    BY <1>1, <2>2 DEF Goes, GoesRound
  <2>3. CASE o.ok /\ GoesRound(o)
    BY <1>1, <2>3 DEF Goes, GoesRound
  <2>4. CASE o.ok /\ ~(o.end /\ session.gzip) /\ ~GoesRound(o)
    BY <1>1, <2>4 DEF Goes, Returns, GoesRound
  <2> QED
    BY <2>1, <2>2, <2>3, <2>4
<1>3. pc = "inflate" /\ need' = 2 /\ UNCHANGED <<session, wire, offset, room>>
  BY DEF Inflate
<1> QED
  BY <1>1, <1>2, <1>3 DEF After

\* The types afterwards.
LEMMA AfterTypes ==
  ASSUME ReadTypes, NEW o, After(o), o.out \in Seq(Nat), o.held \in Seq(Nat),
         o.ok \in BOOLEAN, o.end \in BOOLEAN, o.late \in BOOLEAN, buff' \in Seq(Token)
  PROVE  ReadTypes'
<1>1. text' \in Seq(Nat)
  <2>1. text' = text \/ text' = text \o o.out
    BY DEF After, Goes
  <2>2. text \in Seq(Nat) /\ text \o o.out \in Seq(Nat)
    BY DEF ReadTypes
  <2> QED
    BY <2>1, <2>2
<1>2. /\ held' \in Seq(Nat) /\ out' \in Seq(Nat)
      /\ iInit' \in BOOLEAN /\ iEof' \in BOOLEAN /\ late' \in BOOLEAN
  BY DEF After
<1>3. session' \in Sessions /\ wire' \in Seq(Token) /\ offset' \in Nat
  BY DEF After, ReadTypes
<1> QED
  BY <1>1, <1>2, <1>3 DEF ReadTypes

\* A call that says what it saw before, or takes a header for a stream.
LEMMA OtherCalls ==
  ASSUME Known, NEW o, After(o),
         (iInit /\ late /\ o = ReportsEnd) \/ (iInit /\ o = Error) \/ (~iInit /\ Len(buff) = 1 /\ o = TakesHeader)
  PROVE  Kept
<1> USE DEF Known
<1>0. room \in Nat
  BY CodingConstants DEF StageInv, After
<1>1. CASE iInit /\ late /\ o = ReportsEnd
  <2>1. /\ o.mode = "raw" /\ o.used = 0 /\ o.out = <<>> /\ o.held = <<>> /\ o.end = TRUE /\ o.late = FALSE /\ o.ok = TRUE
    BY <1>1 DEF ReportsEnd
  <2>2. SubSeq(buff, 1, Len(buff)) = buff /\ text \o <<>> = text
    BY DEF ReadTypes
  <2>3. buff' = buff /\ text' = text
    BY <2>1, <2>2 DEF After, From, Goes
  <2>4. ReadTypes'
    <3>1. <<>> \in Seq(Nat) /\ buff' \in Seq(Token)
      BY <2>3 DEF ReadTypes
    <3> QED
      BY <2>1, <3>1, AfterTypes
  <2>5. held = <<>> /\ NoneDecodes(Remaining) /\ text = Text
    BY <1>1, <2>2 DEF ContentInv, After, Pending
  <2>6. pc' \in {"trailer", "ready"} /\ (pc' = "trailer" => result' = result)
    BY <2>1 DEF After, Goes
  <2>7. StageInv'
    BY <1>0, <2>1, <2>6 DEF StageInv, After, Headers, FieldPlaces
  <2>8. Text' = Text /\ Response' = Response /\ Remaining' = Remaining
    BY <2>3, SessionSame DEF After, Remaining
  <2>9. Pending' = <<>> /\ text' \o <<>> = Text
    BY <2>1, <2>2, <2>3, <2>5, <2>6 DEF Pending, After
  <2>10. ContentInv'
    <3>1. held' = <<>> /\ NoneDecodes(Remaining)' /\ text' \o Pending' = Text'
      BY <2>1, <2>5, <2>8, <2>9 DEF After, NoneDecodes
    <3>2. \E g \in 0..Len(Response') : Remaining' = From(Response', g + 1)
      BY <2>8 DEF ContentInv
    <3>3. iInit' /\ mode' # "lost" /\ iEof'
      BY <2>1 DEF After
    <3> QED
      BY <3>1, <3>2, <3>3 DEF ContentInv
  <2> QED
    BY <2>4, <2>7, <2>10 DEF Kept
<1>2. CASE iInit /\ o = Error
  <2>1. /\ o.mode = "raw" /\ o.used = 0 /\ o.out = <<>> /\ o.held = <<>> /\ o.end = TRUE /\ o.late = FALSE /\ o.ok = FALSE
    BY <1>2 DEF ReportsEnd, Error
  <2>2. pc' = "failed"
    BY <2>1 DEF After, Goes
  <2>3. <<>> \in Seq(Nat) /\ SubSeq(buff, 1, Len(buff)) = buff
    BY DEF ReadTypes
  <2>4. buff' \in Seq(Token)
    BY <2>1, <2>3 DEF After, From, ReadTypes
  <2> QED
    BY <2>1, <2>2, <2>3, <2>4, AfterTypes DEF Kept
<1>3. CASE ~iInit /\ Len(buff) = 1 /\ o = TakesHeader
  <2>1. /\ o.mode = "lost" /\ o.used = 1 /\ o.out = <<>> /\ o.held = <<>> /\ o.end = FALSE /\ o.late = FALSE
        /\ o.ok = TRUE
    BY <1>3 DEF ReportsEnd, TakesHeader
  <2>2. text = <<>> /\ text \o <<>> = text
    BY <1>3 DEF ContentInv, ReadTypes, After
  <2>3. text' = <<>> /\ pc' \in {"input", "ready"} /\ (pc' = "input" => result' = result)
    BY <2>1, <2>2 DEF After, Goes
  <2>4. 1 \in 0..Len(buff) /\ buff' = From(buff, 1 + 1)
    BY <1>3, <2>1 DEF After
  <2>5. buff' \in Seq(Token) /\ buff' \o wire = From(Remaining, 1 + 1) /\ 1 \in 0..Len(Remaining)
    BY <2>4, TakeTokens DEF ReadTypes
  <2>6. ReadTypes'
    <3>1. <<>> \in Seq(Nat)
      OBVIOUS
    <3> QED
      BY <2>1, <2>5, <3>1, AfterTypes
  <2>7. StageInv'
    BY <2>3 DEF StageInv, After, Headers, FieldPlaces
  <2>8. Text' = Text /\ Response' = Response /\ Remaining' = From(Remaining, 1 + 1)
    BY <2>5, SessionSame DEF After, Remaining
  <2>9. PICK g \in 0..Len(Response) : Remaining = From(Response, g + 1)
    BY DEF ContentInv
  <2>10. g + 1 \in 0..Len(Response) /\ Remaining' = From(Response, (g + 1) + 1)
    BY <2>5, <2>8, <2>9, SuffixIs DEF ReadTypes
  <2>11. \E x \in 0..Len(Response') : Remaining' = From(Response', x + 1)
    BY <2>8, <2>10
  <2>12. iInit' /\ mode' = "lost" /\ text' = <<>> /\ ~iEof' /\ ~late'
    BY <2>1, <2>3 DEF After
  <2>13. ContentInv'
    BY <2>11, <2>12 DEF ContentInv
  <2> QED
    BY <2>6, <2>7, <2>13 DEF Kept
<1> QED
  BY <1>1, <1>2, <1>3

\* What is given, kept and left is put together again.
Whole(t, a, b) == t \o a \in Seq(Nat) /\ a \o b \in Seq(Nat) /\ (t \o a) \o b = t \o (a \o b)

\* Bytes given, kept and left are bracketed either way.
LEMMA TextConcat ==
  ASSUME NEW t \in Seq(Nat), NEW a \in Seq(Nat), NEW b \in Seq(Nat)
  PROVE  Whole(t, a, b)
<1>1. t \o a \in Seq(Nat) /\ a \o b \in Seq(Nat)
  BY ConcatIs, Zenon
<1>2. Associates(t, a, b)
  BY ConcatAssociates, Zenon
<1> QED
  BY <1>1, <1>2, Zenon DEF Whole, Associates

\* A call that decodes tokens from where the stream starts, or goes on.
LEMMA DecodeKeeps ==
  ASSUME Known, NEW o, After(o), NEW m, NEW k \in 0..Len(buff), Taken(m, o, k),
         IF iInit THEN ~late /\ mode # "lost" /\ m = mode ELSE m \in {"raw", "zlib"}
  PROVE  Kept
<1> USE DEF Known
<1>1. /\ o.mode = m /\ o.used = k
      /\ o.out \in Seq(Nat) /\ o.held \in Seq(Nat) /\ o.out \o o.held = Decoded(k) /\ Len(o.out) <= room
      /\ o.end \in BOOLEAN /\ o.late \in BOOLEAN /\ o.ok \in BOOLEAN
      /\ o.end \/ o.late => k > 0 /\ Ends(k) /\ o.held = <<>>
      /\ o.ok /\ ~iInit /\ held = <<>> => k > 0 /\ buff[1].k \in {"start", "zhead"}
  BY DEF Taken
<1>2. PICK a, rest, all : a = SubSeq(buff, 1, k) /\ rest = From(buff, k + 1) \o wire /\ all = Remaining
  OBVIOUS
<1>3. /\ From(buff, k + 1) \in Seq(Token) /\ a \in Seq(Token) /\ rest = From(all, k + 1)
      /\ Bytes(all) = Bytes(a) \o Bytes(rest) /\ all \in Seq(Token) /\ k \in 0..Len(all)
      /\ \A i \in 1..Len(buff) : all[i] = buff[i]
  BY <1>2, TakeTokens DEF ReadTypes
<1>4. rest \in Seq(Token)
  BY <1>2, <1>3, TokensConcat, ZenonT(60) DEF ReadTypes
<1>5. Bytes(a) \in Seq(Nat) /\ Bytes(rest) \in Seq(Nat)
  BY <1>3, <1>4, BytesConcat
<1>7. ReadTypes'
  BY <1>1, <1>3, AfterTypes DEF After
<1>8. ASSUME pc' # "failed" PROVE StageInv' /\ ContentInv'
  <2>1. o.ok /\ pc' \in {"trailer", "input", "ready"}
    BY <1>8 DEF After, Goes
  <2>2. StageInv'
    BY <1>1, <2>1 DEF StageInv, After, Goes, Headers, FieldPlaces
  <2>3. Text' = Text /\ Response' = Response /\ Remaining' = rest
    BY <1>1, <1>2, SessionSame DEF After, Remaining
  <2>4. PICK g \in 0..Len(Response) : all = From(Response, g + 1)
    BY <1>2 DEF ContentInv
  <2>5. /\ g + k \in 0..Len(Response) /\ rest = From(Response, (g + k) + 1)
        /\ all # <<>> /\ all[1].k \in {"start", "zhead"} => Bytes(all) = Text
        /\ k \in 1..Len(all) /\ all[k].k \in {"end", "adler"} => NoneDecodes(rest)
    BY <1>3, <2>4, SuffixIs DEF ReadTypes
  <2>6. (text \o held) \o Bytes(all) = Text
    <3>1. CASE iInit
      <4>1. ~late /\ mode # "lost" /\ ~iEof
        BY <3>1 DEF StageInv, After
      <4> QED
        BY <1>2, <3>1, <4>1 DEF ContentInv
    <3>2. CASE ~iInit
      <4>1. text = <<>> /\ held = <<>>
        BY <3>2 DEF ContentInv
      <4>2. k > 0 /\ buff[1].k \in {"start", "zhead"}
        BY <1>1, <2>1, <3>2, <4>1
      <4>3. 1 \in 1..Len(buff) /\ all # <<>>
        BY <1>3, <4>2
      <4>4. Bytes(all) = Text /\ Bytes(all) \in Seq(Nat)
        BY <1>3, <2>5, <4>2, <4>3, BytesConcat
      <4>5. <<>> \o <<>> = <<>> /\ <<>> \o Bytes(all) = Bytes(all)
        BY <4>4
      <4> QED
        BY <4>1, <4>4, <4>5, Zenon
    <3> QED
      BY <3>1, <3>2
  <2>7. ((text \o o.out) \o o.held) \o Bytes(rest) = Text
    <3>1. PICK t, h, x, y, u, v \in Seq(Nat) : /\ t = text /\ h = held /\ x = Bytes(a) /\ y = Bytes(rest)
                                               /\ u = o.out /\ v = o.held
      BY <1>1, <1>5 DEF ReadTypes
    <3>2. (t \o h) \o (x \o y) = Text /\ u \o v = h \o x
      BY <1>1, <1>2, <1>3, <2>6, <3>1, Zenon DEF Decoded
    <3>3. Whole(t, h, x) /\ Whole(t, u, v)
      BY TextConcat, Zenon
    <3>4. PICK th : th = t \o h /\ th \in Seq(Nat)
      BY <3>3, Zenon DEF Whole
    <3>5. Whole(th, x, y)
      BY <3>4, TextConcat, Zenon
    <3>6. ((t \o u) \o v) \o y = Text
      BY <3>2, <3>3, <3>4, <3>5, Zenon DEF Whole
    <3> QED
      BY <3>1, <3>6, Zenon
  <2>8. text' \o Pending' = text \o o.out /\ (~o.end => text' = text \o o.out)
    <3>1. text \o <<>> = text /\ (text \o o.out) \o <<>> = text \o o.out
      BY <1>1 DEF ReadTypes
    <3>2. CASE pc' = "trailer"
      <4>1. text' = text /\ out' = o.out /\ o.end
        BY <3>2 DEF After, Goes
      <4> QED
        BY <3>2, <4>1 DEF Pending
    <3>3. CASE pc' = "input"
      <4>1. text' = text /\ o.out = <<>>
        BY <3>3 DEF After, Goes
      <4> QED
        BY <3>1, <3>3, <4>1 DEF Pending
    <3>4. CASE pc' = "ready"
      <4>1. text' = text \o o.out
        BY <3>4 DEF After, Goes
      <4> QED
        BY <3>1, <3>4, <4>1 DEF Pending
    <3> QED
      BY <2>1, <3>2, <3>3, <3>4
  <2>9. CASE o.end \/ o.late
    <3>1. k \in 1..Len(all) /\ all[k].k \in {"end", "adler"} /\ o.held = <<>>
      BY <1>1, <1>3, <2>9 DEF Ends
    <3>2. NoneDecodes(rest)
      BY <2>5, <3>1
    <3>3. Bytes(rest) = <<>>
      BY <1>4, <3>2, NoBytes
    <3>4. text \o o.out \in Seq(Nat)
      BY <1>1 DEF ReadTypes
    <3>5. ((text \o o.out) \o <<>>) \o <<>> = text \o o.out
      BY <3>4
    <3>6. text \o o.out = Text
      BY <2>7, <3>1, <3>3, <3>5, Zenon
    <3>7. held' = <<>> /\ text' \o Pending' = Text' /\ NoneDecodes(Remaining)'
      BY <2>3, <2>8, <3>1, <3>2, <3>6 DEF After, NoneDecodes
    <3>8. iInit' /\ mode' # "lost" /\ (iEof' \/ late')
      BY <1>1, <2>1, <2>9 DEF After
    <3>9. \E x \in 0..Len(Response') : Remaining' = From(Response', x + 1)
      BY <2>3, <2>5
    <3> QED
      BY <2>2, <3>7, <3>8, <3>9 DEF ContentInv
  <2>10. CASE ~(o.end \/ o.late)
    <3>1. text' = text \o o.out /\ held' = o.held
      BY <2>8, <2>10 DEF After
    <3>2. (text' \o held') \o Bytes(Remaining)' = Text'
      BY <2>3, <2>7, <3>1 DEF Bytes
    <3>3. iInit' /\ mode' # "lost" /\ ~(iEof' \/ late')
      BY <1>1, <2>1, <2>10 DEF After
    <3>4. \E x \in 0..Len(Response') : Remaining' = From(Response', x + 1)
      BY <2>3, <2>5
    <3> QED
      BY <2>2, <3>2, <3>3, <3>4 DEF ContentInv
  <2> QED
    BY <2>9, <2>10
<1> QED
  BY <1>7, <1>8 DEF Kept

\* A turn of inflate.
LEMMA InflateKeeps ==
  ASSUME Known, Inflate
  PROVE  Kept
<1>1. PICK o \in Attempts : After(o)
  BY InflateAfter
<1>2. Outcomes(o)
  BY <1>1, AttemptsAre DEF After
<1>3. CASE \E m : \E k \in 0..Len(buff) :
             /\ Taken(m, o, k)
             /\ IF iInit THEN ~late /\ mode # "lost" /\ m = mode ELSE m \in {"raw", "zlib"}
  BY <1>1, <1>3, DecodeKeeps
<1> QED
  BY <1>1, <1>2, <1>3, OtherCalls DEF Outcomes

\* The trailer is compared with what was decoded.
LEMMA TrailerKeeps ==
  ASSUME Known, EndOfInflation
  PROVE  Kept
<1> USE DEF Known
<1>1. /\ pc = "trailer" /\ Len(buff) >= need /\ buff' = From(buff, 3)
      /\ (pc' = "ready" /\ text' = text \o out) \/ (pc' = "failed" /\ text' = text)
      /\ UNCHANGED <<session, wire, iInit, iEof, mode, held, late, offset, need, room, out>>
  BY DEF EndOfInflation, Returns, Fails, zstream, header
<1>2. 2 \in 0..Len(buff) /\ 2 + 1 = 3
  BY <1>1 DEF StageInv, ReadTypes
<1>3. buff' \in Seq(Token) /\ buff' \o wire = From(Remaining, 2 + 1) /\ 2 \in 0..Len(Remaining) /\ Remaining \in Seq(Token)
  BY <1>1, <1>2, TakeTokens DEF ReadTypes
<1>4. ReadTypes'
  <2>1. text \in Seq(Nat) /\ text \o out \in Seq(Nat)
    BY DEF ReadTypes
  <2>2. text' \in Seq(Nat)
    BY <1>1, <2>1
  <2> QED
    BY <1>1, <1>3, <2>2 DEF ReadTypes
<1>5. ASSUME pc' # "failed" PROVE StageInv' /\ ContentInv'
  <2>1. pc' = "ready" /\ text' = text \o out /\ text \o out \in Seq(Nat)
    BY <1>1, <1>5 DEF ReadTypes
  <2>2. iInit /\ mode # "lost" /\ held = <<>> /\ NoneDecodes(Remaining) /\ text \o out = Text
    BY <1>1 DEF ContentInv, StageInv, Pending
  <2>3. Text' = Text /\ Response' = Response /\ Remaining' = From(Remaining, 2 + 1)
    BY <1>1, <1>3, SessionSame DEF Remaining
  <2>4. PICK g \in 0..Len(Response) : Remaining = From(Response, g + 1)
    BY DEF ContentInv
  <2>5. g + 2 \in 0..Len(Response) /\ Remaining' = From(Response, (g + 2) + 1)
    BY <1>3, <2>3, <2>4, SuffixIs DEF ReadTypes
  <2>6. \E x \in 0..Len(Response') : Remaining' = From(Response', x + 1)
    BY <2>3, <2>5
  <2>7. NoneDecodes(From(Remaining, 2 + 1))
    <3>1. PICK r, w : r = Remaining /\ w = From(r, 2 + 1)
      OBVIOUS
    <3>2. r \in Seq(Token) /\ Len(r) \in Nat /\ \A i \in 1..Len(r) : r[i].k # "z"
      BY <1>3, <2>2, <3>1 DEF NoneDecodes
    <3>3. w \in Seq(Token) /\ Len(w) = Len(r) - 2 /\ \A i \in 1..Len(w) : w[i] = r[2 + i]
      BY <1>3, <3>1, Rest DEF RestIs
    <3>4. \A i \in 1..Len(w) : 2 + i \in 1..Len(r)
      BY <3>2, <3>3
    <3> QED
      BY <3>1, <3>2, <3>3, <3>4 DEF NoneDecodes
  <2>8. text' \o Pending' = Text'
    BY <2>1, <2>2, <2>3 DEF Pending
  <2>9. iInit' /\ mode' # "lost" /\ iEof' /\ held' = <<>> /\ NoneDecodes(Remaining)'
    BY <1>1, <2>2, <2>3, <2>7 DEF StageInv, NoneDecodes
  <2>10. ContentInv'
    BY <2>6, <2>8, <2>9 DEF ContentInv
  <2>11. StageInv'
    BY <2>1 DEF StageInv, Headers, FieldPlaces
  <2> QED
    BY <2>10, <2>11
<1> QED
  BY <1>4, <1>5 DEF Kept

\* Every step of a Read keeps what is known.
LEMMA ReadingKeeps ==
  ASSUME ReadInv, Reads \/ Inflating
  PROVE  ReadInv' /\ Known /\ Kept /\ pc \in Reading \ {"failed"}
<1>1. UNCHANGED <<session, request>> /\ pc \in Reading /\ pc' \in Reading /\ PlaceInv'
  BY ReadsPlace DEF ReadInv
<1>2. pc # "failed"
  <2>1. CASE Reads
    BY <2>1 DEF Reads, Read
  <2>2. CASE Input \/ InputFails \/ Inflate \/ EndOfInflation
    BY <2>2 DEF Input, InputFails, Ensures, Inflate, EndOfInflation
  <2>3. CASE PreInit
    BY <2>3 DEF PreInit, Ensure, Ensures, Fixed, Extra, CString, HeaderCrc, Drop, TopUp
  <2> QED
    BY <2>1, <2>2, <2>3 DEF Inflating
<1>3. Known
  BY <1>1, <1>2 DEF ReadInv, Known
<1>4. Kept
  BY <1>3, ReadKeeps, InputKeeps, FailKeeps, PreInitKeeps, InflateKeeps, TrailerKeeps DEF Inflating
<1> QED
  BY <1>1, <1>2, <1>3, <1>4 DEF ReadInv, Kept

\* Until the server answers, there is nothing to read.
LEMMA SendingKeeps ==
  ASSUME RequestInv, ReadInv, Sends \/ Server \/ UNCHANGED vars
  PROVE  ReadInv' /\ UNCHANGED <<session, text, result>>
<1>1. CASE Sends
  <2>1. UNCHANGED <<session, response>>
    BY <1>1 DEF Sends, Ask, Source, Deflate, Return
  <2>2. UNCHANGED <<wire, open, buff, iInit, iEof, mode, held, late, iCrc, offset, need, room, out, text, result>>
    BY <2>1 DEF response, input, zstream, header
  <2>3. pc \in Sending /\ pc' \in Sending \cup {"server"}
    <3>1. CASE Return
      BY <3>1, SMTT(30) DEF Return, Sending
    <3>2. CASE Deflate
      BY <3>2, DeflateTurn DEF RequestInv, Turn, Sending, Deflate
    <3>3. CASE Ask \/ Source
      <4>1. pc \in {"ask", "source"} /\ pc' \in {"source", "return", "deflate"}
        BY <3>3 DEF Ask, Source
      <4> QED
        BY <4>1 DEF Sending
    <3> QED
      BY <1>1, <3>1, <3>2, <3>3 DEF Sends
  <2>4. pc \notin Reading /\ pc' \notin Reading
    BY <2>3 DEF Reading, FieldPlaces, Sending
  <2>5. ReadTypes' /\ Dormant'
    BY <2>1, <2>2, <2>4 DEF ReadInv, ReadTypes, Dormant
  <2>6. PlaceInv'
    BY <2>4 DEF PlaceInv, Reading
  <2> QED
    BY <2>1, <2>2, <2>4, <2>5, <2>6, SMTT(30) DEF ReadInv
<1>2. CASE Server
  <2>1. /\ pc = "server" /\ ((pc' = "ready" /\ wire' = Response) \/ (pc' = "refused" /\ wire' = wire))
        /\ UNCHANGED <<session, open, buff, iInit, iEof, mode, held, late, offset, need, room, out, text, result>>
    BY <1>2 DEF Server, zstream, header
  <2>2. Dormant /\ ReadTypes
    BY <2>1 DEF ReadInv, Reading, FieldPlaces
  <2>3. Response \in Seq(Token)
    BY <2>2, ResponseIs DEF ReadTypes
  <2>4. ReadTypes'
    BY <2>1, <2>2, <2>3 DEF ReadTypes
  <2>5. PlaceInv'
    BY <2>1 DEF PlaceInv, FieldPlaces
  <2>6. CASE pc' = "refused"
    BY <2>1, <2>2, <2>4, <2>5, <2>6 DEF ReadInv, Dormant, Reading, FieldPlaces
  <2>7. CASE pc' = "ready" /\ wire' = Response
    <3>1. Text' = Text /\ Response' = Response
      BY <2>1, SessionSame
    <3>2. Remaining' = Response
      <4>1. <<>> \o Response = Response
        BY <2>3
      <4> QED
        BY <2>1, <2>2, <2>7, <4>1 DEF Dormant, Remaining
    <3>3. 0 \in 0..Len(Response) /\ From(Response, 0 + 1) = Response
      BY <2>3 DEF From
    <3>4. \E g \in 0..Len(Response') : Remaining' = From(Response', g + 1)
      BY <3>1, <3>2, <3>3
    <3>5. ContentInv'
      BY <2>1, <2>2, <3>1, <3>2, <3>4 DEF ContentInv, Dormant
    <3>6. StageInv'
      BY <2>7 DEF StageInv, Headers, FieldPlaces
    <3> QED
      BY <2>1, <2>4, <2>5, <2>7, <3>5, <3>6 DEF ReadInv, Reading
  <2> QED
    BY <2>1, <2>6, <2>7
<1>3. CASE UNCHANGED vars
  <2>1. /\ UNCHANGED <<session, pc, wire, open, buff, iInit, iEof, mode, held, late, iCrc, offset, need, room, out,
                      text, result>>
    BY <1>3 DEF vars, response, input, zstream, header
  <2>2. Text' = Text /\ Response' = Response /\ Fields' = Fields
    BY <2>1, SessionSame
  <2>3. ReadTypes' /\ PlaceInv' /\ (pc' \notin Reading => Dormant')
    BY <2>1, <2>2 DEF ReadInv, ReadTypes, PlaceInv, Dormant
  <2>4. pc \in Reading \ {"failed"} => StageInv' /\ ContentInv'
    <3>1. Idle
      BY <2>1 DEF Idle, Remaining, Pending
    <3>2. StageInv => StageInv'
      BY <2>1 DEF StageInv
    <3> QED
      BY <3>1, <3>2, IdleContent DEF ReadInv
  <2> QED
    BY <2>1, <2>3, <2>4 DEF ReadInv
<1> QED
  BY <1>1, <1>2, <1>3

\* The whole invariant.
CodingInv == RequestInv /\ ReadInv

\* It holds in every state, of the request as of the response.
LEMMA CodingInvHolds == Spec => []CodingInv
<1>1. Init => CodingInv
  <2> SUFFICES ASSUME Init PROVE CodingInv
    OBVIOUS
  <2>1. RequestInv /\ PlaceInv
    BY InitRequest
  <2>2. ReadTypes
    <3>1. /\ session \in Sessions /\ wire = <<>> /\ buff = <<>> /\ held = <<>> /\ out = <<>> /\ text = <<>>
          /\ offset = 0 /\ iInit = FALSE /\ iEof = FALSE /\ late = FALSE
      BY DEF Init
    <3>2. <<>> \in Seq(Token) /\ <<>> \in Seq(Nat)
      OBVIOUS
    <3> QED
      BY <3>1, <3>2 DEF ReadTypes
  <2>3. Dormant /\ pc \notin Reading
    BY DEF Init, Dormant, Reading, FieldPlaces
  <2> QED
    BY <2>1, <2>2, <2>3 DEF CodingInv, ReadInv
<1>2. CodingInv /\ [Next]_vars => CodingInv'
  <2> SUFFICES ASSUME RequestInv, ReadInv, [Next]_vars
               PROVE  RequestInv' /\ ReadInv'
    BY DEF CodingInv
  <2>1. CASE Reads \/ Inflating
    BY <2>1, ReadingKeeps, RequestNext DEF ReadInv
  <2>2. CASE Sends \/ Server \/ UNCHANGED vars
    BY <2>2, SendingKeeps, RequestNext DEF ReadInv
  <2> QED
    BY <2>1, <2>2 DEF Next
<1> QED
  BY <1>1, <1>2, PTL DEF Spec

Begins ==
  /\ Stands(text, Text, 0)
  /\ pc # "trailer" /\ iEof => text = Text

\* What the application has is the text's beginning, and at the end all of it.
LEMMA TextBegins == ReadTypes /\ ContentInv => Begins
<1> SUFFICES ASSUME ReadTypes, ContentInv
             PROVE  Begins
  OBVIOUS
<1>1. Text \in Seq(Nat) /\ text \in Seq(Nat)
  BY SessionIs DEF ReadTypes
<1>2. PICK x \in Seq(Nat) : text \o x = Text
  <2>1. CASE ~iInit \/ mode = "lost"
    <3>1. text = <<>> /\ <<>> \o Text = Text
      BY <1>1, <2>1 DEF ContentInv
    <3> QED
      BY <1>1, <3>1
  <2>2. CASE iInit /\ mode # "lost" /\ (iEof \/ late)
    <3>1. text \o Pending = Text /\ Pending \in Seq(Nat)
      BY <2>2 DEF ContentInv, Pending, ReadTypes
    <3> QED
      BY <3>1
  <2>3. CASE iInit /\ mode # "lost" /\ ~(iEof \/ late)
    <3>1. (text \o held) \o Bytes(Remaining) = Text
      BY <2>3 DEF ContentInv
    <3>2. PICK g \in 0..Len(Response) : Remaining = From(Response, g + 1)
      BY DEF ContentInv
    <3>3. Remaining \in Seq(Token)
      BY <3>2, SuffixIs DEF ReadTypes
    <3>4. PICK h, b \in Seq(Nat) : h = held /\ b = Bytes(Remaining)
      BY <3>3, BytesConcat DEF ReadTypes
    <3>5. Whole(text, h, b)
      BY <1>1, TextConcat, Zenon
    <3>6. text \o (h \o b) = Text /\ h \o b \in Seq(Nat)
      BY <3>1, <3>4, <3>5, Zenon DEF Whole
    <3> QED
      BY <3>6
  <2> QED
    BY <2>1, <2>2, <2>3
<1>3. Stands(text, Text, 0)
  <2>1. Len(text \o x) = Len(text) + Len(x) /\ \A k \in 1..Len(text) : (text \o x)[k] = text[k]
    BY <1>1, ConcatIs
  <2>2. Len(text) \in Nat /\ Len(x) \in Nat
    BY <1>1
  <2> QED
    BY <1>2, <2>1, <2>2 DEF Stands
<1>4. pc # "trailer" /\ iEof => text = Text
  <2> SUFFICES ASSUME pc # "trailer", iEof PROVE text = Text
    OBVIOUS
  <2>1. text \o Pending = Text /\ Pending = <<>>
    BY DEF ContentInv, Pending
  <2>2. text \o <<>> = text
    BY <1>1
  <2> QED
    BY <2>1, <2>2, Zenon
<1> QED
  BY <1>3, <1>4 DEF Begins

\* And so it is after a Read.
LEMMA TextEnds == (ReadTypes /\ ContentInv)' => Begins'
  BY TextBegins, PTL

\* What a step of a Read does for the application: nothing it sees, an error, or some bytes.
ReadLike ==
  \/ UNCHANGED <<text, result>>
  \/ pc # "ready" /\ text' = text /\ result' = "error"
  \/ \E d \in Seq(Nat) :
       /\ pc # "ready" /\ pc' = "ready" /\ text' = text \o d /\ Len(d) <= room
       /\ result' = (IF d = <<>> THEN "end" ELSE "more") /\ (d = <<>> => iEof')

\* Every step of a Read is of this kind.
LEMMA ReadIs ==
  ASSUME Known, Reads \/ Inflating
  PROVE  ReadLike
<1>0. pc # "ready" => room \in Nat
  BY CodingConstants DEF Known, StageInv
<1>1. CASE Reads
  BY <1>1 DEF Reads, Read, ReadLike
<1>2. CASE InputFails
  <2>1. pc # "ready" /\ text' = text /\ result' = "error"
    BY <1>2 DEF InputFails, Fails, Ensures
  <2> QED
    BY <2>1 DEF ReadLike
<1>3. CASE Input
  <2>1. CASE iEof
    <3>1. pc = "input" /\ pc' = "ready" /\ text' = text \o <<>> /\ result' = "end" /\ iEof'
      BY <1>3, <2>1 DEF Input, Returns, zstream
    <3>2. <<>> \in Seq(Nat) /\ Len(<<>>) <= room
      BY <1>0, <3>1
    <3> QED
      BY <3>1, <3>2 DEF ReadLike
  <2>2. CASE ~iEof
    BY <1>3, <2>2 DEF Input, ReadLike
  <2> QED
    BY <2>1, <2>2
<1>4. CASE PreInit
  <2>1. CASE Fixed \/ Drop
    <3>1. pc # "ready" /\ (UNCHANGED <<text, result>> \/ Fails)
      BY <2>1 DEF Fixed, Drop
    <3> QED
      BY <3>1 DEF ReadLike, Fails
  <2>2. CASE Ensure \/ Extra \/ CString \/ HeaderCrc \/ TopUp
    BY <2>2 DEF Ensure, Extra, CString, HeaderCrc, TopUp, response, ReadLike
  <2> QED
    BY <1>4, <2>1, <2>2 DEF PreInit
<1>5. CASE Inflate
  <2>1. PICK o \in Attempts : After(o)
    BY <1>5, InflateAfter
  <2>2. pc = "inflate" /\ iEof' = o.end
    BY <2>1 DEF After
  <2>3. Outcomes(o)
    BY <2>1, <2>2, AttemptsAre
  <2>4. o.out \in Seq(Nat) /\ Len(o.out) <= room
    <3>1. CASE o = ReportsEnd \/ o = Error \/ o = TakesHeader
      <4>1. o.out = <<>>
        <5>1. CASE o = ReportsEnd
          BY <5>1 DEF ReportsEnd
        <5>2. CASE o = Error
          BY <5>2 DEF ReportsEnd, Error
        <5>3. CASE o = TakesHeader
          BY <5>3 DEF ReportsEnd, TakesHeader
        <5> QED
          BY <3>1, <5>1, <5>2, <5>3
      <4>2. <<>> \in Seq(Nat) /\ Len(<<>>) <= room
        BY <1>0, <2>2
      <4> QED
        BY <4>1, <4>2
    <3>2. CASE \E m : \E k \in 0..Len(buff) : Taken(m, o, k)
      BY <3>2 DEF Taken
    <3> QED
      BY <2>3, <3>1, <3>2 DEF Outcomes
  <2> QED
    BY <2>1, <2>2, <2>4 DEF After, Goes, ReadLike
<1>6. CASE EndOfInflation
  <2>1. /\ pc = "trailer" /\ (Returns(out) \/ Fails) /\ iEof' = iEof
    BY <1>6 DEF EndOfInflation, zstream
  <2>2. iEof /\ out \in Seq(Nat) /\ Len(out) <= room
    BY <2>1 DEF Known, StageInv, ReadTypes
  <2> QED
    BY <2>1, <2>2 DEF ReadLike, Returns, Fails
<1> QED
  BY <1>1, <1>2, <1>3, <1>4, <1>5, <1>6 DEF Inflating

\* Every step of a Read is one of BodyStream, or none that it sees.
LEMMA StreamStep ==
  ASSUME ReadInv, Reads \/ Inflating
  PROVE  [Stream!Next]_(Stream!vars)
<1>1. /\ ReadInv' /\ Known /\ Kept /\ ReadLike /\ session' = session
  BY ReadingKeeps, ReadIs, ReadsPlace DEF ReadInv
<1>2. PICK M : M = CHOOSE n \in ReadSizes : \A m \in ReadSizes : m <= n
  OBVIOUS
<1>3. M \in Nat /\ \A m \in ReadSizes : m \in Nat /\ m <= M
  BY <1>2, CodingConstants
<1>4. PICK v : v = Text
  OBVIOUS
<1>5. Text' = v /\ v \in Seq(Nat) /\ Stands(text, v, 0) /\ text \in Seq(Nat)
  BY <1>1, <1>4, SessionSame, SessionIs, TextBegins DEF Known, ReadTypes, Begins
<1>6. PICK x, z, e, ee :
        /\ x = From(v, Len(text) + 1) /\ z = From(v, Len(text') + 1)
        /\ e = (result = "end") /\ ee = (result' = "end")
  OBVIOUS
<1>7. e \in BOOLEAN /\ ee \in BOOLEAN
  BY <1>6
<1>8. pc # "ready" => e = FALSE
  BY <1>1, <1>6 DEF Known, StageInv
<1>9. CASE UNCHANGED <<text, result>>
  BY <1>4, <1>5, <1>9 DEF Stream!vars
<1>10. CASE pc # "ready" /\ text' = text /\ result' = "error"
  <2>1. z = x /\ ee = FALSE /\ e = FALSE
    BY <1>6, <1>8, <1>10
  <2> QED
    BY <1>4, <1>5, <1>6, <1>10, <2>1 DEF Stream!vars
<1>11. ASSUME NEW d \in Seq(Nat), pc # "ready", pc' = "ready", text' = text \o d, Len(d) <= room,
              result' = (IF d = <<>> THEN "end" ELSE "more"), d = <<>> => iEof'
       PROVE  Stream!Next
  <2>1. ReadTypes' /\ ContentInv'
    BY <1>1, <1>11 DEF Kept
  <2>2. Stands(text', v, 0) /\ (iEof' => text' = v)
    <3>1. Begins'
      BY <2>1, TextEnds
    <3> QED
      BY <1>5, <1>11, <3>1 DEF Begins
  <2>3. CASE d = <<>>
    <3>1. text' = text /\ ee = TRUE
      <4>1. text \o <<>> = text
        BY <1>5
      <4>2. text' = text
        BY <1>11, <2>3, <4>1, Zenon
      <4>3. result' = "end"
        BY <1>11, <2>3
      <4> QED
        BY <1>6, <4>2, <4>3
    <3>2. text' = v
      BY <1>11, <2>2, <2>3
    <3>3. z = x /\ x = <<>>
      <4>1. From(v, Len(v) + 1) = <<>>
        BY <1>5 DEF From
      <4> QED
        BY <1>6, <3>1, <3>2, <4>1
    <3> QED
      BY <1>4, <1>5, <1>6, <3>1, <3>3 DEF Stream!Next, Stream!End, Stream!MayEnd
  <2>4. CASE d # <<>>
    <3>1. e = FALSE /\ ee = FALSE
      BY <1>6, <1>8, <1>11, <2>4
    <3>2. PICK n : n = Len(d)
      OBVIOUS
    <3>3. n \in Nat /\ n > 0 /\ n <= M
      <4>1. n \in Nat /\ n > 0
        BY <2>4, <3>2
      <4>2. room \in Nat /\ room <= M
        BY <1>1, <1>3, <1>11 DEF Known, StageInv
      <4> QED
        BY <1>3, <1>11, <3>2, <4>1, <4>2
    <3>4. n <= Len(x) /\ d = SubSeq(x, 1, n) /\ z = SubSeq(x, n + 1, Len(x))
      <4>1. Stands(text \o d, v, 0)
        BY <1>11, <2>2
      <4>2. /\ Len(d) <= Len(From(v, Len(text) + 1))
            /\ d = SubSeq(From(v, Len(text) + 1), 1, Len(d))
            /\ From(v, Len(text \o d) + 1) =
                 SubSeq(From(v, Len(text) + 1), Len(d) + 1, Len(From(v, Len(text) + 1)))
        BY <1>5, <4>1, PieceStands, Zenon DEF From
      <4>3. z = From(v, Len(text \o d) + 1)
        BY <1>6, <1>11, Zenon
      <4> QED
        BY <1>6, <3>2, <4>2, <4>3, Zenon
    <3>5. n \in {m \in 1..M : m <= Len(x)}
      BY <1>3, <3>3, <3>4
    <3>6. text' = text \o SubSeq(x, 1, n)
      BY <1>11, <3>4
    <3> QED
      BY <1>2, <1>4, <1>5, <1>6, <3>1, <3>4, <3>5, <3>6
         DEF Stream!Next, Stream!Give, Stream!MayEnd, Stream!Spans
  <2> QED
    BY <2>3, <2>4
<1> QED
  BY <1>1, <1>9, <1>10, <1>11 DEF ReadLike

\* The application reads what BodyStream promises, whatever the text and its tokens, the coding, the
\* pieces and the sizes of its reads, and also where the network fails or a header is taken for a
\* stream: the text's bytes in order, no more in a call than it asked for, and no end before all of
\* them were given and, with gzip, compared with the trailer (inflateHandler, gzipInflateHandler).
THEOREM CodingImplementsStream == Spec => ImplementsStream
<1>1. Init => Stream!Init
  BY DEF Init, Stream!Init
<1>2. CodingInv /\ [Next]_vars => [Stream!Next]_(Stream!vars)
  <2> SUFFICES ASSUME RequestInv, ReadInv, [Next]_vars PROVE [Stream!Next]_(Stream!vars)
    BY DEF CodingInv
  <2>1. CASE Reads \/ Inflating
    BY <2>1, StreamStep
  <2>2. CASE Sends \/ Server \/ UNCHANGED vars
    <3>1. UNCHANGED <<session, text, result>>
      BY <2>2, SendingKeeps
    <3>2. Text' = Text
      BY <3>1, SessionSame
    <3> QED
      BY <3>1, <3>2 DEF Stream!vars
  <2> QED
    BY <2>1, <2>2 DEF Next
<1> QED
  BY <1>1, <1>2, CodingInvHolds, PTL DEF Spec, ImplementsStream, Stream!Spec
=============================================================================
