--------------------------- MODULE JoinPathProofs ---------------------------
(***************************************************************************)
(* Proofs about JoinPath, for every set of friends, accounts and offers,   *)
(* open frames of every size and kind, and every bound.                    *)
(***************************************************************************)
EXTENDS JoinPath, SequenceTheorems, TLAPS

-----------------------------------------------------------------------------
(* The inductive invariant.                                                *)

Bytes == Kinds \cup {"newline", "play"} \cup Players

Connection ==
  [state : Live \cup {"none", "rejected"}, kind : Kinds, sent : Seq(Bytes),
   wire : Seq(Bytes), buffer : Seq(Bytes), received : Seq(Bytes)]

\* The adapter has only payloads to write whose players are still approved, and
\* the last of them is what the bridge holds.
PayloadsFollow ==
  /\ \A i \in DOMAIN writes : writes[i] \subseteq approved
  /\ writes # <<>> => writes[Len(writes)] = approved

InGameApproved == \A f \in Friends : game[f] \in approved \cup {Nobody}

\* Bytes of a game p, the login before the play and neither twice; some may lack.
InOrder(bytes, p) ==
  /\ \A i \in DOMAIN bytes : bytes[i] \in {p[1], p[2]}
  /\ \A i, j \in DOMAIN bytes : i < j => bytes[i] = p[1] /\ bytes[j] = p[2]

\* Bytes that begin with a frame, whose end is the first newline.
BehindFrame(bytes, p) ==
  \E k \in DOMAIN bytes :
    /\ bytes[k] = "newline"
    /\ \A i \in 1..k - 1 : bytes[i] # "newline"
    /\ InOrder(SubSeq(bytes, k + 1, Len(bytes)), p)

\* What the relay and the host have read of a connection, and what is under way.
StreamInOrder(f) ==
  LET c == conns[f]
  IN /\ c.state \in Live => c.sent = payload(f)
     /\ c.state # "piped" => c.received = <<>>
     /\ c.state = "framing" => BehindFrame(c.buffer \o c.wire, payload(f))
     /\ c.state = "connecting" => InOrder(c.buffer \o c.wire, payload(f))
     /\ c.state = "piped" => InOrder(c.received \o c.wire, payload(f))
     /\ c.state \in {"connecting", "piped"} => f \in opened

StreamsInOrder == \A f \in Friends : StreamInOrder(f)

RelayInv == conns \in [Callers -> Connection] /\ TcpTypeOK /\ StreamsInOrder

BridgeInv ==
  BridgeTypeOK /\ writes \in Seq(SUBSET Players) /\ WhitelistFollows /\ PayloadsFollow

GamesInv ==
  /\ CandidatesTypeOK /\ relayUp \in BOOLEAN
  /\ account \in [Friends -> Players]
  /\ game \in [Friends -> Players \cup {Nobody}]
  /\ InGameApproved

JoinInv == RelayInv /\ BridgeInv /\ GamesInv

-----------------------------------------------------------------------------
(* Sequences of bytes.                                                     *)

\* The login is neither of the other bytes of a connection.
LEMMA PayloadFacts ==
  ASSUME NEW f \in Friends, account \in [Friends -> Players]
  PROVE  /\ payload(f) \in Seq(Bytes) /\ Len(payload(f)) = 2
         /\ payload(f)[1] = account[f] /\ payload(f)[2] = "play"
         /\ account[f] \notin {"newline", "play"}
<1>1. account[f] \in Players /\ account[f] \notin {"newline", "play"}
  BY JoinPathAssumption
<1> QED
  BY <1>1 DEF payload, Bytes

\* Bytes read in two goes are bytes read in one.
LEMMA BytesConcat ==
  \A s, t, u \in Seq(Bytes) : s \o t \in Seq(Bytes) /\ (s \o t) \o u = s \o (t \o u)
BY ConcatAssociative, ConcatProperties

\* Reading cuts what is on the wire in two.
LEMMA CutSeq ==
  ASSUME NEW S, NEW w \in Seq(S), NEW n \in 1..Len(w)
  PROVE  LET chunk == SubSeq(w, 1, n)
             rest == SubSeq(w, n + 1, Len(w))
         IN /\ chunk \in Seq(S) /\ Len(chunk) = n
            /\ rest \in Seq(S) /\ Len(rest) = Len(w) - n
            /\ \A i \in 1..Len(rest) : rest[i] = w[n + i]
            /\ chunk \o rest = w
<1>1. Len(w) \in Nat /\ \A i \in 1..Len(w) : w[i] \in S
  BY LenProperties, ElementOfSeq
<1>2. SubSeq(w, 1, n) \in Seq(S) /\ Len(SubSeq(w, 1, n)) = n
  BY <1>1, SubSeqProperties
<1>3. /\ SubSeq(w, n + 1, Len(w)) \in Seq(S)
      /\ Len(SubSeq(w, n + 1, Len(w))) = Len(w) - n
      /\ \A i \in 1..Len(w) - n : SubSeq(w, n + 1, Len(w))[i] = w[n + i]
  <2>1. n + 1 \in Int /\ Len(w) \in Int /\ \A i \in (n + 1)..Len(w) : w[i] \in S
    BY <1>1
  <2>2. /\ SubSeq(w, n + 1, Len(w)) \in Seq(S)
        /\ Len(SubSeq(w, n + 1, Len(w)))
             = IF n + 1 <= Len(w) THEN Len(w) - (n + 1) + 1 ELSE 0
        /\ \A i \in 1..Len(w) - (n + 1) + 1 : SubSeq(w, n + 1, Len(w))[i] = w[n + 1 + i - 1]
    BY <2>1, SubSeqProperties
  <2> QED
    BY <1>1, <2>2
<1>4. SubSeq(w, 1, n) \o SubSeq(w, n + 1, Len(w)) = w
  BY <1>1, ConcatAdjacentSubSeq, SubSeqFull
<1> QED
  BY <1>2, <1>3, <1>4

\* Bytes that are among others in their order are in order when those are.
LEMMA InOrderAmong ==
  ASSUME NEW s \in Seq(Bytes), NEW t \in Seq(Bytes), NEW p, InOrder(t, p),
         NEW at \in [1..Len(s) -> 1..Len(t)],
         \A i \in 1..Len(s) : s[i] = t[at[i]],
         \A i, j \in 1..Len(s) : i < j => at[i] < at[j]
  PROVE  InOrder(s, p)
<1>1. DOMAIN s = 1..Len(s) /\ DOMAIN t = 1..Len(t)
  BY LenProperties
<1> QED
  BY <1>1 DEF InOrder

\* What is lost between two reads leaves the others in order.
LEMMA InOrderWithGap ==
  ASSUME NEW b \in Seq(Bytes), NEW w \in Seq(Bytes), NEW p, NEW n \in 1..Len(w),
         InOrder(b \o w, p)
  PROVE  InOrder(b \o SubSeq(w, n + 1, Len(w)), p)
<1> DEFINE rest == SubSeq(w, n + 1, Len(w))
           at == [i \in 1..Len(b \o rest) |-> IF i <= Len(b) THEN i ELSE i + n]
<1>1. /\ rest \in Seq(Bytes) /\ Len(rest) = Len(w) - n
      /\ \A i \in 1..Len(rest) : rest[i] = w[n + i]
  BY CutSeq
<1>2. Len(b) \in Nat /\ Len(w) \in Nat
  BY LenProperties
<1> HIDE DEF rest
<1>3. /\ b \o rest \in Seq(Bytes) /\ Len(b \o rest) = Len(b) + Len(w) - n
      /\ \A i \in 1..Len(b) + Len(rest) :
           (b \o rest)[i] = IF i <= Len(b) THEN b[i] ELSE rest[i - Len(b)]
  BY <1>1, <1>2, ConcatProperties
<1>4. /\ b \o w \in Seq(Bytes) /\ Len(b \o w) = Len(b) + Len(w)
      /\ \A i \in 1..Len(b) + Len(w) :
           (b \o w)[i] = IF i <= Len(b) THEN b[i] ELSE w[i - Len(b)]
  BY ConcatProperties
<1>5. at \in [1..Len(b \o rest) -> 1..Len(b \o w)]
  BY <1>1, <1>2, <1>3, <1>4
<1>6. \A i \in 1..Len(b \o rest) : (b \o rest)[i] = (b \o w)[at[i]]
  <2>1. ASSUME NEW i \in 1..Len(b \o rest)
        PROVE  (b \o rest)[i] = (b \o w)[at[i]]
    <3>1. CASE i <= Len(b)
      BY <1>1, <1>2, <1>3, <1>4, <3>1
    <3>2. CASE ~(i <= Len(b))
      <4>1. at[i] = i + n /\ i - Len(b) \in 1..Len(rest)
        BY <1>1, <1>2, <1>3, <3>2
      <4>2. (b \o rest)[i] = w[n + (i - Len(b))]
        BY <1>1, <1>2, <1>3, <3>2, <4>1
      <4>3. (b \o w)[i + n] = w[i + n - Len(b)]
        BY <1>1, <1>2, <1>3, <1>4, <3>2
      <4>4. n + (i - Len(b)) = i + n - Len(b)
        BY <1>2
      <4> QED
        BY <4>1, <4>2, <4>3, <4>4
    <3> QED
      BY <3>1, <3>2
  <2> QED
    BY <2>1
<1>7. \A i, j \in 1..Len(b \o rest) : i < j => at[i] < at[j]
  BY <1>2, <1>3
<1> HIDE DEF at
<1>8. InOrder(b \o rest, p)
  BY <1>3, <1>4, <1>5, <1>6, <1>7, InOrderAmong
<1> QED
  BY <1>8 DEF rest

\* The beginning of bytes in order is in order.
LEMMA InOrderPrefix ==
  ASSUME NEW s \in Seq(Bytes), NEW t \in Seq(Bytes), NEW p, InOrder(s \o t, p)
  PROVE  InOrder(s, p)
<1> DEFINE at == [i \in 1..Len(s) |-> i]
<1>1. Len(s) \in Nat /\ Len(t) \in Nat
  BY LenProperties
<1>2. /\ s \o t \in Seq(Bytes) /\ Len(s \o t) = Len(s) + Len(t)
      /\ \A i \in 1..Len(s) + Len(t) :
           (s \o t)[i] = IF i <= Len(s) THEN s[i] ELSE t[i - Len(s)]
  BY ConcatProperties
<1>3. /\ at \in [1..Len(s) -> 1..Len(s \o t)]
      /\ \A i \in 1..Len(s) : s[i] = (s \o t)[at[i]]
      /\ \A i, j \in 1..Len(s) : i < j => at[i] < at[j]
  BY <1>1, <1>2
<1> HIDE DEF at
<1> QED
  BY <1>2, <1>3, InOrderAmong

\* parseOpenFrame is given everything before the first newline of what was read.
LEMMA NewlineFound ==
  ASSUME NEW b \in Seq(Bytes), NEW w \in Seq(Bytes), NEW p,
         p[1] # "newline", p[2] # "newline", BehindFrame(b \o w, p), newlineIndex(b) # 0
  PROVE  remainder(b) \in Seq(Bytes) /\ InOrder(remainder(b) \o w, p)
<1> DEFINE all == b \o w
           I == {i \in 1..Len(b) : b[i] = "newline"}
<1>1. Len(b) \in Nat /\ Len(w) \in Nat /\ \A i \in 1..Len(b) : b[i] \in Bytes
  BY LenProperties, ElementOfSeq
<1>2. /\ all \in Seq(Bytes) /\ Len(all) = Len(b) + Len(w)
      /\ \A i \in 1..Len(b) + Len(w) : all[i] = IF i <= Len(b) THEN b[i] ELSE w[i - Len(b)]
  BY ConcatProperties
<1>3. DOMAIN all = 1..Len(all) /\ \A i \in 1..Len(all) : all[i] \in Bytes
  BY <1>2, LenProperties, ElementOfSeq
<1>4. newlineIndex(b) = IF I # {} THEN Min(I) ELSE 0
  BY DEF newlineIndex, SelectInSeq
<1>5. BehindFrame(all, p)
  OBVIOUS
<1> HIDE DEF all
<1>6. PICK k \in 1..Len(all) : /\ all[k] = "newline"
                               /\ \A i \in 1..k - 1 : all[i] # "newline"
                               /\ InOrder(SubSeq(all, k + 1, Len(all)), p)
  BY <1>3, <1>5 DEF BehindFrame
<1>7. k \in Int /\ Len(all) \in Nat
  BY <1>1, <1>2
<1> DEFINE tail == SubSeq(all, k + 1, Len(all))
<1>8. /\ tail \in Seq(Bytes) /\ Len(tail) = Len(all) - k
      /\ \A i \in 1..Len(tail) : tail[i] = all[k + i]
  BY <1>2, <1>6, CutSeq
<1>9. \A i \in 1..Len(tail) : tail[i] # "newline"
  <2>1. DOMAIN tail = 1..Len(tail)
    BY <1>8, LenProperties
  <2> QED
    BY <1>6, <2>1 DEF InOrder
<1> HIDE DEF tail
<1>10. \A i \in I : i = k
  <2>1. ASSUME NEW i \in I, i # k
        PROVE  FALSE
    <3>1. i \in 1..Len(all) /\ all[i] = "newline"
      BY <1>1, <1>2
    <3>2. ~(i < k)
      BY <1>6, <3>1
    <3>3. i - k \in 1..Len(tail)
      BY <1>7, <1>8, <2>1, <3>1, <3>2
    <3>4. tail[i - k] = all[k + (i - k)] /\ k + (i - k) = i
      BY <1>7, <1>8, <3>1, <3>3
    <3> QED
      BY <1>9, <3>1, <3>3, <3>4
  <2> QED
    BY <2>1
<1>11. I = {k} /\ k \in 1..Len(b)
  BY <1>4, <1>10
<1>12. newlineIndex(b) = k
  <2>1. Min({k}) = k
    BY <1>7 DEF Min
  <2> QED
    BY <1>4, <1>11, <2>1
<1> HIDE DEF I
<1>13. remainder(b) = SubSeq(b, k + 1, Len(b))
  BY <1>12 DEF remainder
<1>14. /\ remainder(b) \in Seq(Bytes) /\ Len(remainder(b)) = Len(b) - k
       /\ \A i \in 1..Len(remainder(b)) : remainder(b)[i] = b[k + i]
  BY <1>11, <1>13, CutSeq
<1> DEFINE left == remainder(b) \o w
<1>15. /\ left \in Seq(Bytes) /\ Len(left) = Len(b) - k + Len(w)
       /\ \A i \in 1..(Len(b) - k) + Len(w) :
            left[i] = IF i <= Len(b) - k THEN remainder(b)[i] ELSE w[i - (Len(b) - k)]
  BY <1>14, ConcatProperties
<1> HIDE DEF left
<1>16. left = tail
  <2>1. Len(left) = Len(tail)
    BY <1>1, <1>2, <1>7, <1>8, <1>15
  <2>2. ASSUME NEW i \in 1..Len(left)
        PROVE  left[i] = tail[i]
    <3>1. tail[i] = all[k + i] /\ k + i \in 1..Len(b) + Len(w)
      BY <1>1, <1>7, <1>8, <1>11, <1>15, <2>1
    <3>2. CASE i <= Len(b) - k
      <4>1. left[i] = b[k + i]
        BY <1>1, <1>14, <1>15, <3>2
      <4>2. k + i <= Len(b)
        BY <1>1, <1>7, <3>2
      <4> QED
        BY <1>2, <3>1, <4>1, <4>2
    <3>3. CASE ~(i <= Len(b) - k)
      <4>1. left[i] = w[i - (Len(b) - k)]
        BY <1>1, <1>7, <1>15, <3>3
      <4>2. ~(k + i <= Len(b)) /\ k + i - Len(b) = i - (Len(b) - k)
        BY <1>1, <1>7, <3>3
      <4> QED
        BY <1>2, <3>1, <4>1, <4>2
    <3> QED
      BY <3>2, <3>3
  <2> QED
    BY <1>8, <1>15, <2>1, <2>2, SeqEqual
<1> QED
  BY <1>6, <1>14, <1>16 DEF left, tail

\* A frame of any size, its newline and a game.
LEMMA FrameBefore ==
  ASSUME NEW kind \in Kinds, NEW size \in Nat, NEW a \in Players
  PROVE  LET wire == [i \in 1..size |-> kind] \o <<"newline">> \o <<a, "play">>
         IN wire \in Seq(Bytes) /\ BehindFrame(<<>> \o wire, <<a, "play">>)
<1> DEFINE frame == [i \in 1..size |-> kind]
           bytes == <<a, "play">>
           head == frame \o <<"newline">>
           wire == head \o bytes
<1>1. frame \in Seq(Bytes) /\ Len(frame) = size /\ \A i \in 1..size : frame[i] = kind
  <2>1. frame \in [1..size -> Bytes]
    BY DEF Bytes
  <2>2. frame \in Seq(Bytes)
    BY <2>1, SeqDef
  <2>3. Len(frame) \in Nat /\ DOMAIN frame = 1..Len(frame)
    BY <2>2, LenProperties
  <2>4. 1..Len(frame) = 1..size
    BY <2>3
  <2> HIDE DEF frame
  <2>5. Len(frame) = size
    <3>1. ~(Len(frame) < size)
      <4>1. Len(frame) < size => size \in 1..size /\ size \notin 1..Len(frame)
        BY <2>3
      <4> QED
        BY <2>4, <4>1
    <3>2. ~(size < Len(frame))
      <4>1. size < Len(frame) => Len(frame) \in 1..Len(frame) /\ Len(frame) \notin 1..size
        BY <2>3
      <4> QED
        BY <2>4, <4>1
    <3>3. Len(frame) \in Nat
      BY <2>3
    <3>4. \A x, y \in Nat : ~(x < y) /\ ~(y < x) => x = y
      OBVIOUS
    <3> QED
      BY <3>1, <3>2, <3>3, <3>4
  <2> QED
    BY <2>2, <2>5 DEF frame
<1>2. bytes \in Seq(Bytes) /\ Len(bytes) = 2 /\ bytes[1] = a /\ bytes[2] = "play"
  BY DEF Bytes
<1>3. <<"newline">> \in Seq(Bytes) /\ Len(<<"newline">>) = 1 /\ <<"newline">>[1] = "newline"
  BY DEF Bytes
<1> HIDE DEF frame, bytes
<1>4. /\ head \in Seq(Bytes) /\ Len(head) = size + 1
      /\ \A i \in 1..size + 1 : head[i] = IF i <= size THEN kind ELSE "newline"
  <2>1. /\ head \in Seq(Bytes) /\ Len(head) = size + 1
        /\ \A i \in 1..size + 1 :
             head[i] = IF i <= size THEN frame[i] ELSE <<"newline">>[i - size]
    BY <1>1, <1>3, ConcatProperties
  <2> QED
    BY <1>1, <1>3, <2>1
<1> HIDE DEF head
<1>5. /\ wire \in Seq(Bytes) /\ Len(wire) = size + 3
      /\ \A i \in 1..size + 3 : wire[i] = IF i <= size + 1 THEN head[i] ELSE bytes[i - (size + 1)]
  <2>1. /\ wire \in Seq(Bytes) /\ Len(wire) = Len(head) + Len(bytes)
        /\ \A i \in 1..Len(head) + Len(bytes) :
             wire[i] = IF i <= Len(head) THEN head[i] ELSE bytes[i - Len(head)]
    BY <1>2, <1>4, ConcatProperties
  <2>2. Len(head) = size + 1 /\ Len(head) + Len(bytes) = size + 3
    BY <1>2, <1>4
  <2> QED
    BY <2>1, <2>2
<1> HIDE DEF wire
<1> DEFINE tail == SubSeq(wire, size + 1 + 1, Len(wire))
<1>6. /\ tail \in Seq(Bytes) /\ Len(tail) = 2
      /\ \A i \in 1..2 : tail[i] = wire[size + 1 + i]
  <2>1. size + 1 \in 1..Len(wire) /\ Len(wire) - (size + 1) = 2
    BY <1>5
  <2> QED
    BY <1>5, <2>1, CutSeq
<1>7. tail[1] = a /\ tail[2] = "play" /\ DOMAIN tail = 1..2
  <2>1. tail[1] = wire[size + 2] /\ tail[2] = wire[size + 3]
    <3>1. size + 1 + 1 = size + 2 /\ size + 1 + 2 = size + 3
      OBVIOUS
    <3> QED
      BY <1>6, <3>1
  <2>2. wire[size + 2] = bytes[1] /\ wire[size + 3] = bytes[2]
    BY <1>5
  <2>3. DOMAIN tail = 1..2
    BY <1>6, LenProperties
  <2> QED
    BY <1>2, <2>1, <2>2, <2>3
<1> HIDE DEF tail
<1>8. InOrder(tail, bytes)
  BY <1>2, <1>7 DEF InOrder
<1>9. "newline" # kind
  BY DEF Kinds
<1>10. /\ wire[size + 1] = "newline" /\ \A i \in 1..(size + 1) - 1 : wire[i] # "newline"
       /\ DOMAIN wire = 1..size + 3
  BY <1>4, <1>5, <1>9, LenProperties
<1>11. BehindFrame(wire, bytes)
  BY <1>8, <1>10 DEF BehindFrame, tail
<1>12. <<>> \o wire = wire
  BY <1>5, ConcatEmptySeq
<1> QED
  BY <1>5, <1>11, <1>12 DEF wire, head, frame, bytes

-----------------------------------------------------------------------------
(* The relay.                                                              *)

\* A caller that has no connection, or one that was refused.
LEMMA NoConnFacts ==
  /\ NoConn \in Connection /\ NoConn.state = "none" /\ NoConn.received = <<>>
  /\ LET rejected == [NoConn EXCEPT !.state = "rejected"]
     IN /\ rejected \in Connection /\ rejected.state = "rejected"
        /\ rejected.received = <<>>
<1>1. <<>> \in Seq(Bytes)
  BY EmptySeq
<1> QED
  BY <1>1 DEF NoConn, Connection, Live, Kinds

\* Nothing is read of them.
LEMMA ClosedInOrder ==
  ASSUME NEW f \in Friends, conns'[f].state \in {"none", "rejected"},
         conns'[f].received = <<>>
  PROVE  StreamInOrder(f)'
BY DEF StreamInOrder, Live

\* One connection takes a step.
LEMMA OneConnChanges ==
  ASSUME RelayInv, account' = account, NEW f \in Friends, NEW d \in Connection,
         conns' = [conns EXCEPT ![f] = d],
         opened \subseteq opened', opened' \subseteq Callers,
         d.state = "framing" => Len(d.buffer) <= MaxOpenFrame,
         StreamInOrder(f)'
  PROVE  RelayInv'
<1>1. /\ conns' \in [Callers -> Connection] /\ conns'[f] = d
      /\ \A g \in Callers : g # f => conns'[g] = conns[g]
  BY JoinPathAssumption DEF RelayInv
<1>2. TcpTypeOK'
  <2>1. \A g \in Callers : conns'[g] \in Connection
    BY <1>1
  <2>2. \A g \in Callers : /\ conns'[g].state \in Live \cup {"none", "rejected"}
                           /\ conns'[g].kind \in Kinds
    BY <2>1 DEF Connection
  <2>3. \A g \in Callers :
          conns'[g].state = "framing" => Len(conns'[g].buffer) <= MaxOpenFrame
    BY <1>1 DEF RelayInv, TcpTypeOK
  <2> QED
    BY <2>2, <2>3 DEF TcpTypeOK
<1>3. ASSUME NEW g \in Friends, g # f
      PROVE  StreamInOrder(g)'
  <2>1. StreamInOrder(g) /\ conns'[g] = conns[g] /\ payload(g)' = payload(g)
    BY <1>1, <1>3, JoinPathAssumption DEF RelayInv, StreamsInOrder, payload
  <2> QED
    BY <2>1 DEF StreamInOrder
<1> QED
  BY <1>1, <1>2, <1>3 DEF RelayInv, StreamsInOrder

\* A connection begins with its frame on the wire.
LEMMA Connects ==
  ASSUME RelayInv, account \in [Friends -> Players], account' = account, NEW f \in Friends,
         NEW frame \in Frames, friendConnects(f, frame, payload(f))
  PROVE  RelayInv'
<1> DEFINE wire == [i \in 1..frame.size |-> frame.kind] \o <<"newline">> \o payload(f)
           d == [NoConn EXCEPT !.state = "framing", !.kind = frame.kind,
                               !.sent = payload(f), !.wire = wire]
<1>1. frame.kind \in Kinds /\ frame.size \in Nat /\ MaxOpenFrame \in Nat
  BY TcpAssumption
<1>2. payload(f) \in Seq(Bytes) /\ payload(f)' = payload(f)
  BY PayloadFacts DEF payload
<1>3. wire \in Seq(Bytes) /\ BehindFrame(<<>> \o wire, payload(f))
  BY <1>1, FrameBefore DEF payload
<1> HIDE DEF wire
<1>4. /\ d \in Connection /\ d.state = "framing" /\ d.buffer = <<>> /\ d.received = <<>>
      /\ d.sent = payload(f) /\ d.wire = wire
  <2>1. <<>> \in Seq(Bytes)
    BY EmptySeq
  <2> QED
    BY <1>1, <1>2, <1>3, <2>1 DEF NoConn, Connection, Live
<1>5. conns' = [conns EXCEPT ![f] = d] /\ opened' = opened
  BY DEF friendConnects, wire
<1> HIDE DEF d
<1>6. conns'[f] = d
  BY <1>5, JoinPathAssumption DEF RelayInv
<1>7. StreamInOrder(f)'
  BY <1>2, <1>3, <1>4, <1>6 DEF StreamInOrder
<1>8. Len(d.buffer) <= MaxOpenFrame
  BY <1>1, <1>4, EmptySeq
<1> QED
  BY <1>4, <1>5, <1>7, <1>8, OneConnChanges DEF RelayInv, TcpTypeOK

\* The relay reads a chunk: of a frame, of a stream that waits for the host, which
\* loses it, or of one that is piped.
LEMMA Reads ==
  ASSUME RelayInv, account \in [Friends -> Players], account' = account, NEW f \in Friends,
         relayReads(f)
  PROVE  RelayInv'
<1> DEFINE c == conns[f]
           p == payload(f)
<1>1. c \in Connection /\ c.state \in Live /\ f \in Callers
  BY JoinPathAssumption DEF RelayInv, relayReads
<1>2. /\ c.kind \in Kinds /\ c.sent \in Seq(Bytes) /\ c.wire \in Seq(Bytes)
      /\ c.buffer \in Seq(Bytes) /\ c.received \in Seq(Bytes)
  BY <1>1 DEF Connection
<1>3. StreamInOrder(f) /\ opened \subseteq Callers
  BY DEF RelayInv, StreamsInOrder, TcpTypeOK
<1>4. PICK n \in 1..Len(c.wire) :
        LET d == onData([c EXCEPT !.wire = SubSeq(@, n + 1, Len(@))], SubSeq(c.wire, 1, n))
        IN /\ conns' = [conns EXCEPT ![f] = d]
           /\ opened' = IF d.state # "connecting" THEN opened ELSE opened \cup {f}
  BY DEF relayReads
<1> DEFINE chunk == SubSeq(c.wire, 1, n)
           rest == SubSeq(c.wire, n + 1, Len(c.wire))
           r == [c EXCEPT !.wire = rest]
           d == onData(r, chunk)
<1>5. chunk \in Seq(Bytes) /\ rest \in Seq(Bytes) /\ chunk \o rest = c.wire
  BY <1>2, CutSeq
<1>6. /\ conns' = [conns EXCEPT ![f] = d]
      /\ opened' = IF d.state # "connecting" THEN opened ELSE opened \cup {f}
  BY <1>4
<1>7. conns'[f] = d
  BY <1>1, <1>6 DEF RelayInv
<1>8. opened \subseteq opened' /\ opened' \subseteq Callers
  BY <1>1, <1>3, <1>6
<1>9. p' = p /\ p[1] # "newline" /\ p[2] # "newline"
  BY PayloadFacts DEF payload
<1> HIDE DEF chunk, rest
<1>10. /\ r \in Connection /\ r.state = c.state /\ r.kind = c.kind /\ r.sent = c.sent
       /\ r.wire = rest /\ r.buffer = c.buffer /\ r.received = c.received
  BY <1>1, <1>5 DEF Connection
<1> HIDE DEF r
<1>11. CASE c.state = "framing"
  <2> DEFINE buffer == c.buffer \o chunk
  <2>1. d = onInitialData(r, chunk)
    BY <1>10, <1>11 DEF onData
  <2>2. /\ c.sent = p /\ c.received = <<>> /\ BehindFrame(c.buffer \o c.wire, p)
    BY <1>3, <1>11 DEF StreamInOrder, Live
  <2>3. buffer \in Seq(Bytes) /\ BehindFrame(buffer \o rest, p) /\ Len(buffer) \in Nat
    <3>1. buffer \o rest = c.buffer \o (chunk \o rest)
      BY <1>2, <1>5, BytesConcat
    <3>2. buffer \in Seq(Bytes)
      BY <1>2, <1>5, ConcatProperties
    <3> HIDE DEF buffer
    <3> QED
      BY <1>5, <2>2, <3>1, <3>2, LenProperties
  <2> HIDE DEF p
  <2>4. CASE ~tooLarge(buffer) /\ newlineIndex(buffer) = 0
    <3>1. d = [r EXCEPT !.buffer = buffer]
      BY <1>10, <2>1, <2>4 DEF onInitialData
    <3>2. Len(buffer) <= MaxOpenFrame
      BY <2>3, <2>4, TcpAssumption DEF tooLarge
    <3> HIDE DEF d, buffer
    <3>3. /\ d \in Connection /\ d.state = "framing" /\ d.sent = p /\ d.received = <<>>
          /\ d.buffer = buffer /\ d.wire = rest
      BY <1>10, <1>11, <2>2, <2>3, <3>1 DEF Connection
    <3>4. StreamInOrder(f)'
      BY <1>7, <1>9, <2>3, <3>3 DEF StreamInOrder, p
    <3> QED
      BY <1>6, <1>8, <3>2, <3>3, <3>4, OneConnChanges
  <2>5. CASE ~tooLarge(buffer) /\ newlineIndex(buffer) # 0 /\ accepts(r.kind)
    <3>1. d = [r EXCEPT !.state = "connecting", !.buffer = remainder(buffer)]
      BY <1>10, <2>1, <2>5 DEF onInitialData
    <3>2. remainder(buffer) \in Seq(Bytes) /\ InOrder(remainder(buffer) \o rest, p)
      <4> HIDE DEF buffer
      <4> QED
        BY <1>5, <1>9, <2>3, <2>5, NewlineFound
    <3> HIDE DEF d, buffer
    <3>3. /\ d \in Connection /\ d.state = "connecting" /\ d.sent = p /\ d.received = <<>>
          /\ d.buffer = remainder(buffer) /\ d.wire = rest
      BY <1>10, <2>2, <3>1, <3>2 DEF Connection, Live
    <3>4. f \in opened'
      BY <1>6, <3>3
    <3>5. StreamInOrder(f)'
      BY <1>7, <1>9, <3>2, <3>3, <3>4 DEF StreamInOrder, p
    <3> QED
      BY <1>6, <1>8, <3>3, <3>5, OneConnChanges
  <2>6. CASE /\ ~(~tooLarge(buffer) /\ newlineIndex(buffer) = 0)
             /\ ~(~tooLarge(buffer) /\ newlineIndex(buffer) # 0 /\ accepts(r.kind))
    <3>1. d = [NoConn EXCEPT !.state = "rejected"]
      BY <1>10, <2>1, <2>6 DEF onInitialData
    <3> HIDE DEF d
    <3>2. d \in Connection /\ d.state = "rejected" /\ d.received = <<>>
      BY <3>1, NoConnFacts
    <3>3. StreamInOrder(f)'
      BY <1>7, <3>2, ClosedInOrder
    <3> QED
      BY <1>6, <1>8, <3>2, <3>3, OneConnChanges
  <2> QED
    BY <2>4, <2>5, <2>6
<1>12. CASE c.state = "connecting"
  <2>1. d = r
    BY <1>10, <1>12 DEF onData
  <2>2. c.sent = p /\ c.received = <<>> /\ InOrder(c.buffer \o c.wire, p)
    BY <1>3, <1>12 DEF StreamInOrder, Live
  <2>3. InOrder(c.buffer \o rest, p)
    BY <1>2, <2>2, InOrderWithGap DEF rest
  <2> HIDE DEF d, p
  <2>4. f \in opened'
    BY <1>6, <1>10, <1>12, <2>1
  <2>5. StreamInOrder(f)'
    BY <1>7, <1>9, <1>10, <1>12, <2>1, <2>2, <2>3, <2>4 DEF StreamInOrder, p
  <2> QED
    BY <1>6, <1>8, <1>10, <1>12, <2>1, <2>5, OneConnChanges
<1>13. CASE c.state = "piped"
  <2> DEFINE got == c.received \o chunk
  <2>1. d = [r EXCEPT !.received = got]
    BY <1>10, <1>13 DEF onData
  <2>2. c.sent = p /\ InOrder(c.received \o c.wire, p) /\ f \in opened
    BY <1>3, <1>13 DEF StreamInOrder, Live
  <2>3. got \in Seq(Bytes) /\ got \o rest = c.received \o c.wire
    <3>1. c.received \in Seq(Bytes) /\ chunk \in Seq(Bytes) /\ rest \in Seq(Bytes)
      BY <1>2, <1>5
    <3>2. (c.received \o chunk) \o rest = c.received \o (chunk \o rest)
      BY <3>1, BytesConcat
    <3> QED
      BY <1>5, <3>1, <3>2, BytesConcat
  <2> HIDE DEF d, p, got
  <2>4. /\ d \in Connection /\ d.state = "piped" /\ d.sent = p /\ d.received = got
        /\ d.wire = rest
    BY <1>10, <1>13, <2>1, <2>2, <2>3 DEF Connection
  <2>5. StreamInOrder(f)'
    BY <1>7, <1>8, <1>9, <2>2, <2>3, <2>4 DEF StreamInOrder, p
  <2> QED
    BY <1>6, <1>8, <2>4, <2>5, OneConnChanges
<1> QED
  BY <1>1, <1>11, <1>12, <1>13 DEF Live

\* The host is reached: what was kept behind the frame comes first.
LEMMA HostReached ==
  ASSUME RelayInv, account \in [Friends -> Players], account' = account, NEW f \in Friends,
         hostConnects(f)
  PROVE  RelayInv'
<1> DEFINE c == conns[f]
           p == payload(f)
           d == [c EXCEPT !.state = "piped", !.buffer = <<>>, !.received = c.buffer]
<1>1. c \in Connection /\ c.state = "connecting"
  BY JoinPathAssumption DEF RelayInv, hostConnects
<1>2. /\ StreamInOrder(f) /\ opened \subseteq Callers /\ conns \in [Callers -> Connection]
      /\ f \in Callers
  BY JoinPathAssumption DEF RelayInv, StreamsInOrder, TcpTypeOK
<1>3. conns' = [conns EXCEPT ![f] = d] /\ opened' = opened
  BY <1>2 DEF hostConnects
<1>4. conns'[f] = d
  BY <1>2, <1>3
<1>5. /\ d \in Connection /\ d.state = "piped" /\ d.received = c.buffer /\ d.wire = c.wire
      /\ d.sent = c.sent
  BY <1>1, EmptySeq DEF Connection, Live
<1> HIDE DEF d
<1>6. c.sent = p /\ InOrder(c.buffer \o c.wire, p) /\ f \in opened
  BY <1>1, <1>2 DEF StreamInOrder, Live
<1>7. p' = p
  BY DEF payload
<1> HIDE DEF p
<1>8. StreamInOrder(f)'
  BY <1>3, <1>4, <1>5, <1>6, <1>7 DEF StreamInOrder, p
<1> QED
  BY <1>2, <1>3, <1>5, <1>8, OneConnChanges

\* The connection is closed.
LEMMA StreamOver ==
  ASSUME RelayInv, account' = account, NEW f \in Friends, streamEnds(f)
  PROVE  RelayInv'
<1>1. conns' = [conns EXCEPT ![f] = NoConn] /\ opened' = opened /\ opened \subseteq Callers
  BY DEF streamEnds, RelayInv, TcpTypeOK
<1>2. conns'[f] = NoConn
  BY <1>1, JoinPathAssumption DEF RelayInv
<1>3. StreamInOrder(f)'
  BY <1>2, NoConnFacts, ClosedInOrder
<1> QED
  BY <1>1, <1>3, NoConnFacts, OneConnChanges

\* Connections that are all closed, or as they were.
LEMMA SomeConnsClose ==
  ASSUME RelayInv, account' = account, conns' \in [Callers -> Connection],
         \A f \in Callers :
           conns'[f] = NoConn \/ (conns'[f] = conns[f] /\ opened' = opened),
         opened' \subseteq Callers
  PROVE  RelayInv'
<1>1. ASSUME NEW f \in Friends
      PROVE  StreamInOrder(f)'
  <2>1. CASE conns'[f] = NoConn
    BY <2>1, NoConnFacts, ClosedInOrder
  <2>2. CASE conns'[f] = conns[f] /\ opened' = opened
    <3>1. StreamInOrder(f) /\ payload(f)' = payload(f)
      BY DEF RelayInv, StreamsInOrder, payload
    <3> QED
      BY <2>2, <3>1 DEF StreamInOrder
  <2> QED
    BY <2>1, <2>2, JoinPathAssumption
<1>2. TcpTypeOK'
  <2>1. ASSUME NEW f \in Callers
        PROVE  /\ conns'[f].state \in Live \cup {"none", "rejected"}
               /\ conns'[f].kind \in Kinds
               /\ conns'[f].state = "framing" => Len(conns'[f].buffer) <= MaxOpenFrame
    <3>1. conns'[f] \in Connection
      OBVIOUS
    <3> QED
      BY <3>1, NoConnFacts DEF RelayInv, TcpTypeOK, Connection
  <2> QED
    BY <2>1 DEF TcpTypeOK
<1> QED
  BY <1>1, <1>2 DEF RelayInv, StreamsInOrder

-----------------------------------------------------------------------------
(* The bridge.                                                             *)

\* A decision adds to the approved players or leaves them, since only a pending
\* player, who is not among them, can be blocked.
LEMMA DecisionKeepsBridge ==
  ASSUME BridgeInv, NEW p \in Players, NEW d \in {"approved", "denied", "blocked"},
         applyApprovalDecision(p, d)
  PROVE  BridgeInv' /\ approved \subseteq approved'
<1>1. /\ p \in pending /\ p \notin approved /\ p \notin blocked /\ Len(writes) < MaxWrites
      /\ pending' = pending \ {p} /\ UNCHANGED <<controlPlaneOnline, whitelist>>
  BY DEF applyApprovalDecision, decided, BridgeInv, WhitelistFollows
<1>2. /\ approved' = IF d = "approved" THEN approved \cup {p} ELSE approved
      /\ blocked' = IF d = "approved" THEN blocked \ {p}
                    ELSE IF d = "blocked" THEN blocked \cup {p} ELSE blocked
  BY <1>1 DEF applyApprovalDecision
<1>3. /\ approved \subseteq Players /\ blocked \subseteq Players /\ pending \subseteq Players
      /\ controlPlaneOnline \in BOOLEAN /\ whitelist \subseteq Players
      /\ writes \in Seq(SUBSET Players) /\ whitelist \subseteq approved
      /\ \A i \in DOMAIN writes : writes[i] \subseteq approved
      /\ writes # <<>> => writes[Len(writes)] = approved
      /\ pending \cap (approved \cup blocked) = {}
      /\ writes = <<>> => whitelist = approved
      /\ Len(writes) <= MaxWrites
  BY DEF BridgeInv, BridgeTypeOK, WhitelistFollows, PayloadsFollow
<1>4. /\ approved \subseteq approved' /\ approved' \subseteq Players
      /\ blocked' \subseteq Players /\ pending' \subseteq Players
      /\ pending' \cap (approved' \cup blocked') = {}
  BY <1>1, <1>2, <1>3
<1>5. CASE d = "denied"
  <2>1. writes' = writes /\ approved' = approved
    BY <1>2, <1>5 DEF applyApprovalDecision
  <2>2. BridgeTypeOK'
    BY <1>1, <1>3, <1>4, <2>1 DEF BridgeInv, BridgeTypeOK
  <2> QED
    BY <1>1, <1>3, <1>4, <2>1, <2>2 DEF BridgeInv, WhitelistFollows, PayloadsFollow
<1>6. CASE d # "denied"
  <2>1. writes' = Append(writes, approved')
    BY <1>6 DEF applyApprovalDecision, createAllowlistPersistence
  <2>2. approved' \in SUBSET Players
    BY <1>4
  <2>3. /\ writes' \in Seq(SUBSET Players) /\ writes' # <<>> /\ Len(writes') = Len(writes) + 1
        /\ \A i \in 1..Len(writes) : writes'[i] = writes[i]
        /\ writes'[Len(writes) + 1] = approved'
    BY <1>3, <2>1, <2>2, AppendProperties
  <2>4. Len(writes) \in Nat /\ DOMAIN writes = 1..Len(writes) /\ DOMAIN writes' = 1..Len(writes')
    BY <1>3, <2>3, LenProperties
  <2>5. \A i \in DOMAIN writes' : writes'[i] \subseteq approved' /\ writes'[i] \subseteq Players
    BY <1>3, <1>4, <2>3, <2>4
  <2>6. Len(writes') <= MaxWrites
    BY <1>1, <2>3, <2>4, BridgeAssumption
  <2>7. BridgeTypeOK'
    BY <1>1, <1>3, <1>4, <2>5, <2>6 DEF BridgeTypeOK
  <2> QED
    BY <1>1, <1>3, <1>4, <2>3, <2>5, <2>7 DEF BridgeInv, WhitelistFollows, PayloadsFollow
<1> QED
  BY <1>4, <1>5, <1>6

\* The adapter writes its payloads in their order.
LEMMA WriteKeepsBridge ==
  ASSUME BridgeInv, whitelistWritten
  PROVE  BridgeInv' /\ approved' = approved
<1>1. /\ writes # <<>> /\ whitelist' = Head(writes) /\ writes' = Tail(writes)
      /\ UNCHANGED <<approved, blocked, pending, controlPlaneOnline>>
  BY DEF whitelistWritten
<1>2. /\ writes \in Seq(SUBSET Players) /\ approved \subseteq Players /\ blocked \subseteq Players
      /\ pending \subseteq Players /\ controlPlaneOnline \in BOOLEAN
      /\ \A i \in DOMAIN writes : writes[i] \subseteq approved
      /\ writes[Len(writes)] = approved /\ pending \cap (approved \cup blocked) = {}
      /\ Len(writes) <= MaxWrites
  BY <1>1 DEF BridgeInv, BridgeTypeOK, WhitelistFollows, PayloadsFollow
<1>3. /\ writes' \in Seq(SUBSET Players) /\ Len(writes') = Len(writes) - 1
      /\ \A i \in 1..Len(writes') : writes'[i] = writes[i + 1]
  BY <1>1, <1>2, HeadTailProperties
<1>4. /\ Len(writes) \in Nat /\ Len(writes') \in Nat
      /\ DOMAIN writes = 1..Len(writes) /\ DOMAIN writes' = 1..Len(writes')
  BY <1>2, <1>3, LenProperties
<1>5. Head(writes) = writes[1] /\ Len(writes) >= 1
  BY <1>1, <1>2, <1>3, <1>4
<1>6. \A i \in DOMAIN writes' : writes'[i] \subseteq approved' /\ writes'[i] \subseteq Players
  BY <1>1, <1>2, <1>3, <1>4
<1>7. writes' = <<>> => whitelist' = approved'
  <2>1. writes' = <<>> => Len(writes') = 0
    BY EmptySeq
  <2> QED
    BY <1>1, <1>2, <1>3, <1>4, <1>5, <2>1
<1>8. writes' # <<>> => writes'[Len(writes')] = approved'
  <2>1. writes' # <<>> => Len(writes') \in Nat \ {0}
    BY <1>3, EmptySeq
  <2> QED
    BY <1>1, <1>2, <1>3, <1>4, <2>1
<1>9. whitelist' \subseteq approved' /\ whitelist' \subseteq Players
  BY <1>1, <1>2, <1>4, <1>5
<1>10. Len(writes') <= MaxWrites
  BY <1>2, <1>3, <1>4, BridgeAssumption
<1>11. BridgeTypeOK'
  BY <1>1, <1>2, <1>6, <1>9, <1>10 DEF BridgeTypeOK
<1> QED
  BY <1>1, <1>2, <1>3, <1>6, <1>7, <1>8, <1>9, <1>11
     DEF BridgeInv, WhitelistFollows, PayloadsFollow

\* A restart knows what was written, and loses the rest.
LEMMA RestartKeepsBridge ==
  ASSUME BridgeInv, serverRestarts
  PROVE  BridgeInv'
<1>1. /\ approved' = whitelist /\ blocked' = {} /\ pending' = {} /\ writes' = <<>>
      /\ UNCHANGED <<controlPlaneOnline, whitelist>>
  BY DEF serverRestarts
<1>2. <<>> \in Seq(SUBSET Players) /\ Len(<<>>) = 0 /\ DOMAIN <<>> = 1..0
  BY EmptySeq, LenProperties
<1>3. controlPlaneOnline \in BOOLEAN /\ whitelist \subseteq Players /\ 0 <= MaxWrites
  BY BridgeAssumption DEF BridgeInv, BridgeTypeOK
<1>4. BridgeTypeOK'
  BY <1>1, <1>2, <1>3 DEF BridgeTypeOK
<1> QED
  BY <1>1, <1>2, <1>3, <1>4 DEF BridgeInv, WhitelistFollows, PayloadsFollow

\* A join that the bridge observes makes a stranger pending, and no one else.
LEMMA JoinKeepsBridge ==
  ASSUME BridgeInv, NEW p \in Players, observePlayerJoin(p)
  PROVE  BridgeInv' /\ approved' = approved
<1>1. /\ UNCHANGED <<approved, blocked, controlPlaneOnline, whitelist, writes>>
      /\ pending' = IF joinState(p) = "pending_approval" THEN pending \cup {p} ELSE pending
  BY DEF observePlayerJoin
<1>2. joinState(p) = "pending_approval" => p \notin approved \cup blocked
  <2>1. CASE p \in blocked
    BY <2>1 DEF joinState
  <2>2. CASE p \in approved \ blocked
    BY <2>2 DEF joinState
  <2> QED
    BY <2>1, <2>2
<1>3. pending' \subseteq Players /\ pending' \cap (approved' \cup blocked') = {}
  BY <1>1, <1>2 DEF BridgeInv, BridgeTypeOK, WhitelistFollows
<1>4. BridgeTypeOK'
  BY <1>1, <1>3 DEF BridgeInv, BridgeTypeOK
<1> QED
  BY <1>1, <1>3, <1>4 DEF BridgeInv, WhitelistFollows, PayloadsFollow

\* The bridge left alone.
LEMMA BridgeLeft ==
  ASSUME BridgeInv, UNCHANGED <<approved, blocked, pending, whitelist, writes>>,
         controlPlaneOnline' \in BOOLEAN
  PROVE  BridgeInv'
BY DEF BridgeInv, BridgeTypeOK, WhitelistFollows, PayloadsFollow

\* Only an approved player is allowed.
LEMMA AllowedIsApproved ==
  ASSUME NEW p, joinState(p) = "allowed"
  PROVE  p \in approved
<1>1. CASE p \in blocked
  BY <1>1 DEF joinState
<1>2. CASE p \notin approved \cup blocked
  BY <1>2 DEF joinState
<1> QED
  BY <1>1, <1>2

-----------------------------------------------------------------------------
(* The paths and the games.                                                *)

\* What an accepted offer becomes has its type.
LEMMA OffersKeepTypes ==
  ASSUME CandidatesTypeOK, NEW o \in Offers, NEW age \in 0..CandidateTtl - 1,
         submitCandidate(o, age)
  PROVE  CandidatesTypeOK'
<1> DEFINE c == [offer |-> o, expiresAt |-> now - age + CandidateTtl]
<1>1. /\ now \in Int /\ age \in Int /\ CandidateTtl \in Int /\ MaxTime \in Int
      /\ 0 <= age /\ age <= now /\ now <= MaxTime /\ age < CandidateTtl
  BY CandidatesAssumption DEF CandidatesTypeOK, submitCandidate
<1>2. now - age + CandidateTtl \in 1..MaxTime + CandidateTtl
  BY <1>1
<1>3. c \in [offer : Offers, expiresAt : 1..MaxTime + CandidateTtl]
  BY <1>2
<1>4. candidates' = candidates \cup {c} /\ now' = now /\ path' = path
  BY DEF submitCandidate
<1> HIDE DEF c
<1> QED
  BY <1>3, <1>4 DEF CandidatesTypeOK

\* A join takes one of the paths, and drops the candidates that have expired.
LEMMA SelectionKeepsTypes ==
  ASSUME CandidatesTypeOK, NEW f \in Friends, NEW up \in BOOLEAN, selectTransport(f, up)
  PROVE  CandidatesTypeOK'
<1>1. PICK way \in Paths : path' = [path EXCEPT ![f] = way]
  BY DEF selectTransport, Paths
<1>2. candidates' \subseteq candidates /\ now' = now
  BY DEF selectTransport, activeCandidates
<1> QED
  BY <1>1, <1>2 DEF CandidatesTypeOK

\* So does a direct attempt that is over.
LEMMA ResolutionKeepsTypes ==
  ASSUME CandidatesTypeOK, NEW f \in Friends, NEW outcome, NEW up \in BOOLEAN,
         resolveDirectAttempt(f, outcome, up)
  PROVE  CandidatesTypeOK'
<1>1. resolved(outcome, up) \in Paths
  BY DEF resolved, Paths
<1> QED
  BY <1>1 DEF CandidatesTypeOK, resolveDirectAttempt

\* Whoever stays in the game is still approved.
LEMMA GamesGoOn ==
  ASSUME GamesInv, account' = account, relayUp' \in BOOLEAN, CandidatesTypeOK',
         game' \in [Friends -> Players \cup {Nobody}],
         \A f \in Friends : game'[f] = Nobody \/ game'[f] \in approved'
  PROVE  GamesInv'
BY DEF GamesInv, InGameApproved

\* No one is in another game.
LEMMA SameGames ==
  ASSUME GamesInv, account' = account, relayUp' \in BOOLEAN, CandidatesTypeOK',
         game' = game, approved \subseteq approved'
  PROVE  GamesInv'
BY GamesGoOn DEF GamesInv, InGameApproved

\* The game of a connection ends.
LEMMA HangUpKeepsGames ==
  ASSUME GamesInv, NEW f \in Friends, hangUp(f), UNCHANGED <<now, candidates, relayUp, account>>,
         approved' = approved
  PROVE  GamesInv'
<1>1. CandidatesTypeOK'
  BY DEF GamesInv, CandidatesTypeOK, hangUp, Paths
<1>2. /\ game' \in [Friends -> Players \cup {Nobody}]
      /\ \A g \in Friends : game'[g] = Nobody \/ game'[g] \in approved'
  BY DEF GamesInv, InGameApproved, hangUp
<1> QED
  BY <1>1, <1>2, GamesGoOn DEF GamesInv

-----------------------------------------------------------------------------
(* The invariant holds in every state.                                     *)

\* Nothing is under way, and nobody is approved.
LEMMA InitJoinInv ==
  ASSUME Init
  PROVE  JoinInv
<1>1. /\ conns = [f \in Callers |-> NoConn] /\ opened = {} /\ CandidatesInit /\ BridgeInit
      /\ relayUp = TRUE /\ account \in Accounts /\ game = [f \in Friends |-> Nobody]
  BY DEF Init, TcpInit
<1>2. RelayInv
  <2>1. conns \in [Callers -> Connection]
    BY <1>1, NoConnFacts
  <2>2. TcpTypeOK
    <3>1. \A f \in Callers : conns[f] = NoConn
      BY <1>1
    <3> QED
      BY <1>1, <3>1, NoConnFacts DEF TcpTypeOK, Connection
  <2>3. \A f \in Friends : StreamInOrder(f)
    <3>1. \A f \in Friends : conns[f] = NoConn
      BY <1>1, JoinPathAssumption
    <3> QED
      BY <3>1, NoConnFacts DEF StreamInOrder, Live
  <2> QED
    BY <2>1, <2>2, <2>3 DEF RelayInv, StreamsInOrder
<1>3. BridgeInv
  <2>1. <<>> \in Seq(SUBSET Players) /\ Len(<<>>) = 0 /\ DOMAIN <<>> = 1..0
    BY EmptySeq, LenProperties
  <2>2. 0 <= MaxWrites
    BY BridgeAssumption
  <2> QED
    BY <1>1, <2>1, <2>2
       DEF BridgeInit, BridgeInv, BridgeTypeOK, WhitelistFollows, PayloadsFollow
<1>4. GamesInv
  <2>1. CandidatesTypeOK
    BY <1>1, CandidatesAssumption DEF CandidatesInit, CandidatesTypeOK, Paths
  <2> QED
    BY <1>1, <2>1, JoinPathAssumption DEF GamesInv, InGameApproved
<1> QED
  BY <1>2, <1>3, <1>4 DEF JoinInv

\* A step that only moves candidates and paths.
LEMMA PathsOnly ==
  ASSUME JoinInv, UNCHANGED <<relayVars, bridgeVars, relayUp, account, game>>,
         CandidatesTypeOK'
  PROVE  JoinInv'
<1>1. RelayInv'
  <2>1. \A f \in Friends : StreamInOrder(f) => StreamInOrder(f)'
    BY DEF relayVars, StreamInOrder, payload
  <2> QED
    BY <2>1 DEF JoinInv, RelayInv, StreamsInOrder, TcpTypeOK, relayVars
<1>2. BridgeInv'
  BY BridgeLeft DEF JoinInv, bridgeVars, BridgeInv, BridgeTypeOK
<1>3. GamesInv'
  <2>1. relayUp' \in BOOLEAN /\ approved' = approved
    BY DEF JoinInv, GamesInv, bridgeVars
  <2> QED
    BY <2>1, SameGames DEF JoinInv
<1> QED
  BY <1>1, <1>2, <1>3 DEF JoinInv

\* A step that only moves connections.
LEMMA RelayOnly ==
  ASSUME JoinInv, UNCHANGED <<pathVars, bridgeVars, relayUp, account, game>>, RelayInv'
  PROVE  JoinInv'
<1>1. BridgeInv'
  BY BridgeLeft DEF JoinInv, bridgeVars, BridgeInv, BridgeTypeOK
<1>2. GamesInv'
  <2>1. relayUp' \in BOOLEAN /\ approved' = approved /\ CandidatesTypeOK'
    BY DEF JoinInv, GamesInv, bridgeVars, pathVars, CandidatesTypeOK
  <2> QED
    BY <2>1, SameGames DEF JoinInv
<1> QED
  BY <1>1, <1>2 DEF JoinInv

\* The relay's variables as they are.
LEMMA RelayLeft ==
  ASSUME RelayInv, UNCHANGED <<relayVars, account>>
  PROVE  RelayInv'
<1>1. \A f \in Friends : StreamInOrder(f) => StreamInOrder(f)'
  BY DEF relayVars, StreamInOrder, payload
<1> QED
  BY <1>1 DEF RelayInv, StreamsInOrder, TcpTypeOK, relayVars

\* The server observes a login: the bridge decides, and the game or the end of the
\* connection follows.
LEMMA LoginKeepsInv ==
  ASSUME JoinInv, NEW f \in Friends, login(f)
  PROVE  JoinInv'
<1>1. /\ observePlayerJoin(observed(f)) /\ UNCHANGED <<now, candidates, relayUp, account>>
      /\ observed(f) = account[f] /\ account[f] \in Players
  BY DEF login, observed, JoinInv, GamesInv
<1>2. BridgeInv' /\ approved' = approved
  BY <1>1, JoinKeepsBridge DEF JoinInv
<1>3. CASE joinState(observed(f)) = "allowed"
  <2>1. game' = [game EXCEPT ![f] = account[f]] /\ UNCHANGED <<path, relayVars>>
    BY <1>3 DEF login
  <2>2. account[f] \in approved
    BY <1>1, <1>3, AllowedIsApproved
  <2>3. /\ game' \in [Friends -> Players \cup {Nobody}]
        /\ \A g \in Friends : game'[g] = Nobody \/ game'[g] \in approved'
    BY <1>1, <1>2, <2>1, <2>2 DEF JoinInv, GamesInv, InGameApproved
  <2>4. CandidatesTypeOK' /\ relayUp' \in BOOLEAN
    BY <1>1, <2>1 DEF JoinInv, GamesInv, CandidatesTypeOK
  <2>5. GamesInv'
    BY <1>1, <2>3, <2>4, GamesGoOn DEF JoinInv
  <2>6. RelayInv'
    BY <1>1, <2>1, RelayLeft DEF JoinInv
  <2> QED
    BY <1>2, <2>5, <2>6 DEF JoinInv
<1>4. CASE joinState(observed(f)) # "allowed"
  <2>1. /\ hangUp(f)
        /\ IF path[f] = "connected" THEN UNCHANGED relayVars ELSE streamEnds(f)
    BY <1>4 DEF login
  <2>2. GamesInv'
    BY <1>1, <1>2, <2>1, HangUpKeepsGames DEF JoinInv
  <2>3. RelayInv'
    BY <1>1, <2>1, RelayLeft, StreamOver DEF JoinInv
  <2> QED
    BY <1>2, <2>2, <2>3 DEF JoinInv
<1> QED
  BY <1>3, <1>4

\* The relay's process ends with every connection and every game over it.
LEMMA RelayDownKeepsInv ==
  ASSUME JoinInv, NEW f \in Friends, relayDown(f)
  PROVE  JoinInv'
<1>1. /\ relayRestarts /\ relayUp' = FALSE /\ UNCHANGED <<now, candidates, bridgeVars, account>>
      /\ path' = [g \in Friends |-> IF path[g] = "relay" THEN "none" ELSE path[g]]
      /\ game' = [g \in Friends |-> IF path[g] = "relay" THEN Nobody ELSE game[g]]
  BY DEF relayDown, friendResets
<1>2. RelayInv'
  <2>1. conns' = [g \in Callers |-> NoConn] /\ opened' = {}
    BY <1>1, JoinPathAssumption DEF relayRestarts
  <2>2. /\ conns' \in [Callers -> Connection] /\ opened' \subseteq Callers
        /\ \A g \in Callers : conns'[g] = NoConn
    <3>1. NoConn \in Connection
      BY NoConnFacts
    <3> QED
      BY <2>1, <3>1
  <2>3. account' = account /\ RelayInv
    BY <1>1 DEF JoinInv
  <2> QED
    BY <2>2, <2>3, SomeConnsClose
<1>3. BridgeInv' /\ approved' = approved
  BY <1>1, BridgeLeft DEF JoinInv, bridgeVars, BridgeInv, BridgeTypeOK
<1>4. GamesInv'
  <2>1. CandidatesTypeOK'
    BY <1>1 DEF JoinInv, GamesInv, CandidatesTypeOK, Paths
  <2>2. /\ game' \in [Friends -> Players \cup {Nobody}]
        /\ \A g \in Friends : game'[g] = Nobody \/ game'[g] \in approved'
    BY <1>1, <1>3 DEF JoinInv, GamesInv, InGameApproved
  <2> QED
    BY <1>1, <2>1, <2>2, GamesGoOn DEF JoinInv
<1> QED
  BY <1>2, <1>3, <1>4 DEF JoinInv

\* A restart of the server ends every game and every connection to it.
LEMMA ServerRestartKeepsInv ==
  ASSUME JoinInv, restart
  PROVE  JoinInv'
<1>1. /\ serverRestarts /\ game' = [f \in Friends |-> Nobody]
      /\ path' = [f \in Friends |-> IF path[f] = "connected" THEN "none" ELSE path[f]]
      /\ UNCHANGED <<now, candidates, opened, relayUp, account>>
  BY DEF restart
<1>2. BridgeInv'
  BY <1>1, RestartKeepsBridge DEF JoinInv
<1>3. RelayInv'
  <2>1. conns' = [f \in Callers |-> IF conns[f].state = "piped" THEN NoConn ELSE conns[f]]
    BY JoinPathAssumption DEF restart
  <2>2. /\ conns \in [Callers -> Connection] /\ opened' \subseteq Callers
        /\ NoConn \in Connection
    BY <1>1, NoConnFacts DEF JoinInv, RelayInv, TcpTypeOK
  <2>3. /\ conns' \in [Callers -> Connection]
        /\ \A f \in Callers : conns'[f] = NoConn \/ conns'[f] = conns[f]
    BY <2>1, <2>2
  <2> QED
    BY <1>1, <2>2, <2>3, SomeConnsClose DEF JoinInv
<1>4. GamesInv'
  <2>1. CandidatesTypeOK'
    BY <1>1 DEF JoinInv, GamesInv, CandidatesTypeOK, Paths
  <2> QED
    BY <1>1, <2>1, GamesGoOn DEF JoinInv, GamesInv
<1> QED
  BY <1>2, <1>3, <1>4 DEF JoinInv

\* Every step keeps the invariant.
LEMMA NextJoinInv ==
  ASSUME JoinInv, [Next]_vars
  PROVE  JoinInv'
<1>1. CASE candidate
  <2>1. UNCHANGED <<relayVars, bridgeVars, relayUp, account, game>>
    BY <1>1 DEF candidate
  <2>2. CASE tick
    <3>1. CandidatesTypeOK'
      BY <2>2, CandidatesAssumption DEF tick, JoinInv, GamesInv, CandidatesTypeOK
    <3> QED
      BY <2>1, <3>1, PathsOnly
  <2>3. ASSUME NEW o \in Offers, NEW age \in 0..CandidateTtl - 1, submitCandidate(o, age)
        PROVE  JoinInv'
    BY <2>1, <2>3, OffersKeepTypes, PathsOnly DEF JoinInv, GamesInv
  <2> QED
    BY <1>1, <2>2, <2>3 DEF candidate
<1>2. ASSUME NEW f \in Friends, join(f)
      PROVE  JoinInv'
  BY <1>2, SelectionKeepsTypes, PathsOnly DEF join, JoinInv, GamesInv
<1>3. ASSUME NEW f \in Friends, directOutcome(f)
      PROVE  JoinInv'
  <2>1. PICK outcome \in {"connected", "timeout"} : resolveDirectAttempt(f, outcome, relayUp)
    BY <1>3 DEF directOutcome
  <2>2. CandidatesTypeOK'
    BY <2>1, ResolutionKeepsTypes DEF JoinInv, GamesInv
  <2> QED
    BY <1>3, <2>2, PathsOnly DEF directOutcome
<1>4. ASSUME NEW f \in Friends, dial(f)
      PROVE  JoinInv'
  <2>1. PICK frame \in Frames : friendConnects(f, frame, payload(f))
    BY <1>4 DEF dial
  <2>2. /\ UNCHANGED <<pathVars, bridgeVars, relayUp, account, game>>
        /\ RelayInv /\ account \in [Friends -> Players] /\ account' = account
    BY <1>4 DEF dial, JoinInv, GamesInv
  <2>3. RelayInv'
    BY <2>1, <2>2, Connects
  <2> QED
    BY <2>2, <2>3, RelayOnly
<1>5. ASSUME NEW f \in Friends, stream(f)
      PROVE  JoinInv'
  <2>1. /\ UNCHANGED <<pathVars, bridgeVars, relayUp, account, game>>
        /\ RelayInv /\ account \in [Friends -> Players] /\ account' = account
    BY <1>5 DEF stream, JoinInv, GamesInv
  <2>2. RelayInv'
    BY <1>5, <2>1, Reads, HostReached DEF stream
  <2> QED
    BY <2>1, <2>2, RelayOnly
<1>6. ASSUME NEW f \in Friends, leave(f)
      PROVE  JoinInv'
  <2>1. /\ hangUp(f) /\ (streamEnds(f) \/ UNCHANGED relayVars)
        /\ UNCHANGED <<now, candidates, bridgeVars, relayUp, account>>
    BY <1>6 DEF leave
  <2>2. RelayInv'
    BY <2>1, StreamOver, RelayLeft DEF JoinInv
  <2>3. BridgeInv' /\ approved' = approved
    BY <2>1, BridgeLeft DEF JoinInv, bridgeVars, BridgeInv, BridgeTypeOK
  <2>4. GamesInv'
    BY <2>1, <2>3, HangUpKeepsGames DEF JoinInv
  <2> QED
    BY <2>2, <2>3, <2>4 DEF JoinInv
<1>7. CASE relayComesBack
  <2>1. /\ relayUp' = TRUE /\ UNCHANGED <<pathVars, relayVars, bridgeVars, account, game>>
    BY <1>7 DEF relayComesBack
  <2>2. RelayInv'
    BY <2>1, RelayLeft DEF JoinInv
  <2>3. BridgeInv' /\ approved' = approved
    BY <2>1, BridgeLeft DEF JoinInv, bridgeVars, BridgeInv, BridgeTypeOK
  <2>4. CandidatesTypeOK'
    BY <2>1 DEF JoinInv, GamesInv, CandidatesTypeOK, pathVars
  <2> QED
    BY <2>1, <2>2, <2>3, <2>4, SameGames DEF JoinInv
<1>8. CASE bridge
  <2>1. UNCHANGED <<pathVars, relayVars, relayUp, account, game>>
    BY <1>8 DEF bridge
  <2>2. BridgeInv' /\ approved \subseteq approved'
    <3>1. ASSUME NEW online \in BOOLEAN, setControlPlaneOnline(online)
          PROVE  BridgeInv' /\ approved \subseteq approved'
      BY <3>1, BridgeLeft DEF setControlPlaneOnline, JoinInv
    <3> QED
      BY <1>8, <3>1, DecisionKeepsBridge, WriteKeepsBridge DEF bridge, JoinInv
  <2>3. RelayInv'
    BY <2>1, RelayLeft DEF JoinInv
  <2>4. CandidatesTypeOK' /\ relayUp' \in BOOLEAN
    BY <2>1 DEF JoinInv, GamesInv, CandidatesTypeOK, pathVars
  <2> QED
    BY <2>1, <2>2, <2>3, <2>4, SameGames DEF JoinInv
<1>9. CASE UNCHANGED vars
  <2>1. UNCHANGED <<relayVars, bridgeVars, relayUp, account, game>> /\ UNCHANGED pathVars
    BY <1>9 DEF vars
  <2>2. CandidatesTypeOK'
    BY <2>1 DEF JoinInv, GamesInv, CandidatesTypeOK, pathVars
  <2> QED
    BY <2>1, <2>2, PathsOnly
<1> QED
  BY <1>1, <1>2, <1>3, <1>4, <1>5, <1>6, <1>7, <1>8, <1>9, LoginKeepsInv, RelayDownKeepsInv,
     ServerRestartKeepsInv DEF Next

-----------------------------------------------------------------------------
(* The theorems.                                                           *)

\* The streams, the bridge and the games keep the joint invariant, whatever frames
\* and accounts the friends come with (onInitialData, applyApprovalDecision).
THEOREM JoinInvariant == Spec => []JoinInv
<1>1. Init => JoinInv
  BY InitJoinInv
<1>2. JoinInv /\ [Next]_vars => JoinInv'
  BY NextJoinInv
<1> QED
  BY <1>1, <1>2, PTL DEF Spec

\* Whoever is in the game was approved under the UUID the server observed, through
\* every restart and outage (observePlayerJoin, sessionBindingMatches).
THEOREM ApprovedPlayersOnly == Spec => []PlayersAreApproved
<1>1. JoinInv => PlayersAreApproved
  BY DEF JoinInv, RelayInv, BridgeInv, GamesInv, InGameApproved, PlayersAreApproved, TypeOK
<1> QED
  BY <1>1, JoinInvariant, PTL

\* The whitelist names approved players, catches up with the decisions, and no one
\* on a list is pending again (createAllowlistPersistence, applyApprovalDecision).
THEOREM WhitelistIsFollowed == Spec => []WhitelistFollows
<1>1. JoinInv => WhitelistFollows
  BY DEF JoinInv, BridgeInv
<1> QED
  BY <1>1, JoinInvariant, PTL

\* Where the two bytes of a game are in what was sent.
LEMMA PlacesInPayload ==
  ASSUME NEW p \in Seq(Bytes), Len(p) = 2, p[1] # p[2]
  PROVE  /\ SelectInSeq(p, LAMBDA y : y = p[1]) = 1
         /\ SelectInSeq(p, LAMBDA y : y = p[2]) = 2
<1>1. \A n \in Int : Min({n}) = n
  BY DEF Min
<1>2. {i \in 1..Len(p) : p[i] = p[1]} = {1} /\ {i \in 1..Len(p) : p[i] = p[2]} = {2}
  OBVIOUS
<1>3. Min({1}) = 1 /\ Min({2}) = 2
  BY <1>1
<1>4. SelectInSeq(p, LAMBDA y : y = p[1])
        = IF {i \in 1..Len(p) : p[i] = p[1]} # {} THEN Min({i \in 1..Len(p) : p[i] = p[1]}) ELSE 0
  BY DEF SelectInSeq
<1>5. SelectInSeq(p, LAMBDA y : y = p[2])
        = IF {i \in 1..Len(p) : p[i] = p[2]} # {} THEN Min({i \in 1..Len(p) : p[i] = p[2]}) ELSE 0
  BY DEF SelectInSeq
<1> QED
  BY <1>2, <1>3, <1>4, <1>5

\* The host reads the login before the play and neither twice, and only of a stream
\* the relay has accepted (onInitialData, the pipes).
THEOREM BytesAreInOrder == Spec => []HostReadsInOrder
<1>1. ASSUME JoinInv, NEW f \in Friends
      PROVE  LET at(x) == SelectInSeq(conns[f].sent, LAMBDA y : y = x)
                 got == conns[f].received
             IN /\ got # <<>> => f \in opened
                /\ \A i \in DOMAIN got : at(got[i]) > 0
                /\ \A i, j \in DOMAIN got : i < j => at(got[i]) < at(got[j])
  <2> DEFINE got == conns[f].received
             p == payload(f)
  <2>1. CASE conns[f].state = "piped"
    <3>1. /\ StreamInOrder(f) /\ conns[f] \in Connection
      BY <1>1, JoinPathAssumption DEF JoinInv, RelayInv, StreamsInOrder
    <3>2. /\ conns[f].sent = p /\ f \in opened /\ InOrder(got \o conns[f].wire, p)
          /\ got \in Seq(Bytes) /\ conns[f].wire \in Seq(Bytes)
      BY <2>1, <3>1 DEF StreamInOrder, Connection, Live
    <3>3. p \in Seq(Bytes) /\ Len(p) = 2 /\ p[1] # p[2]
      BY <1>1, PayloadFacts DEF JoinInv, GamesInv
    <3> HIDE DEF p, got
    <3>4. InOrder(got, p)
      BY <3>2, InOrderPrefix
    <3>5. /\ SelectInSeq(p, LAMBDA y : y = p[1]) = 1
          /\ SelectInSeq(p, LAMBDA y : y = p[2]) = 2
      BY <3>3, PlacesInPayload
    <3> DEFINE at(x) == SelectInSeq(p, LAMBDA y : y = x)
    <3>6. at(p[1]) = 1 /\ at(p[2]) = 2
      BY <3>5
    <3> HIDE DEF at
    <3>7. /\ \A i \in DOMAIN got : at(got[i]) > 0
          /\ \A i, j \in DOMAIN got : i < j => at(got[i]) < at(got[j])
      BY <3>4, <3>6 DEF InOrder
    <3> QED
      BY <3>2, <3>7 DEF at, got
  <2>2. CASE conns[f].state # "piped"
    <3>1. got = <<>> /\ DOMAIN got = {}
      BY <1>1, <2>2 DEF JoinInv, RelayInv, StreamsInOrder, StreamInOrder
    <3> QED
      BY <3>1
  <2> QED
    BY <2>1, <2>2
<1>2. JoinInv => HostReadsInOrder
  BY <1>1 DEF HostReadsInOrder
<1> QED
  BY <1>2, JoinInvariant, PTL

\* A join fails only when the relay is not available, and a direct attempt starts
\* only from a safe candidate that has not expired (selectTransport).
THEOREM DirectAttemptsAreSafe == Spec => JoinsDoNotFail
<1> DEFINE Kept(f) ==
             /\ path'[f] = "failed" => path[f] = "failed" \/ ~relayUp
             /\ path'[f] = "direct" /\ path[f] # "direct" =>
                  \E c \in candidates : c.expiresAt > now /\ isSafeDirectCandidate(c)
<1>1. ASSUME JoinInv, Next
      PROVE  \A f \in Friends : Kept(f)
  <2>1. path \in [Friends -> Paths] /\ relayUp \in BOOLEAN
    BY <1>1 DEF JoinInv, GamesInv, CandidatesTypeOK
  <2>2. CASE path' = path
    BY <2>2
  <2>3. ASSUME NEW f \in Friends, path' = [path EXCEPT ![f] = "none"]
        PROVE  \A g \in Friends : Kept(g)
    BY <2>1, <2>3
  <2>4. ASSUME NEW f \in Friends, join(f)
        PROVE  \A g \in Friends : Kept(g)
    <3>1. /\ candidates' = {c \in candidates : c.expiresAt > now}
          /\ path' = [path EXCEPT ![f] =
               CASE \E c \in candidates' : isSafeDirectCandidate(c) -> "direct"
                 [] OTHER -> IF relayUp THEN "relay" ELSE "failed"]
      BY <2>4 DEF join, selectTransport, activeCandidates
    <3>2. \A g \in Friends : g # f => Kept(g)
      BY <2>1, <3>1
    <3>3. Kept(f)
      <4>1. CASE \E c \in candidates' : isSafeDirectCandidate(c)
        <5>1. path'[f] = "direct"
          BY <2>1, <3>1, <4>1
        <5> QED
          BY <3>1, <4>1, <5>1
      <4>2. CASE ~\E c \in candidates' : isSafeDirectCandidate(c)
        <5>1. path'[f] = IF relayUp THEN "relay" ELSE "failed"
          BY <2>1, <3>1, <4>2
        <5> QED
          BY <2>1, <5>1
      <4> QED
        BY <4>1, <4>2
    <3> QED
      BY <3>2, <3>3
  <2>5. ASSUME NEW f \in Friends, directOutcome(f)
        PROVE  \A g \in Friends : Kept(g)
    <3>1. PICK outcome \in {"connected", "timeout"} : resolveDirectAttempt(f, outcome, relayUp)
      BY <2>5 DEF directOutcome
    <3>2. /\ resolved(outcome, relayUp) # "direct"
          /\ resolved(outcome, relayUp) = "failed" => ~relayUp
      BY <2>1 DEF resolved
    <3>3. path' = [path EXCEPT ![f] = resolved(outcome, relayUp)]
      BY <3>1 DEF resolveDirectAttempt
    <3> QED
      BY <2>1, <3>2, <3>3
  <2>6. ASSUME NEW f \in Friends, login(f)
        PROVE  \A g \in Friends : Kept(g)
    <3>1. path' = path \/ path' = [path EXCEPT ![f] = "none"]
      BY <2>6 DEF login, hangUp
    <3> QED
      BY <2>2, <2>3, <3>1
  <2>7. CASE restart
    BY <2>1, <2>7 DEF restart
  <2>8. ASSUME NEW f \in Friends, relayDown(f)
        PROVE  \A g \in Friends : Kept(g)
    BY <2>1, <2>8 DEF relayDown
  <2>9. ASSUME NEW f \in Friends, leave(f)
        PROVE  \A g \in Friends : Kept(g)
    BY <2>3, <2>9 DEF leave, hangUp
  <2>10. candidate \/ bridge \/ relayComesBack => path' = path
    BY DEF candidate, tick, submitCandidate, bridge, relayComesBack, pathVars
  <2>11. \A f \in Friends : dial(f) \/ stream(f) => path' = path
    BY DEF dial, stream, pathVars
  <2> QED
    BY <1>1, <2>2, <2>4, <2>5, <2>6, <2>7, <2>8, <2>9, <2>10, <2>11 DEF Next
<1>2. JoinInv /\ [Next]_vars => [\A f \in Friends : Kept(f)]_vars
  BY <1>1
<1> QED
  BY <1>2, JoinInvariant, PTL DEF Spec, JoinsDoNotFail
=============================================================================
