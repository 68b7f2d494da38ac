--------------------------- MODULE HookWireProofs ---------------------------
(***************************************************************************)
(* Proofs about HookWire, for any buffers, any high-water mark and any     *)
(* number of messages. The parts on the wire are linked: each is followed  *)
(* by the next one of its message, or by the first of the next message; and*)
(* what recv_ has read of a message is what comes just before the head of  *)
(* the wire. So a part without ZMQ_RCVMORE ends what was read.             *)
(***************************************************************************)
EXTENDS HookWire, TLAPS, FiniteSetTheorems

Part == [msg : Nat, idx : Nat, len : Nat, more : BOOLEAN]

\* Part i of message n, when the buffer is buf.
Piece(n, i, buf) == [msg |-> n, idx |-> i, len |-> buf[i], more |-> i < Len(buf)]

\* p is a part of one of the messages sent.
Known(p, sent) ==
  /\ p.msg \in DOMAIN sent
  /\ p.idx \in DOMAIN sent[p.msg]
  /\ p = Piece(p.msg, p.idx, sent[p.msg])

Follows(p, q) ==
  /\ p.more => q.msg = p.msg /\ q.idx = p.idx + 1
  /\ ~p.more => q.msg = p.msg + 1 /\ q.idx = 1

\* Parts of messages sent, linked, to the end of the last message.
Linked(w, sent) ==
  /\ w \in Seq(Part)
  /\ \A i \in DOMAIN w : Known(w[i], sent)
  /\ \A i \in DOMAIN w : i + 1 \in DOMAIN w => Follows(w[i], w[i + 1])
  /\ Len(w) \in DOMAIN w => w[Len(w)].msg = Len(sent) /\ ~w[Len(w)].more

\* The first message that has parts to be read, now or later.
FirstLeft(w, sent) == IF w = <<>> THEN Len(sent) + 1 ELSE Head(w).msg

\* send_ has written the parts before its index.
Written(s, o, sent) ==
  /\ s.pc \in {"idle", "send"}
  /\ s.pc = "idle" => o = <<>>
  /\ s.pc = "send" =>
       /\ s = [pc |-> "send", buf |-> s.buf, idx |-> s.idx]
       /\ s.buf \in Buffers /\ s.idx \in 1..Len(s.buf)
       /\ o \in Seq(Part) /\ Len(o) = s.idx - 1
       /\ \A i \in 1..s.idx - 1 : o[i] = Piece(Len(sent) + 1, i, s.buf)

\* What recv_ has read comes just before the head of the wire.
ReadBefore(t, w, sent) ==
  /\ t = [pc |-> t.pc, buf |-> t.buf]
  /\ t.pc \in {"idle", "recv"} /\ t.buf \in Seq(Part)
  /\ t.pc = "idle" => t.buf = <<>>
  /\ t.pc = "recv" =>
       /\ w # <<>>
       /\ Len(t.buf) < Head(w).idx
       /\ \A i \in 1..Len(t.buf) :
            t.buf[i] = Piece(Head(w).msg, Head(w).idx - Len(t.buf) - 1 + i, sent[Head(w).msg])

\* s is the end of the message of its first part.
IsEnd(s, sent) ==
  /\ s \in Seq(Part) /\ s # <<>>
  /\ s[1].msg \in DOMAIN sent
  /\ Len(s) <= Len(sent[s[1].msg])
  /\ \A i \in 1..Len(s) :
       s[i] = Piece(s[1].msg, Len(sent[s[1].msg]) - Len(s) + i, sent[s[1].msg])

Ends(done, w, sent) ==
  /\ done \in Seq(Seq(Part))
  /\ \A n \in DOMAIN done : IsEnd(done[n], sent) /\ done[n][1].msg < FirstLeft(w, sent)
  /\ \A m, n \in DOMAIN done : m < n => done[m][1].msg < done[n][1].msg

\* Without empty parts, reading starts at the first part of a message and
\* skips none.
Full(sent) == \A n \in DOMAIN sent : 0 \notin ToSet(sent[n])

NoneSkipped(done, t, w, sent) ==
  /\ Len(done) + 1 = FirstLeft(w, sent)
  /\ w # <<>> => Head(w).idx = Len(t.buf) + 1
  /\ \A n \in DOMAIN done : done[n][1].msg = n /\ Len(done[n]) = Len(sent[n])

IInv ==
  /\ accepted \in Seq(Buffers)
  /\ Written(source, open, accepted)
  /\ Linked(wire, accepted)
  /\ ReadBefore(target, wire, accepted)
  /\ Ends(passed, wire, accepted)
  /\ Full(accepted) => NoneSkipped(passed, target, wire, accepted)

-----------------------------------------------------------------------------
LEMMA PieceIsPart ==
  ASSUME NEW n \in Nat, NEW buf \in Seq(Nat), NEW i \in DOMAIN buf
  PROVE  Piece(n, i, buf) \in Part
<1>1. i \in Nat /\ buf[i] \in Nat /\ (i < Len(buf)) \in BOOLEAN
  OBVIOUS
<1> QED BY <1>1 DEF Piece, Part

LEMMA BufferIs ==
  ASSUME NEW buf \in Buffers
  PROVE  /\ buf \in Seq(Nat) /\ Len(buf) \in Nat \ {0} /\ DOMAIN buf = 1..Len(buf)
BY BuffersAssumption

\* One more message sent.
LEMMA SentIs ==
  ASSUME NEW sent \in Seq(Buffers), NEW buf \in Buffers
  PROVE  /\ Append(sent, buf) \in Seq(Buffers)
         /\ Len(Append(sent, buf)) = Len(sent) + 1 /\ Len(sent) \in Nat
         /\ DOMAIN sent = 1..Len(sent) /\ DOMAIN Append(sent, buf) = 1..Len(sent) + 1
         /\ \A n \in DOMAIN sent : n \in DOMAIN Append(sent, buf) /\ Append(sent, buf)[n] = sent[n]
         /\ Append(sent, buf)[Len(sent) + 1] = buf
OBVIOUS

LEMMA KnownIs ==
  ASSUME NEW sent \in Seq(Buffers), NEW p, Known(p, sent)
  PROVE  /\ p.msg \in 1..Len(sent) /\ Len(sent) \in Nat
         /\ sent[p.msg] \in Seq(Nat) /\ Len(sent[p.msg]) \in Nat
         /\ p.idx \in 1..Len(sent[p.msg])
         /\ p.len = sent[p.msg][p.idx]
         /\ p.more <=> p.idx < Len(sent[p.msg])
<1>1. DOMAIN sent = 1..Len(sent) /\ Len(sent) \in Nat /\ p.msg \in DOMAIN sent
  BY DEF Known
<1>2. sent[p.msg] \in Buffers
  BY <1>1
<1>3. sent[p.msg] \in Seq(Nat) /\ Len(sent[p.msg]) \in Nat /\ DOMAIN sent[p.msg] = 1..Len(sent[p.msg])
  BY <1>2, BufferIs
<1>4. p = Piece(p.msg, p.idx, sent[p.msg])
  BY DEF Known
<1>5. p.len = sent[p.msg][p.idx] /\ (p.more <=> p.idx < Len(sent[p.msg]))
  <2> DEFINE q == Piece(p.msg, p.idx, sent[p.msg])
  <2>1. q.len = sent[p.msg][p.idx]
    BY DEF Piece
  <2>2. q.more = (p.idx < Len(sent[p.msg]))
    BY Zenon DEF Piece
  <2>3. p = q
    BY <1>4
  <2> HIDE DEF q
  <2> QED BY <2>1, <2>2, <2>3
<1> QED BY <1>1, <1>3, <1>5 DEF Known

\* The head leaves the wire.
LEMMA TailLinked ==
  ASSUME NEW sent \in Seq(Buffers), NEW w, Linked(w, sent), w # <<>>
  PROVE  /\ Linked(Tail(w), sent)
         /\ Known(Head(w), sent) /\ Head(w) \in Part
         /\ Tail(w) = <<>> => Head(w).msg = Len(sent) /\ ~Head(w).more
         /\ Tail(w) # <<>> => Follows(Head(w), Head(Tail(w))) /\ Known(Head(Tail(w)), sent)
<1> DEFINE rest == Tail(w)
<1>1. w \in Seq(Part)
  BY DEF Linked
<1>2. /\ rest \in Seq(Part) /\ Len(w) \in Nat \ {0} /\ DOMAIN w = 1..Len(w)
      /\ DOMAIN rest = 1..Len(w) - 1 /\ Len(rest) = Len(w) - 1
      /\ Head(w) = w[1] /\ Head(w) \in Part
      /\ \A i \in 1..Len(w) - 1 : rest[i] = w[i + 1]
  BY <1>1
<1> HIDE DEF rest
<1>x. (rest # <<>> => Head(rest) = rest[1]) /\ (rest = <<>> <=> Len(w) = 1)
  <2>1. rest = <<>> <=> Len(rest) = 0
    BY <1>2
  <2> QED BY <1>2, <2>1
<1>3. \A i \in DOMAIN rest : i + 1 \in DOMAIN w /\ rest[i] = w[i + 1]
  BY <1>2
<1>4. \A i \in DOMAIN rest : Known(rest[i], sent)
  BY <1>3 DEF Linked
<1>5. ASSUME NEW i \in DOMAIN rest, i + 1 \in DOMAIN rest PROVE Follows(rest[i], rest[i + 1])
  <2>1. i + 1 \in DOMAIN w /\ (i + 1) + 1 \in DOMAIN w
    BY <1>3, <1>5
  <2>2. Follows(w[i + 1], w[(i + 1) + 1])
    BY <2>1 DEF Linked
  <2> QED BY <1>3, <1>5, <2>2
<1>6. ASSUME Len(rest) \in DOMAIN rest
      PROVE  rest[Len(rest)].msg = Len(sent) /\ ~rest[Len(rest)].more
  <2>1. Len(w) \in DOMAIN w /\ rest[Len(rest)] = w[Len(w)]
    BY <1>2, <1>6
  <2> QED BY <2>1 DEF Linked
<1>7. Linked(rest, sent)
  BY <1>2, <1>4, <1>5, <1>6 DEF Linked
<1>8. 1 \in DOMAIN w /\ Known(Head(w), sent)
  BY <1>2 DEF Linked
<1>9. ASSUME rest = <<>> PROVE Head(w).msg = Len(sent) /\ ~Head(w).more
  <2>1. Len(w) = 1
    BY <1>x, <1>9
  <2>2. Len(w) \in DOMAIN w
    BY <1>2
  <2>3. w[Len(w)].msg = Len(sent) /\ ~w[Len(w)].more
    BY <2>2 DEF Linked
  <2> QED BY <1>2, <2>1, <2>3
<1>10. ASSUME rest # <<>> PROVE Follows(Head(w), Head(rest)) /\ Known(Head(rest), sent)
  <2>1. 1 \in DOMAIN rest /\ Head(rest) = w[1 + 1] /\ 1 + 1 \in DOMAIN w
    BY <1>2, <1>3, <1>x, <1>10
  <2>2. Follows(w[1], w[1 + 1])
    BY <1>8, <2>1 DEF Linked
  <2> QED BY <1>2, <1>4, <2>1, <2>2
<1> QED BY <1>2, <1>7, <1>8, <1>9, <1>10 DEF rest

\* The parts of a whole message join the wire.
LEMMA HandedLinked ==
  ASSUME NEW sent \in Seq(Buffers), NEW w, Linked(w, sent), NEW buf \in Buffers,
         NEW parts \in Seq(Part), Len(parts) = Len(buf),
         \A i \in 1..Len(buf) : parts[i] = Piece(Len(sent) + 1, i, buf)
  PROVE  /\ Linked(w \o parts, Append(sent, buf))
         /\ w \o parts # <<>>
         /\ w # <<>> => Head(w \o parts) = Head(w)
         /\ w = <<>> => Head(w \o parts).msg = Len(sent) + 1 /\ Head(w \o parts).idx = 1
<1> DEFINE all == w \o parts
           now == Append(sent, buf)
           l   == Len(w)
<1>1. w \in Seq(Part)
  BY DEF Linked
<1>2. Len(buf) \in Nat \ {0} /\ DOMAIN buf = 1..Len(buf) /\ DOMAIN parts = 1..Len(buf)
  BY BufferIs
<1>3. /\ all \in Seq(Part) /\ l \in Nat /\ DOMAIN w = 1..l
      /\ Len(all) = l + Len(buf) /\ DOMAIN all = 1..l + Len(buf)
      /\ w # <<>> <=> l > 0
      /\ w # <<>> => Head(w) = w[1]
      /\ \A i \in 1..l : all[i] = w[i]
      /\ \A i \in 1..Len(buf) : all[l + i] = parts[i]
      /\ all # <<>> => Head(all) = all[1]
      /\ all # <<>> <=> Len(all) > 0
  BY <1>1, <1>2
<1>4. /\ Len(now) = Len(sent) + 1 /\ Len(sent) \in Nat
      /\ DOMAIN sent = 1..Len(sent) /\ DOMAIN now = 1..Len(sent) + 1
      /\ \A n \in DOMAIN sent : n \in DOMAIN now /\ now[n] = sent[n]
      /\ now[Len(sent) + 1] = buf
  BY SentIs
<1> HIDE DEF all, now, l
<1>5. \A i \in 1..Len(buf) : all[l + i] = Piece(Len(sent) + 1, i, buf)
  BY <1>3
<1>6. \A i \in 1..Len(buf) :
        /\ all[l + i].msg = Len(sent) + 1 /\ all[l + i].idx = i
        /\ all[l + i].more <=> i < Len(buf)
  <2> SUFFICES ASSUME NEW i \in 1..Len(buf)
               PROVE  /\ all[l + i].msg = Len(sent) + 1 /\ all[l + i].idx = i
                      /\ all[l + i].more <=> i < Len(buf)
    OBVIOUS
  <2> DEFINE q == Piece(Len(sent) + 1, i, buf)
  <2>1. q.msg = Len(sent) + 1 /\ q.idx = i
    BY DEF Piece
  <2>2. q.more = (i < Len(buf))
    BY Zenon DEF Piece
  <2>3. all[l + i] = q
    BY <1>5
  <2> HIDE DEF q
  <2> QED BY <2>1, <2>2, <2>3
<1>7. \A i \in DOMAIN all : i \in 1..l \/ \E k \in 1..Len(buf) : i = l + k
  <2>1. ASSUME NEW i \in DOMAIN all, i \notin 1..l PROVE i - l \in 1..Len(buf) /\ i = l + (i - l)
    BY <1>2, <1>3, <2>1
  <2> QED BY <2>1
<1>8. ASSUME NEW i \in DOMAIN all PROVE Known(all[i], now)
  <2>1. CASE i \in 1..l
    BY <1>3, <1>4, <2>1 DEF Linked, Known
  <2>2. ASSUME NEW k \in 1..Len(buf), i = l + k PROVE Known(all[i], now)
    BY <1>2, <1>4, <1>5, <1>6, <2>2 DEF Known
  <2> QED BY <1>7, <2>1, <2>2
<1>9. ASSUME NEW i \in DOMAIN all, i + 1 \in DOMAIN all PROVE Follows(all[i], all[i + 1])
  <2>1. CASE i \in 1..l /\ i < l
    <3>1. i \in DOMAIN w /\ i + 1 \in DOMAIN w /\ i + 1 \in 1..l
      BY <1>3, <2>1
    <3> QED BY <1>3, <2>1, <3>1 DEF Linked
  <2>2. CASE i = l
    <3>1. l \in DOMAIN w
      BY <1>3, <1>9, <2>2
    <3>2. all[i].msg = Len(sent) /\ ~all[i].more
      BY <1>3, <2>2, <3>1 DEF Linked, l
    <3>3. all[i + 1].msg = Len(sent) + 1 /\ all[i + 1].idx = 1
      BY <1>2, <1>6, <2>2
    <3> QED BY <1>4, <3>2, <3>3 DEF Follows
  <2>3. ASSUME NEW k \in 1..Len(buf), i = l + k PROVE Follows(all[i], all[i + 1])
    <3>1. k + 1 \in 1..Len(buf) /\ i + 1 = l + (k + 1) /\ k < Len(buf)
      BY <1>2, <1>3, <1>9, <2>3
    <3>2. all[i].msg = Len(sent) + 1 /\ all[i].idx = k /\ all[i].more
      BY <1>6, <2>3, <3>1
    <3>3. all[i + 1].msg = Len(sent) + 1 /\ all[i + 1].idx = k + 1
      BY <1>6, <3>1
    <3> QED BY <3>2, <3>3 DEF Follows
  <2>4. i \in 1..l => i < l \/ i = l
    BY <1>3
  <2> QED BY <1>7, <2>1, <2>2, <2>3, <2>4
<1>10. all[Len(all)].msg = Len(now) /\ ~all[Len(all)].more
  <2>1. Len(buf) \in 1..Len(buf) /\ ~(Len(buf) < Len(buf))
    BY <1>2
  <2> QED BY <1>3, <1>4, <1>6, <2>1
<1>11. Linked(all, now)
  BY <1>3, <1>8, <1>9, <1>10 DEF Linked
<1>12. all # <<>> /\ Head(all) = all[1]
  BY <1>2, <1>3
<1>13. w # <<>> => Head(all) = Head(w)
  BY <1>3, <1>12
<1>14. w = <<>> => Head(all).msg = Len(sent) + 1 /\ Head(all).idx = 1
  <2>1. ASSUME w = <<>> PROVE l + 1 = 1 /\ 1 \in 1..Len(buf)
    BY <1>2, <1>3, <2>1
  <2> QED BY <1>6, <1>12, <2>1
<1> QED BY <1>11, <1>12, <1>13, <1>14 DEF all, now

\* The reading of a part brings the next one of its message to the head, or
\* the first of the next message.
LEMMA FirstLeftIs ==
  ASSUME NEW sent \in Seq(Buffers), NEW w, Linked(w, sent), w # <<>>
  PROVE  /\ FirstLeft(w, sent) = Head(w).msg
         /\ Head(w).more => /\ Tail(w) # <<>> /\ FirstLeft(Tail(w), sent) = Head(w).msg
                            /\ Head(Tail(w)).msg = Head(w).msg
                            /\ Head(Tail(w)).idx = Head(w).idx + 1
         /\ ~Head(w).more => /\ FirstLeft(Tail(w), sent) = Head(w).msg + 1
                             /\ Tail(w) # <<>> => Head(Tail(w)).idx = 1
<1> DEFINE rest == Tail(w)
           head == Head(w)
<1>1. /\ rest = <<>> => head.msg = Len(sent) /\ ~head.more
      /\ rest # <<>> => Follows(head, Head(rest))
  BY TailLinked
<1>2. FirstLeft(w, sent) = head.msg
  BY DEF FirstLeft
<1> HIDE DEF rest, head
<1>3. ASSUME head.more
      PROVE  /\ rest # <<>> /\ FirstLeft(rest, sent) = head.msg
             /\ Head(rest).msg = head.msg /\ Head(rest).idx = head.idx + 1
  BY <1>1, <1>3 DEF FirstLeft, Follows
<1>4. ASSUME ~head.more
      PROVE  FirstLeft(rest, sent) = head.msg + 1 /\ (rest # <<>> => Head(rest).idx = 1)
  BY <1>1, <1>4 DEF FirstLeft, Follows
<1> QED BY <1>2, <1>3, <1>4 DEF rest, head

\* A buffer that recv_ gives back is the end of a message.
LEMMA ReadIsEnd ==
  ASSUME NEW sent \in Seq(Buffers), NEW w, Linked(w, sent), w # <<>>,
         NEW t, ReadBefore(t, w, sent), t.pc = "recv", ~Head(w).more
  PROVE  LET s == Append(t.buf, Head(w))
         IN  /\ IsEnd(s, sent) /\ s[1].msg = Head(w).msg
             /\ Len(s) = Len(t.buf) + 1 /\ Head(w).idx = Len(sent[Head(w).msg])
<1> DEFINE head == Head(w)
           s    == Append(t.buf, head)
           k    == Len(t.buf)
           buf  == sent[head.msg]
<1>1. Known(head, sent) /\ head \in Part
  BY TailLinked
<1>2. /\ head.msg \in DOMAIN sent /\ Len(buf) \in Nat /\ head.idx \in 1..Len(buf)
      /\ head.more <=> head.idx < Len(buf)
  BY <1>1, KnownIs DEF Known
<1>3. head.idx = Len(buf)
  BY <1>2
<1>4. /\ t.buf \in Seq(Part) /\ k < head.idx
      /\ \A i \in 1..k : t.buf[i] = Piece(head.msg, head.idx - k - 1 + i, buf)
  BY DEF ReadBefore
<1>5. /\ s \in Seq(Part) /\ k \in Nat /\ Len(s) = k + 1
      /\ s[k + 1] = head
      /\ \A i \in 1..k : s[i] = t.buf[i]
  BY <1>1, <1>4
<1>6. head = Piece(head.msg, head.idx, buf)
  BY <1>1 DEF Known
<1> HIDE DEF head, s, k, buf
<1>7. ASSUME NEW i \in 1..k + 1 PROVE s[i] = Piece(head.msg, Len(buf) - (k + 1) + i, buf)
  <2>1. CASE i \in 1..k
    <3>1. s[i] = Piece(head.msg, head.idx - k - 1 + i, buf)
      BY <1>4, <1>5, <2>1
    <3>2. head.idx - k - 1 + i = Len(buf) - (k + 1) + i
      BY <1>2, <1>3, <1>5
    <3> QED BY <3>1, <3>2
  <2>2. CASE i = k + 1
    <3>1. Len(buf) - (k + 1) + i = head.idx
      BY <1>2, <1>3, <1>5, <2>2
    <3> QED BY <1>5, <1>6, <2>2, <3>1
  <2>3. i \in 1..k \/ i = k + 1
    BY <1>5
  <2> QED BY <2>1, <2>2, <2>3
<1>8. s[1].msg = head.msg
  <2>1. s[1] = Piece(head.msg, Len(buf) - (k + 1) + 1, buf)
    BY <1>5, <1>7
  <2> QED BY <2>1 DEF Piece
<1>9. s # <<>> /\ Len(s) <= Len(buf)
  BY <1>2, <1>3, <1>4, <1>5
<1>10. IsEnd(s, sent)
  BY <1>2, <1>5, <1>7, <1>8, <1>9 DEF IsEnd, buf
<1> QED BY <1>3, <1>5, <1>8, <1>10 DEF head, s, k, buf

-----------------------------------------------------------------------------
\* The message whose last part send_ writes.
LEMMA LastPart ==
  ASSUME IInv, source.pc = "send", source.idx = Len(source.buf), SendPart
  PROVE  IInv' /\ FirstLeft(wire', accepted') = FirstLeft(wire, accepted)
<1> DEFINE buf   == source.buf
           n     == Len(accepted)
           part  == [msg |-> n + 1, idx |-> source.idx, len |-> buf[source.idx], more |-> ~TRUE]
           parts == Append(open, part)
           now   == Append(accepted, buf)
<1>1. /\ accepted \in Seq(Buffers) /\ Linked(wire, accepted)
      /\ buf \in Buffers /\ open \in Seq(Part) /\ Len(open) = source.idx - 1
      /\ \A i \in 1..source.idx - 1 : open[i] = Piece(n + 1, i, buf)
  BY DEF IInv, Written
<1>2. buf \in Seq(Nat) /\ Len(buf) \in Nat \ {0} /\ DOMAIN buf = 1..Len(buf) /\ n \in Nat
  BY <1>1, BufferIs
<1>3. /\ wire' = wire \o parts /\ open' = <<>> /\ source' = Idle /\ accepted' = now
      /\ target' = target /\ passed' = passed
  BY DEF SendPart
<1>4. part = Piece(n + 1, Len(buf), buf)
  <2>1. (Len(buf) < Len(buf)) = FALSE
    BY <1>2
  <2> QED BY <2>1 DEF Piece
<1>5. part \in Part
  BY <1>2, <1>4, PieceIsPart
<1> HIDE DEF part
<1>6. /\ parts \in Seq(Part) /\ Len(parts) = Len(buf)
      /\ \A i \in 1..Len(buf) : parts[i] = Piece(n + 1, i, buf)
  <2>1. /\ parts \in Seq(Part) /\ Len(parts) = Len(open) + 1
        /\ \A i \in 1..Len(open) : parts[i] = open[i]
        /\ parts[Len(open) + 1] = part
    BY <1>1, <1>5
  <2>2. Len(open) + 1 = Len(buf) /\ Len(open) = Len(buf) - 1
    BY <1>1, <1>2
  <2>3. \A i \in 1..Len(buf) : i \in 1..Len(buf) - 1 \/ i = Len(buf)
    BY <1>2
  <2> QED BY <1>1, <1>4, <2>1, <2>2, <2>3
<1> DEFINE all == wire \o parts
<1>7. /\ Linked(all, now) /\ all # <<>>
      /\ wire # <<>> => Head(all) = Head(wire)
      /\ wire = <<>> => Head(all).msg = n + 1 /\ Head(all).idx = 1
  BY <1>1, <1>6, HandedLinked
<1>8. /\ now \in Seq(Buffers) /\ Len(now) = n + 1
      /\ DOMAIN accepted \subseteq DOMAIN now
      /\ \A k \in DOMAIN accepted : now[k] = accepted[k]
  BY <1>1, SentIs
<1>9. wire # <<>> => Head(wire).msg \in DOMAIN accepted
  BY <1>1, TailLinked DEF Known
<1> HIDE DEF buf, n, parts, now, all
<1>10. FirstLeft(all, now) = FirstLeft(wire, accepted)
  BY <1>7 DEF FirstLeft, n
<1>11. ReadBefore(target, all, now)
  <2>1. ReadBefore(target, wire, accepted)
    BY DEF IInv
  <2>2. CASE target.pc = "idle"
    BY <2>1, <2>2 DEF ReadBefore
  <2>3. CASE target.pc = "recv"
    <3>1. wire # <<>>
      BY <2>1, <2>3 DEF ReadBefore
    <3>2. Head(all) = Head(wire) /\ now[Head(wire).msg] = accepted[Head(wire).msg]
      BY <1>7, <1>8, <1>9, <3>1
    <3> QED BY <1>7, <2>1, <2>3, <3>2 DEF ReadBefore
  <2> QED BY <2>1, <2>2, <2>3 DEF ReadBefore
<1>12. Ends(passed, all, now)
  <2>1. Ends(passed, wire, accepted)
    BY DEF IInv
  <2>2. ASSUME NEW k \in DOMAIN passed PROVE IsEnd(passed[k], now)
    <3>1. IsEnd(passed[k], accepted)
      BY <2>1 DEF Ends
    <3>2. passed[k][1].msg \in DOMAIN now
          /\ now[passed[k][1].msg] = accepted[passed[k][1].msg]
      BY <1>8, <3>1 DEF IsEnd
    <3> QED BY <3>1, <3>2 DEF IsEnd
  <2> QED BY <1>10, <2>1, <2>2 DEF Ends
<1>13. ASSUME Full(now) PROVE NoneSkipped(passed, target, all, now)
  <2>1. Full(accepted)
    BY <1>8, <1>13 DEF Full
  <2>2. NoneSkipped(passed, target, wire, accepted)
    BY <2>1 DEF IInv
  <2>3. ASSUME NEW k \in DOMAIN passed PROVE now[k] = accepted[k]
    <3>1. IsEnd(passed[k], accepted) /\ passed[k][1].msg = k
      BY <2>2 DEF IInv, Ends, NoneSkipped
    <3> QED BY <1>8, <3>1 DEF IsEnd
  <2>4. Head(all).idx = Len(target.buf) + 1
    <3>1. CASE wire # <<>>
      BY <1>7, <2>2, <3>1 DEF NoneSkipped
    <3>2. CASE wire = <<>>
      <4>1. target.buf = <<>>
        BY <3>2 DEF IInv, ReadBefore
      <4> QED BY <1>7, <3>2, <4>1
    <3> QED BY <3>1, <3>2
  <2> QED BY <1>10, <2>2, <2>3, <2>4 DEF NoneSkipped
<1>14. Written(Idle, <<>>, now)
  BY DEF Written, Idle
<1>15. /\ accepted' = now /\ wire' = all /\ open' = <<>> /\ source' = Idle
       /\ target' = target /\ passed' = passed
  BY <1>3 DEF all, parts, now, n, buf
<1> QED BY <1>7, <1>8, <1>10, <1>11, <1>12, <1>13, <1>14, <1>15 DEF IInv

\* The parts before it stay with libzmq.
LEMMA EarlierPart ==
  ASSUME IInv, source.pc = "send", source.idx # Len(source.buf), SendPart
  PROVE  IInv'
<1> DEFINE buf   == source.buf
           i     == source.idx
           n     == Len(accepted)
           part  == [msg |-> n + 1, idx |-> i, len |-> buf[i], more |-> ~FALSE]
           parts == Append(open, part)
<1>1. /\ buf \in Buffers /\ i \in 1..Len(buf) /\ open \in Seq(Part) /\ Len(open) = i - 1
      /\ \A k \in 1..i - 1 : open[k] = Piece(n + 1, k, buf)
      /\ source = [pc |-> "send", buf |-> buf, idx |-> i]
      /\ accepted \in Seq(Buffers)
  BY DEF IInv, Written
<1>2. buf \in Seq(Nat) /\ Len(buf) \in Nat \ {0} /\ DOMAIN buf = 1..Len(buf) /\ n \in Nat
  BY <1>1, BufferIs
<1>3. /\ open' = parts /\ source' = [source EXCEPT !.idx = i + 1]
      /\ UNCHANGED <<wire, accepted, target, passed>>
  BY DEF SendPart
<1>4. i < Len(buf) /\ i + 1 \in 1..Len(buf) /\ i \in Nat \ {0}
  BY <1>1, <1>2
<1>5. part = Piece(n + 1, i, buf)
  <2>1. (i < Len(buf)) = TRUE
    BY <1>4
  <2> QED BY <2>1 DEF Piece
<1>6. part \in Part
  <2>1. i \in DOMAIN buf /\ n + 1 \in Nat
    BY <1>1, <1>2
  <2>2. Piece(n + 1, i, buf) \in Part
    BY <1>2, <2>1, PieceIsPart
  <2> QED BY <1>5, <2>2
<1>7. source' = [pc |-> "send", buf |-> buf, idx |-> i + 1]
  BY <1>1, <1>3
<1> HIDE DEF part
<1>8. /\ parts \in Seq(Part) /\ Len(parts) = Len(open) + 1
      /\ \A k \in 1..Len(open) : parts[k] = open[k]
      /\ parts[Len(open) + 1] = part
  BY <1>1, <1>6
<1> HIDE DEF buf, i, n, parts
<1>9. Len(parts) = i /\ \A k \in 1..i : parts[k] = Piece(n + 1, k, buf)
  <2>1. Len(open) = i - 1 /\ Len(open) + 1 = i
    BY <1>1, <1>4
  <2>2. \A k \in 1..i : k \in 1..i - 1 \/ k = i
    BY <1>4
  <2> QED BY <1>1, <1>5, <1>8, <2>1, <2>2
<1>10. Written([pc |-> "send", buf |-> buf, idx |-> i + 1], parts, accepted)
  <2>1. (i + 1) - 1 = i
    BY <1>4
  <2> QED BY <1>1, <1>4, <1>8, <1>9, <2>1 DEF Written, n
<1> QED BY <1>3, <1>7, <1>10 DEF IInv

\* An empty part has been read, and what came before it is forgotten.
LEMMA EmptyPart == ASSUME IInv, RecvFails PROVE IInv'
<1>1. wire # <<>> /\ target.pc = "recv"
  BY DEF RecvFails, IInv, ReadBefore
<1>2. /\ Head(wire).len = 0 /\ wire' = Tail(wire) /\ target' = [pc |-> "idle", buf |-> <<>>]
      /\ UNCHANGED <<source, open, accepted, passed>>
  BY <1>1 DEF RecvFails
<1>3. accepted \in Seq(Buffers) /\ Linked(wire, accepted)
  BY DEF IInv
<1>4. Linked(Tail(wire), accepted) /\ Known(Head(wire), accepted)
  BY <1>1, <1>3, TailLinked
<1>5. /\ Head(wire).msg \in Nat
      /\ FirstLeft(Tail(wire), accepted) = Head(wire).msg \/ FirstLeft(Tail(wire), accepted) = Head(wire).msg + 1
      /\ FirstLeft(wire, accepted) = Head(wire).msg
  <2>1. Head(wire).msg \in 1..Len(accepted) /\ Len(accepted) \in Nat
    BY <1>3, <1>4, KnownIs
  <2>2. /\ FirstLeft(wire, accepted) = Head(wire).msg
        /\ Head(wire).more => FirstLeft(Tail(wire), accepted) = Head(wire).msg
        /\ ~Head(wire).more => FirstLeft(Tail(wire), accepted) = Head(wire).msg + 1
    BY <1>1, <1>3, FirstLeftIs
  <2> QED BY <2>1, <2>2
<1>6. Ends(passed, Tail(wire), accepted)
  <2>1. Ends(passed, wire, accepted)
    BY DEF IInv
  <2>2. ASSUME NEW n \in DOMAIN passed PROVE passed[n][1].msg < FirstLeft(Tail(wire), accepted)
    <3>1. passed[n][1].msg \in Nat /\ passed[n][1].msg < Head(wire).msg
      BY <1>3, <1>5, <2>1 DEF Ends, IsEnd
    <3> QED BY <1>5, <3>1
  <2> QED BY <2>1, <2>2 DEF Ends
<1>7. ~Full(accepted)
  <2>1. /\ Head(wire).msg \in DOMAIN accepted /\ Head(wire).idx \in DOMAIN accepted[Head(wire).msg]
        /\ accepted[Head(wire).msg][Head(wire).idx] = 0
    BY <1>2, <1>3, <1>4, KnownIs DEF Known
  <2> QED BY <2>1 DEF Full, ToSet
<1>8. ReadBefore([pc |-> "idle", buf |-> <<>>], Tail(wire), accepted)
  BY DEF ReadBefore
<1> QED BY <1>2, <1>4, <1>6, <1>7, <1>8 DEF IInv

LEMMA PartRead == ASSUME IInv, RecvPart PROVE IInv'
<1> DEFINE head == Head(wire)
           rest == Tail(wire)
           s    == Append(target.buf, head)
<1>1. wire # <<>> /\ target.pc = "recv"
  BY DEF RecvPart
<1>2. wire' = rest /\ UNCHANGED <<source, open, accepted>>
  BY DEF RecvPart
<1>3. /\ accepted \in Seq(Buffers) /\ Linked(wire, accepted) /\ ReadBefore(target, wire, accepted)
      /\ Ends(passed, wire, accepted) /\ Written(source, open, accepted)
      /\ Full(accepted) => NoneSkipped(passed, target, wire, accepted)
  BY DEF IInv
<1>4. Linked(rest, accepted) /\ Known(head, accepted) /\ head \in Part
  BY <1>1, <1>3, TailLinked
<1>5. /\ FirstLeft(wire, accepted) = head.msg
      /\ head.more => /\ rest # <<>> /\ FirstLeft(rest, accepted) = head.msg
                      /\ Head(rest).msg = head.msg /\ Head(rest).idx = head.idx + 1
      /\ ~head.more => /\ FirstLeft(rest, accepted) = head.msg + 1
                       /\ rest # <<>> => Head(rest).idx = 1
  BY <1>1, <1>3, FirstLeftIs
<1>6. head.msg \in Nat /\ head.idx \in Nat /\ head.more \in BOOLEAN
      /\ head = Piece(head.msg, head.idx, accepted[head.msg])
  BY <1>4 DEF Part, Known
<1>7. /\ target = [pc |-> "recv", buf |-> target.buf] /\ target.buf \in Seq(Part)
      /\ Len(target.buf) < head.idx
      /\ \A i \in 1..Len(target.buf) :
           target.buf[i] = Piece(head.msg, head.idx - Len(target.buf) - 1 + i, accepted[head.msg])
  BY <1>1, <1>3 DEF ReadBefore
<1>8. /\ s \in Seq(Part) /\ Len(s) = Len(target.buf) + 1 /\ Len(target.buf) \in Nat
      /\ s[Len(target.buf) + 1] = head
      /\ \A i \in 1..Len(target.buf) : s[i] = target.buf[i]
  BY <1>4, <1>7
<1>9. CASE head.more
  <2>1. passed' = passed /\ target' = [pc |-> "recv", buf |-> s]
    BY <1>7, <1>9 DEF RecvPart
  <2> DEFINE k == Len(target.buf)
  <2> HIDE DEF s, rest, head
  <2>x. /\ Head(rest).idx = head.idx + 1 /\ Head(rest).msg = head.msg
        /\ head.idx \in Nat /\ k \in Nat
    BY <1>5, <1>6, <1>8, <1>9
  <2> HIDE DEF k
  <2>2. ASSUME NEW i \in 1..k + 1
        PROVE  s[i] = Piece(Head(rest).msg, Head(rest).idx - (k + 1) - 1 + i, accepted[Head(rest).msg])
    <3>1. CASE i \in 1..k
      <4>1. Head(rest).idx - (k + 1) - 1 + i = head.idx - k - 1 + i
        BY <2>x, <3>1
      <4> QED BY <1>7, <1>8, <2>x, <3>1, <4>1 DEF k
    <3>2. CASE i = k + 1
      <4>1. Head(rest).idx - (k + 1) - 1 + i = head.idx
        BY <2>x, <3>2
      <4> QED BY <1>6, <1>8, <2>x, <3>2, <4>1 DEF k
    <3>3. i \in 1..k \/ i = k + 1
      BY <2>x
    <3> QED BY <3>1, <3>2, <3>3
  <2> USE DEF k
  <2>3. Len(s) < Head(rest).idx
    BY <1>5, <1>6, <1>7, <1>8, <1>9
  <2>4. ReadBefore([pc |-> "recv", buf |-> s], rest, accepted)
    BY <1>5, <1>8, <1>9, <2>2, <2>3 DEF ReadBefore
  <2>5. Ends(passed, rest, accepted)
    BY <1>3, <1>5, <1>9 DEF Ends
  <2>6. ASSUME Full(accepted) PROVE NoneSkipped(passed, [pc |-> "recv", buf |-> s], rest, accepted)
    <3>1. NoneSkipped(passed, target, wire, accepted)
      BY <1>3, <2>6
    <3>2. head.idx = Len(target.buf) + 1
      BY <1>1, <3>1 DEF NoneSkipped, head
    <3>3. Head(rest).idx = Len(s) + 1
      BY <1>5, <1>8, <1>9, <3>2
    <3> QED BY <1>5, <1>9, <3>1, <3>3 DEF NoneSkipped
  <2> QED BY <1>2, <1>3, <1>4, <2>1, <2>4, <2>5, <2>6 DEF IInv
<1>10. CASE ~head.more
  <2> DEFINE done == Append(passed, s)
  <2>1. passed' = done /\ target' = [pc |-> "idle", buf |-> <<>>]
    BY <1>10 DEF RecvPart
  <2>2. /\ IsEnd(s, accepted) /\ s[1].msg = head.msg
        /\ Len(s) = Len(target.buf) + 1 /\ head.idx = Len(accepted[head.msg])
    BY <1>1, <1>3, <1>10, ReadIsEnd
  <2>3. passed \in Seq(Seq(Part))
    BY <1>3 DEF Ends
  <2> HIDE DEF s, rest, head
  <2>4. /\ done \in Seq(Seq(Part)) /\ Len(passed) \in Nat /\ Len(done) = Len(passed) + 1
        /\ DOMAIN passed = 1..Len(passed) /\ DOMAIN done = 1..Len(passed) + 1
        /\ done[Len(passed) + 1] = s
        /\ \A n \in 1..Len(passed) : done[n] = passed[n]
    BY <1>8, <2>3
  <2> HIDE DEF done
  <2>5. \A n \in DOMAIN done : (n \in DOMAIN passed /\ done[n] = passed[n]) \/ (n = Len(passed) + 1 /\ done[n] = s)
    BY <2>4
  <2>6. ASSUME NEW n \in DOMAIN passed
        PROVE  passed[n][1].msg \in Nat /\ passed[n][1].msg < head.msg /\ IsEnd(passed[n], accepted)
    BY <1>3, <1>5 DEF Ends, IsEnd
  <2>7. ASSUME NEW n \in DOMAIN done
        PROVE  IsEnd(done[n], accepted) /\ done[n][1].msg < FirstLeft(rest, accepted)
    <3>1. CASE n \in DOMAIN passed /\ done[n] = passed[n]
      <4>1. IsEnd(passed[n], accepted) /\ passed[n][1].msg \in Nat /\ passed[n][1].msg < head.msg
        BY <2>6, <3>1
      <4>2. passed[n][1].msg < head.msg + 1
        BY <1>6, <4>1
      <4> QED BY <1>5, <1>10, <3>1, <4>1, <4>2
    <3>2. CASE done[n] = s
      BY <1>5, <1>6, <1>10, <2>2, <3>2
    <3> QED BY <2>5, <3>1, <3>2
  <2>8. ASSUME NEW m \in DOMAIN done, NEW n \in DOMAIN done, m < n
        PROVE  done[m][1].msg < done[n][1].msg
    <3>1. m \in DOMAIN passed /\ done[m] = passed[m]
      BY <2>4, <2>8
    <3>2. CASE n \in DOMAIN passed /\ done[n] = passed[n]
      BY <1>3, <2>8, <3>1, <3>2 DEF Ends
    <3>3. CASE done[n] = s
      BY <2>2, <2>6, <3>1, <3>3
    <3> QED BY <2>5, <3>2, <3>3
  <2>9. Ends(done, rest, accepted)
    BY <2>4, <2>7, <2>8 DEF Ends
  <2>10. ReadBefore([pc |-> "idle", buf |-> <<>>], rest, accepted)
    BY DEF ReadBefore
  <2>11. ASSUME Full(accepted) PROVE NoneSkipped(done, [pc |-> "idle", buf |-> <<>>], rest, accepted)
    <3>1. NoneSkipped(passed, target, wire, accepted)
      BY <1>3, <2>11
    <3>2. head.idx = Len(target.buf) + 1 /\ Len(passed) + 1 = head.msg
      BY <1>1, <1>5, <3>1 DEF NoneSkipped, head
    <3>3. Len(done) + 1 = FirstLeft(rest, accepted)
      BY <1>5, <1>10, <2>4, <3>2
    <3>4. rest # <<>> => Head(rest).idx = Len(<<>>) + 1
      BY <1>5, <1>10
    <3>5. ASSUME NEW n \in DOMAIN done PROVE done[n][1].msg = n /\ Len(done[n]) = Len(accepted[n])
      <4>1. CASE n \in DOMAIN passed /\ done[n] = passed[n]
        BY <3>1, <4>1 DEF NoneSkipped
      <4>2. CASE n = Len(passed) + 1 /\ done[n] = s
        BY <2>2, <3>2, <4>2
      <4> QED BY <2>5, <4>1, <4>2
    <3> QED BY <3>3, <3>4, <3>5 DEF NoneSkipped
  <2> QED BY <1>2, <1>3, <1>4, <2>1, <2>9, <2>10, <2>11 DEF IInv
<1> QED BY <1>6, <1>9, <1>10

-----------------------------------------------------------------------------
LEMMA InitIInv == Init => IInv
<1> SUFFICES ASSUME Init PROVE IInv
  OBVIOUS
<1>1. Linked(<<>>, <<>>)
  BY DEF Linked
<1>2. Written(Idle, <<>>, <<>>) /\ ReadBefore([pc |-> "idle", buf |-> <<>>], <<>>, <<>>)
  BY DEF Written, ReadBefore, Idle
<1>3. Ends(<<>>, <<>>, <<>>) /\ NoneSkipped(<<>>, [pc |-> "idle", buf |-> <<>>], <<>>, <<>>)
  BY DEF Ends, NoneSkipped, FirstLeft
<1> QED BY <1>1, <1>2, <1>3 DEF Init, IInv

LEMMA NextIInv == IInv /\ [Next]_vars => IInv'
<1> SUFFICES ASSUME IInv, [Next]_vars PROVE IInv'
  OBVIOUS
<1>1. ASSUME NEW buf \in Buffers, data_(buf) PROVE IInv'
  <2>1. open = <<>>
    BY <1>1 DEF data_, IInv, Written
  <2>2. 1 \in 1..Len(buf)
    BY BufferIs
  <2>3. Written([pc |-> "send", buf |-> buf, idx |-> 1], open, accepted)
    BY <2>1, <2>2 DEF Written
  <2> QED BY <1>1, <2>3 DEF data_, IInv
<1>2. CASE SendRefused
  <2>1. open \in Seq(Part) /\ Len(open) = 0
    BY <1>2 DEF SendRefused, IInv, Written
  <2>2. open = <<>>
    BY <2>1
  <2>3. Written(Idle, open, accepted)
    BY <2>2 DEF Written, Idle
  <2> QED BY <1>2, <2>3 DEF SendRefused, IInv
<1>3. CASE SendPart
  <2>1. source.pc = "send"
    BY <1>3 DEF SendPart
  <2> QED BY <1>3, <2>1, LastPart, EarlierPart
<1>4. CASE on_fd_
  <2>1. /\ target.pc = "idle" /\ wire # <<>> /\ target' = [pc |-> "recv", buf |-> <<>>]
        /\ UNCHANGED <<source, open, wire, accepted, passed>>
    BY <1>4 DEF on_fd_
  <2>2. target.buf = <<>>
    BY <2>1 DEF IInv, ReadBefore
  <2>3. Head(wire).idx > 0
    BY <2>1, TailLinked, KnownIs DEF IInv
  <2>4. ReadBefore([pc |-> "recv", buf |-> <<>>], wire, accepted)
    BY <2>1, <2>3 DEF ReadBefore
  <2>5. Full(accepted) => NoneSkipped(passed, [pc |-> "recv", buf |-> <<>>], wire, accepted)
    BY <2>2 DEF IInv, NoneSkipped
  <2> QED BY <2>1, <2>4, <2>5 DEF IInv
<1>5. CASE RecvFails
  BY <1>5, EmptyPart
<1>6. CASE RecvPart
  BY <1>6, PartRead
<1>7. CASE Done \/ UNCHANGED vars
  BY <1>7 DEF Done, vars, IInv
<1> QED BY <1>1, <1>2, <1>3, <1>4, <1>5, <1>6, <1>7 DEF Next

LEMMA Invariance == Spec => []IInv
BY InitIInv, NextIInv, PTL DEF Spec

\* As long as no empty part was sent, what hooks pass on is what was sent to
\* them: whole messages, in order, none skipped and none twice, whatever
\* libzmq refuses in between.
THEOREM WholeMessagesArrive == Spec => []FullPartsArrive
<1>1. IInv => FullPartsArrive
  <2> SUFFICES ASSUME IInv, Full(accepted) PROVE PassedIsSent
    BY DEF FullPartsArrive, Full
  <2>1. /\ NoneSkipped(passed, target, wire, accepted) /\ Ends(passed, wire, accepted)
        /\ accepted \in Seq(Buffers) /\ Linked(wire, accepted)
    BY DEF IInv
  <2>2. FirstLeft(wire, accepted) <= Len(accepted) + 1
    <3>1. CASE wire = <<>>
      BY <3>1, <2>1 DEF FirstLeft
    <3>2. CASE wire # <<>>
      <4>1. FirstLeft(wire, accepted) \in 1..Len(accepted) /\ Len(accepted) \in Nat
        BY <2>1, <3>2, FirstLeftIs, TailLinked, KnownIs
      <4> QED BY <4>1
    <3> QED BY <3>1, <3>2
  <2>3. Len(passed) <= Len(accepted)
    <3>1. Len(passed) \in Nat /\ Len(accepted) \in Nat
      BY <2>1 DEF Ends
    <3> QED BY <2>1, <2>2, <3>1 DEF NoneSkipped
  <2>4. ASSUME NEW n \in DOMAIN passed PROVE passed[n] = Contents(n)
    <3> DEFINE s == passed[n]
               buf == accepted[n]
    <3>1. IsEnd(s, accepted) /\ s[1].msg = n /\ Len(s) = Len(buf)
      BY <2>1 DEF Ends, NoneSkipped
    <3>2. buf \in Buffers
      BY <2>1, <3>1 DEF IsEnd
    <3>3. Len(buf) \in Nat /\ DOMAIN buf = 1..Len(buf)
      BY <3>2, BufferIs
    <3>4. s \in Seq(Part)
      BY <3>1 DEF IsEnd
    <3> HIDE DEF s
    <3>5. \A i \in 1..Len(buf) : s[i] = Piece(n, i, buf)
      <4>1. \A i \in 1..Len(buf) : s[i] = Piece(n, Len(buf) - Len(buf) + i, buf)
        BY <3>1 DEF IsEnd
      <4>2. \A i \in 1..Len(buf) : Len(buf) - Len(buf) + i = i
        BY <3>3
      <4> QED BY <4>1, <4>2
    <3>6. s = [i \in 1..Len(buf) |-> s[i]]
      BY <3>1, <3>4
    <3>7. s = [i \in 1..Len(buf) |-> Piece(n, i, buf)]
      BY <3>5, <3>6
    <3> QED BY <3>3, <3>7 DEF Contents, Piece, s
  <2> QED BY <2>3, <2>4 DEF PassedIsSent
<1> QED BY <1>1, Invariance, PTL

\* Whatever the parts, a buffer that is passed on ends one message, later than
\* those passed before: an empty part costs its message's beginning, or the
\* message, and reading is in step again with the next one.
THEOREM ReadingIsBackInStep == Spec => []PassedIsAnEnd
<1>1. IInv => PassedIsAnEnd
  <2> SUFFICES ASSUME IInv, NEW n \in DOMAIN passed
               PROVE  IsSuffix(passed[n], Contents(passed[n][1].msg))
    BY DEF PassedIsAnEnd, IInv, Ends, IsEnd
  <2> DEFINE s == passed[n]
             m == s[1].msg
             buf == accepted[m]
             c == Contents(m)
  <2>1. /\ s \in Seq(Part) /\ m \in DOMAIN accepted /\ Len(s) <= Len(buf)
        /\ \A i \in 1..Len(s) : s[i] = Piece(m, Len(buf) - Len(s) + i, buf)
        /\ accepted \in Seq(Buffers)
    BY DEF IInv, Ends, IsEnd
  <2>2. buf \in Seq(Nat) /\ Len(buf) \in Nat /\ DOMAIN buf = 1..Len(buf) /\ Len(s) \in Nat
    <3>1. buf \in Buffers /\ Len(s) \in Nat
      BY <2>1
    <3> QED BY <3>1, BufferIs
  <2>3. c = [i \in 1..Len(buf) |-> Piece(m, i, buf)]
    BY <2>2 DEF Contents, Piece
  <2>4. m \in Nat
    BY <2>1
  <2> HIDE DEF s, m, buf, c
  <2>5. c \in Seq(Part) /\ Len(c) = Len(buf)
    <3>1. \A i \in 1..Len(buf) : Piece(m, i, buf) \in Part
      BY <2>2, <2>4, PieceIsPart
    <3> QED BY <2>2, <2>3, <3>1
  <2> DEFINE rs == Reverse(s)
             rc == Reverse(c)
  <2>6. /\ rs = [i \in 1..Len(s) |-> s[(Len(s) - i) + 1]]
        /\ rc = [i \in 1..Len(buf) |-> c[(Len(buf) - i) + 1]]
    BY <2>5 DEF Reverse
  <2>7. \A i \in 1..Len(s) : (Len(s) - i) + 1 \in 1..Len(s)
    BY <2>2
  <2>8. \A i \in 1..Len(buf) : (Len(buf) - i) + 1 \in 1..Len(buf)
    BY <2>2
  <2>9. rs \in Seq(Part) /\ Len(rs) = Len(s)
    <3>1. \A i \in 1..Len(s) : s[(Len(s) - i) + 1] \in Part
      BY <2>1, <2>7
    <3> QED BY <2>2, <2>6, <3>1
  <2>10. rc \in Seq(Part) /\ Len(rc) = Len(buf)
    <3>1. \A i \in 1..Len(buf) : c[(Len(buf) - i) + 1] \in Part
      BY <2>5, <2>8
    <3> QED BY <2>2, <2>6, <3>1
  <2>11. ASSUME NEW i \in 1..Len(s) PROVE rs[i] = rc[i]
    <3>1. i \in 1..Len(buf) /\ (Len(s) - i) + 1 \in 1..Len(s) /\ (Len(buf) - i) + 1 \in 1..Len(buf)
      BY <2>1, <2>2
    <3>2. rs[i] = Piece(m, Len(buf) - Len(s) + ((Len(s) - i) + 1), buf)
      BY <2>1, <2>6, <3>1
    <3>3. rc[i] = Piece(m, (Len(buf) - i) + 1, buf)
      BY <2>3, <2>6, <3>1
    <3>4. Len(buf) - Len(s) + ((Len(s) - i) + 1) = (Len(buf) - i) + 1
      BY <2>2
    <3> QED BY <3>2, <3>3, <3>4
  <2> HIDE DEF rs, rc
  <2>12. SubSeq(rs, 1, Len(rs)) = [i \in 1..Len(s) |-> rs[i]]
    BY <2>2, <2>9
  <2>13. SubSeq(rc, 1, Len(rs)) = [i \in 1..Len(s) |-> rc[i]]
    BY <2>1, <2>2, <2>9, <2>10
  <2>14. SubSeq(rs, 1, Len(rs)) = SubSeq(rc, 1, Len(rs))
    BY <2>11, <2>12, <2>13
  <2>15. IsPrefix(rs, rc)
    BY <2>1, <2>9, <2>10, <2>14 DEF IsPrefix
  <2> QED BY <2>15 DEF IsSuffix, rs, rc, s, c, m
<1> QED BY <1>1, Invariance, PTL

-----------------------------------------------------------------------------
\* The messages before f whose last part is empty.
EmptyEnds(f, sent) == {n \in 1..f - 1 : n \in DOMAIN sent /\ Last(sent[n]) = 0}

\* A message that was read to its last part was passed on or ended so.
Counted ==
  /\ tx_pkt_ = Len(accepted)
  /\ rx_pkt_ = Len(passed)
  /\ rx_pkt_ + Cardinality(EmptyEnds(FirstLeft(wire, accepted), accepted)) = FirstLeft(wire, accepted) - 1

LEMMA EmptyEndsIs ==
  ASSUME NEW sent \in Seq(Buffers), NEW f \in 1..Len(sent)
  PROVE  /\ Cardinality(EmptyEnds(f, sent)) \in Nat
         /\ Last(sent[f]) = 0 =>
              Cardinality(EmptyEnds(f + 1, sent)) = Cardinality(EmptyEnds(f, sent)) + 1
         /\ Last(sent[f]) # 0 =>
              Cardinality(EmptyEnds(f + 1, sent)) = Cardinality(EmptyEnds(f, sent))
<1>1. f \in Nat /\ f - 1 \in Nat /\ f \in DOMAIN sent
  OBVIOUS
<1>2. IsFiniteSet(EmptyEnds(f, sent))
  <2>1. EmptyEnds(f, sent) \subseteq 1..f - 1
    BY DEF EmptyEnds
  <2>2. IsFiniteSet(1..f - 1)
    BY <1>1, FS_Interval
  <2> QED BY <2>1, <2>2, FS_Subset
<1>3. f \notin EmptyEnds(f, sent)
  BY <1>1 DEF EmptyEnds
<1>4. \A n \in 1..(f + 1) - 1 : n \in 1..f - 1 \/ n = f
  BY <1>1
<1>5. ASSUME Last(sent[f]) = 0 PROVE EmptyEnds(f + 1, sent) = EmptyEnds(f, sent) \cup {f}
  BY <1>1, <1>4, <1>5 DEF EmptyEnds
<1>6. ASSUME Last(sent[f]) # 0 PROVE EmptyEnds(f + 1, sent) = EmptyEnds(f, sent)
  BY <1>1, <1>4, <1>6 DEF EmptyEnds
<1> QED BY <1>2, <1>3, <1>5, <1>6, FS_AddElement, FS_CardinalityType

\* The head of the wire is of message FirstLeft, and is its last part unless more
\* are to come.
LEMMA HeadIs ==
  ASSUME IInv, wire # <<>>
  PROVE  LET head == Head(wire)
             f    == FirstLeft(wire, accepted)
         IN  /\ f \in 1..Len(accepted)
             /\ head.more => FirstLeft(Tail(wire), accepted) = f
             /\ ~head.more => FirstLeft(Tail(wire), accepted) = f + 1 /\ head.len = Last(accepted[f])
<1>1. accepted \in Seq(Buffers) /\ Linked(wire, accepted)
  BY DEF IInv
<1>2. Known(Head(wire), accepted)
  BY <1>1, TailLinked
<1>3. /\ FirstLeft(wire, accepted) = Head(wire).msg
      /\ Head(wire).more => FirstLeft(Tail(wire), accepted) = Head(wire).msg
      /\ ~Head(wire).more => FirstLeft(Tail(wire), accepted) = Head(wire).msg + 1
  BY <1>1, FirstLeftIs
<1>4. ASSUME ~Head(wire).more PROVE Head(wire).len = Last(accepted[Head(wire).msg])
  <2>1. /\ Head(wire).idx \in 1..Len(accepted[Head(wire).msg])
        /\ ~(Head(wire).idx < Len(accepted[Head(wire).msg]))
        /\ Head(wire).len = accepted[Head(wire).msg][Head(wire).idx]
        /\ Len(accepted[Head(wire).msg]) \in Nat
    BY <1>1, <1>2, <1>4, KnownIs
  <2>2. Head(wire).idx = Len(accepted[Head(wire).msg])
    BY <2>1
  <2> QED BY <2>1, <2>2 DEF Last
<1>5. Head(wire).msg \in 1..Len(accepted)
  BY <1>1, <1>2, KnownIs
<1> QED BY <1>3, <1>4, <1>5

LEMMA NextCounted == IInv /\ Counted /\ [Next]_vars => Counted'
<1> SUFFICES ASSUME IInv, Counted, [Next]_vars PROVE Counted'
  OBVIOUS
<1> DEFINE f == FirstLeft(wire, accepted)
<1>a. accepted \in Seq(Buffers) /\ passed \in Seq(Seq(Part)) /\ Len(accepted) \in Nat /\ Len(passed) \in Nat
  BY DEF IInv, Ends
<1>1. CASE SendPart
  <2>1. source.pc = "send"
    BY <1>1 DEF SendPart
  <2>2. CASE source.idx # Len(source.buf)
    BY <1>1, <2>2 DEF SendPart, Counted
  <2>3. CASE source.idx = Len(source.buf)
    <3> DEFINE now == Append(accepted, source.buf)
    <3>1. /\ FirstLeft(wire', accepted') = f
          /\ accepted' = now /\ tx_pkt_' = tx_pkt_ + 1 /\ UNCHANGED <<rx_pkt_, passed>>
      BY <1>1, <2>1, <2>3, LastPart DEF SendPart
    <3>2. source.buf \in Buffers
      BY <2>1 DEF IInv, Written
    <3>3. /\ Len(now) = Len(accepted) + 1 /\ DOMAIN accepted = 1..Len(accepted)
          /\ \A n \in DOMAIN accepted : n \in DOMAIN now /\ now[n] = accepted[n]
      BY <1>a, <3>2, SentIs
    <3>4. f \in 1..Len(accepted) + 1
      <4>1. CASE wire = <<>>
        BY <1>a, <4>1 DEF FirstLeft
      <4>2. CASE wire # <<>>
        BY <1>a, <4>2, HeadIs
      <4> QED BY <4>1, <4>2
    <3> HIDE DEF now, f
    <3>5. \A n \in 1..f - 1 : n \in DOMAIN accepted
      BY <1>a, <3>3, <3>4
    <3>6. EmptyEnds(f, now) = EmptyEnds(f, accepted)
      BY <3>3, <3>5 DEF EmptyEnds
    <3> QED BY <3>1, <3>3, <3>6 DEF Counted, f
  <2> QED BY <2>2, <2>3
<1>2. CASE RecvFails
  <2>1. wire # <<>>
    BY <1>2 DEF RecvFails, IInv, ReadBefore
  <2>2. Head(wire).len = 0 /\ wire' = Tail(wire) /\ UNCHANGED <<accepted, passed, tx_pkt_, rx_pkt_>>
    BY <1>2, <2>1 DEF RecvFails
  <2>3. /\ f \in 1..Len(accepted)
        /\ \/ FirstLeft(Tail(wire), accepted) = f
           \/ FirstLeft(Tail(wire), accepted) = f + 1 /\ Last(accepted[f]) = 0
    BY <2>1, <2>2, HeadIs
  <2> HIDE DEF f
  <2>4. CASE FirstLeft(Tail(wire), accepted) = f
    BY <2>2, <2>4 DEF Counted, f
  <2>5. CASE FirstLeft(Tail(wire), accepted) = f + 1 /\ Last(accepted[f]) = 0
    <3>1. /\ Cardinality(EmptyEnds(f, accepted)) \in Nat
          /\ Cardinality(EmptyEnds(f + 1, accepted)) = Cardinality(EmptyEnds(f, accepted)) + 1
      BY <1>a, <2>3, <2>5, EmptyEndsIs
    <3>2. rx_pkt_ + Cardinality(EmptyEnds(f, accepted)) = f - 1 /\ rx_pkt_ \in Nat /\ f \in Nat
      BY <1>a, <2>3 DEF Counted, f
    <3>3. rx_pkt_ + Cardinality(EmptyEnds(f + 1, accepted)) = (f + 1) - 1
      BY <3>1, <3>2
    <3> QED BY <2>2, <2>5, <3>3 DEF Counted
  <2> QED BY <2>3, <2>4, <2>5
<1>3. CASE RecvPart
  <2>1. /\ wire # <<>> /\ Head(wire).len > 0 /\ wire' = Tail(wire)
        /\ UNCHANGED <<accepted, tx_pkt_>>
    BY <1>3 DEF RecvPart
  <2>2. /\ f \in 1..Len(accepted)
        /\ Head(wire).more => FirstLeft(Tail(wire), accepted) = f
        /\ ~Head(wire).more => FirstLeft(Tail(wire), accepted) = f + 1 /\ Head(wire).len = Last(accepted[f])
    BY <2>1, HeadIs
  <2> HIDE DEF f
  <2>3. CASE Head(wire).more
    <3>1. UNCHANGED <<rx_pkt_, passed>>
      BY <1>3, <2>3 DEF RecvPart
    <3> QED BY <2>1, <2>2, <2>3, <3>1 DEF Counted, f
  <2>4. CASE ~Head(wire).more
    <3> DEFINE s == Append(target.buf, Head(wire))
    <3>1. passed' = Append(passed, s) /\ rx_pkt_' = rx_pkt_ + 1
      BY <1>3, <2>4 DEF RecvPart
    <3>2. s \in Seq(Part)
      BY <2>1, TailLinked DEF IInv, ReadBefore
    <3> HIDE DEF s
    <3>3. Len(passed') = Len(passed) + 1
      BY <1>a, <3>1, <3>2
    <3>4. Last(accepted[f]) # 0
      BY <2>1, <2>2, <2>4
    <3>5. /\ Cardinality(EmptyEnds(f, accepted)) \in Nat
          /\ Cardinality(EmptyEnds(f + 1, accepted)) = Cardinality(EmptyEnds(f, accepted))
      BY <1>a, <2>2, <3>4, EmptyEndsIs
    <3>6. rx_pkt_ + Cardinality(EmptyEnds(f, accepted)) = f - 1 /\ rx_pkt_ \in Nat /\ f \in Nat
      BY <1>a, <2>2 DEF Counted, f
    <3>7. rx_pkt_ + 1 + Cardinality(EmptyEnds(f + 1, accepted)) = (f + 1) - 1
      BY <3>5, <3>6
    <3> QED BY <2>1, <2>2, <2>4, <3>1, <3>3, <3>7 DEF Counted
  <2> QED BY <2>3, <2>4
<1>4. CASE \E buf \in Buffers : data_(buf)
  BY <1>4 DEF data_, Counted
<1>5. CASE SendRefused
  BY <1>5 DEF SendRefused, Counted
<1>6. CASE on_fd_
  BY <1>6 DEF on_fd_, Counted
<1>7. CASE Done \/ UNCHANGED vars
  BY <1>7 DEF Done, vars, Counted
<1> QED BY <1>1, <1>2, <1>3, <1>4, <1>5, <1>6, <1>7 DEF Next

\* Once everything is read, the counters of the two hooks differ by the
\* messages whose last part was empty: no other message is lost between a
\* tx_pkt_ and an rx_pkt_, or counted twice.
THEOREM CountersAgree == Spec => []CountsAgree
<1>1. Init => Counted
  <2> SUFFICES ASSUME Init PROVE Counted
    OBVIOUS
  <2>1. FirstLeft(<<>>, <<>>) = 1
    BY DEF FirstLeft
  <2>2. EmptyEnds(1, <<>>) = {}
    BY DEF EmptyEnds
  <2> QED BY <2>1, <2>2, FS_EmptySet DEF Init, Counted
<1>2. IInv /\ Counted => CountsAgree
  <2> SUFFICES ASSUME IInv, Counted, wire = <<>>
               PROVE  tx_pkt_ - rx_pkt_ = Cardinality({n \in DOMAIN accepted : Last(accepted[n]) = 0})
    BY DEF CountsAgree
  <2>1. accepted \in Seq(Buffers) /\ Len(accepted) \in Nat /\ DOMAIN accepted = 1..Len(accepted)
    BY DEF IInv
  <2>2. FirstLeft(wire, accepted) = Len(accepted) + 1
    BY DEF FirstLeft
  <2>3. EmptyEnds(Len(accepted) + 1, accepted) = {n \in DOMAIN accepted : Last(accepted[n]) = 0}
    <3>1. 1..(Len(accepted) + 1) - 1 = DOMAIN accepted
      BY <2>1
    <3> QED BY <3>1 DEF EmptyEnds
  <2> DEFINE c == Cardinality({n \in DOMAIN accepted : Last(accepted[n]) = 0})
  <2>4. c \in Nat
    <3>1. IsFiniteSet(1..Len(accepted))
      BY <2>1, FS_Interval
    <3>2. IsFiniteSet({n \in DOMAIN accepted : Last(accepted[n]) = 0})
      BY <2>1, <3>1, FS_Subset
    <3> QED BY <3>2, FS_CardinalityType
  <2>5. tx_pkt_ = Len(accepted) /\ rx_pkt_ \in Nat
    <3>1. passed \in Seq(Seq(Part)) /\ rx_pkt_ = Len(passed)
      BY DEF Counted, IInv, Ends
    <3> QED BY <3>1 DEF Counted
  <2>7. rx_pkt_ + c = (Len(accepted) + 1) - 1
    BY <2>2, <2>3 DEF Counted
  <2> HIDE DEF c
  <2>8. (Len(accepted) + 1) - 1 = Len(accepted)
    BY <2>1
  <2>9. tx_pkt_ \in Nat /\ rx_pkt_ + c = tx_pkt_
    BY <2>1, <2>5, <2>7, <2>8
  <2>6. tx_pkt_ - rx_pkt_ = c
    BY <2>4, <2>5, <2>9
  <2> QED BY <2>6 DEF c
<1> QED BY <1>1, <1>2, NextCounted, Invariance, PTL DEF Spec

-----------------------------------------------------------------------------
\* Bounds how many steps of the receiving hook are left if nothing more is
\* handed over: a part takes one to be read, and may take one to ask for.
Unread == 2 * Len(wire) - IF target.pc = "recv" THEN 1 ELSE 0

Reading == on_fd_ \/ RecvFails \/ RecvPart

\* Reading goes down, also when a part is empty and its message is given up,
\* and only a whole message handed over goes up.
ReadingGoesDown ==
  /\ Unread \in Nat
  /\ Reading => Unread' < Unread
  /\ Unread' > Unread => accepted' # accepted

LEMMA UnreadIs ==
  ASSUME IInv
  PROVE  /\ wire \in Seq(Part) /\ Len(wire) \in Nat /\ Unread \in Nat
         /\ target.pc = "idle" => Unread = 2 * Len(wire)
         /\ target.pc = "recv" => Unread = 2 * Len(wire) - 1 /\ wire # <<>>
         /\ target.pc \in {"idle", "recv"}
<1>1. /\ wire \in Seq(Part) /\ Len(wire) \in Nat /\ target.pc \in {"idle", "recv"}
      /\ target.pc = "recv" => wire # <<>>
  BY DEF IInv, Linked, ReadBefore
<1>2. wire # <<>> => Len(wire) > 0
  BY <1>1
<1> QED BY <1>1, <1>2 DEF Unread

\* Taking a part off the wire goes down, whether recv_ goes on or not.
LEMMA TakingGoesDown ==
  ASSUME IInv, IInv', target.pc = "recv", wire' = Tail(wire)
  PROVE  Unread' < Unread
<1>1. /\ wire \in Seq(Part) /\ wire # <<>> /\ Len(wire) \in Nat
      /\ Unread = 2 * Len(wire) - 1
  BY UnreadIs
<1>2. Len(wire') = Len(wire) - 1
  BY <1>1
<1>3. CASE target'.pc = "recv"
  BY <1>1, <1>2, <1>3 DEF Unread
<1>4. CASE target'.pc # "recv"
  BY <1>1, <1>2, <1>4 DEF Unread
<1> QED BY <1>3, <1>4

\* recv_ and the polling of the hook make progress whatever the parts are: a
\* rank in Nat that each of their steps lowers. It is why what was sent is
\* read in the end (EveryMessageIsRead).
THEOREM ReadingDescends == Spec => [][ReadingGoesDown]_vars
<1>1. ASSUME IInv, IInv', [Next]_vars PROVE [ReadingGoesDown]_vars
  <2>1. /\ wire \in Seq(Part) /\ Len(wire) \in Nat /\ Unread \in Nat
        /\ target.pc = "idle" => Unread = 2 * Len(wire)
        /\ target.pc = "recv" => Unread = 2 * Len(wire) - 1 /\ wire # <<>>
    BY <1>1, UnreadIs
  <2>2. ASSUME Reading PROVE Unread' < Unread
    <3>1. CASE on_fd_
      <4>1. target.pc = "idle" /\ wire' = wire /\ target'.pc = "recv"
        BY <3>1 DEF on_fd_
      <4>2. Unread' = 2 * Len(wire) - 1
        BY <4>1 DEF Unread
      <4> QED BY <2>1, <4>1, <4>2
    <3>2. CASE RecvFails \/ RecvPart
      <4>1. target.pc = "recv" /\ wire' = Tail(wire)
        BY <2>1, <3>2 DEF RecvFails, RecvPart
      <4> QED BY <1>1, <4>1, TakingGoesDown
    <3> QED BY <2>2, <3>1, <3>2 DEF Reading
  <2>3. ASSUME Unread' > Unread PROVE accepted' # accepted
    <3>1. Unread' \in Nat
      <4>1. (Unread \in Nat)'
        BY <1>1, UnreadIs, PTL
      <4> QED BY <4>1
    <3>2. ~Reading
      BY <2>1, <2>2, <2>3, <3>1
    <3>3. ~(UNCHANGED <<wire, target>>)
      BY <2>1, <2>3, <3>1 DEF Unread
    <3>4. SendPart
      BY <1>1, <3>2, <3>3 DEF Next, Reading, data_, SendRefused, Done, vars
    <3>5. accepted' = Append(accepted, source.buf)
      BY <3>3, <3>4 DEF SendPart
    <3>6. accepted \in Seq(Buffers) /\ source.buf \in Buffers
      BY <1>1, <3>4 DEF IInv, Written, SendPart
    <3>7. Len(accepted') = Len(accepted) + 1 /\ Len(accepted) \in Nat
      BY <3>5, <3>6
    <3> QED BY <3>7
  <2> QED BY <2>1, <2>2, <2>3 DEF ReadingGoesDown
<1> QED BY <1>1, Invariance, PTL DEF Spec
=============================================================================
