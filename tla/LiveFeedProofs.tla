---------------------------- MODULE LiveFeedProofs ----------------------------
(***************************************************************************)
(* Proofs about LiveFeed, for any number of sockets and audits and any       *)
(* length of the page's feed.                                               *)
(***************************************************************************)
EXTENDS LiveFeed, TLAPS

USE FeedAssumption

-----------------------------------------------------------------------------
(* What is on its way, as numbers: h came last, w is on the wire, b is to be  *)
(* read, p was published last.                                              *)

Ordered(h, w, b, p) ==
  /\ h \in Nat /\ p \in Nat /\ w \in Seq(Nat) /\ b \in Seq(Nat) /\ h <= p
  /\ \A i \in 1 .. Len(w) : h < w[i] /\ w[i] <= p
  /\ \A j \in 1 .. Len(b) : h < b[j] /\ b[j] <= p
  /\ \A i \in 1 .. Len(w) : \A j \in 1 .. Len(w) : i < j => w[i] < w[j]
  /\ \A i \in 1 .. Len(b) : \A j \in 1 .. Len(b) : i < j => b[i] < b[j]
  /\ \A i \in 1 .. Len(w) : \A j \in 1 .. Len(b) : w[i] < b[j]

Dense(h, w, b, p) ==
  /\ h \in Nat /\ p \in Nat /\ w \in Seq(Nat) /\ b \in Seq(Nat)
  /\ \A i \in 1 .. Len(w) : w[i] = h + i
  /\ \A j \in 1 .. Len(b) : b[j] = h + Len(w) + j
  /\ h + Len(w) + Len(b) = p

\* One element more at the end.
LEMMA Longer ==
  ASSUME NEW S, NEW q \in Seq(S), NEW x \in S
  PROVE  /\ Append(q, x) = q \o <<x>> /\ q \o <<x>> \in Seq(S)
         /\ Len(q \o <<x>>) = Len(q) + 1 /\ Len(q) \in Nat
         /\ \A i \in 1 .. Len(q) : (q \o <<x>>)[i] = q[i]
         /\ (q \o <<x>>)[Len(q) + 1] = x
OBVIOUS

\* One element less at the front.
LEMMA Shorter ==
  ASSUME NEW S, NEW q \in Seq(S), q # << >>
  PROVE  /\ Len(q) \in Nat \ {0} /\ Head(q) = q[1] /\ Head(q) \in S
         /\ Tail(q) \in Seq(S) /\ Len(Tail(q)) = Len(q) - 1
         /\ \A i \in 1 .. Len(q) - 1 : Tail(q)[i] = q[i + 1] /\ i + 1 \in 1 .. Len(q)
OBVIOUS

LEMMA Empty == ASSUME NEW S PROVE << >> \in Seq(S) /\ Len(<< >>) = 0
OBVIOUS

LEMMA OrderedNone ==
  ASSUME NEW h \in Nat, NEW p \in Nat, h <= p
  PROVE  Ordered(h, << >>, << >>, p)
BY Empty DEF Ordered

LEMMA DenseNone == ASSUME NEW p \in Nat PROVE Dense(p, << >>, << >>, p)
BY Empty DEF Dense

\* An audit is published, to this connection or not.
LEMMA OrderedPublish ==
  ASSUME NEW h, NEW w, NEW b, NEW p, Ordered(h, w, b, p)
  PROVE  Ordered(h, w, Append(b, p + 1), p + 1) /\ Ordered(h, w, b, p + 1)
<1>1. Ordered(h, w, b, p + 1)
  BY DEF Ordered
<1>2. /\ Append(b, p + 1) \in Seq(Nat) /\ Len(Append(b, p + 1)) = Len(b) + 1 /\ Len(b) \in Nat
      /\ \A i \in 1 .. Len(b) : Append(b, p + 1)[i] = b[i]
      /\ Append(b, p + 1)[Len(b) + 1] = p + 1
  BY DEF Ordered
<1>3. \A i \in 1 .. Len(b) + 1 : i \in 1 .. Len(b) \/ i = Len(b) + 1
  BY <1>2
<1>4. QED
  BY <1>1, <1>2, <1>3, SMTT(30) DEF Ordered

LEMMA DensePublish ==
  ASSUME NEW h, NEW w, NEW b, NEW p, Dense(h, w, b, p)
  PROVE  Dense(h, w, Append(b, p + 1), p + 1)
<1>2. /\ Append(b, p + 1) \in Seq(Nat) /\ Len(Append(b, p + 1)) = Len(b) + 1 /\ Len(b) \in Nat
      /\ \A i \in 1 .. Len(b) : Append(b, p + 1)[i] = b[i]
      /\ Append(b, p + 1)[Len(b) + 1] = p + 1
  BY DEF Dense
<1>3. \A i \in 1 .. Len(b) + 1 : i \in 1 .. Len(b) \/ i = Len(b) + 1
  BY <1>2
<1> DEFINE c == Append(b, p + 1)
<1> HIDE DEF c
<1>4. Len(c) = Len(b) + 1 /\ c \in Seq(Nat) /\ c[Len(b) + 1] = p + 1
      /\ \A i \in 1 .. Len(b) : c[i] = b[i]
  BY <1>2 DEF c
<1>5. h + Len(w) + Len(b) = p /\ h \in Nat /\ Len(w) \in Nat /\ p \in Nat
  BY DEF Dense
<1>6. ASSUME NEW j \in 1 .. Len(c) PROVE c[j] = h + Len(w) + j
  <2>1. CASE j = Len(b) + 1
    BY <1>2, <1>4, <1>5, <2>1
  <2>2. CASE j \in 1 .. Len(b)
    BY <1>4, <2>2 DEF Dense
  <2>3. QED
    BY <1>2, <1>3, <1>4, <2>1, <2>2
<1>7. h + Len(w) + Len(c) = p + 1
  BY <1>2, <1>4, <1>5
<1>8. Dense(h, w, c, p + 1)
  BY <1>4, <1>5, <1>6, <1>7 DEF Dense
<1>9. QED
  BY <1>8 DEF c

\* The forwarder sends one.
LEMMA OrderedSend ==
  ASSUME NEW h, NEW w, NEW b, NEW p, Ordered(h, w, b, p), b # << >>
  PROVE  Ordered(h, w \o <<Head(b)>>, Tail(b), p) /\ Ordered(h, w, Tail(b), p)
<1> DEFINE v == w \o <<Head(b)>>
<1>0. w \in Seq(Nat) /\ b \in Seq(Nat)
  BY DEF Ordered
<1>1. /\ Len(b) \in Nat \ {0} /\ Head(b) = b[1] /\ Head(b) \in Nat
      /\ Tail(b) \in Seq(Nat) /\ Len(Tail(b)) = Len(b) - 1
      /\ \A i \in 1 .. Len(b) - 1 : Tail(b)[i] = b[i + 1] /\ i + 1 \in 1 .. Len(b)
  BY <1>0, Shorter
<1>2. /\ v \in Seq(Nat) /\ Len(v) = Len(w) + 1 /\ Len(w) \in Nat
      /\ \A i \in 1 .. Len(w) : v[i] = w[i]
      /\ v[Len(w) + 1] = Head(b)
  BY <1>0, <1>1, Longer
<1>3. \A i \in 1 .. Len(w) + 1 : i \in 1 .. Len(w) \/ i = Len(w) + 1
  BY <1>2
<1> HIDE DEF v
<1>4. Ordered(h, w, Tail(b), p)
  BY <1>0, <1>1, SMTT(30) DEF Ordered
<1>5. \A j \in 1 .. Len(Tail(b)) : b[1] < Tail(b)[j]
  BY <1>1 DEF Ordered
<1>6. \A i \in 1 .. Len(w) : w[i] < b[1]
  BY <1>1 DEF Ordered
<1>7. h < b[1] /\ b[1] <= p
  BY <1>1 DEF Ordered
<1>8. Len(v) = Len(w) + 1 /\ v[Len(w) + 1] = b[1] /\ Len(w) \in Nat
  BY <1>1, <1>2
<1>9. ASSUME NEW i \in 1 .. Len(v) PROVE h < v[i] /\ v[i] <= p
  <2>1. CASE i = Len(w) + 1
    BY <1>7, <1>8, <2>1
  <2>2. CASE i \in 1 .. Len(w)
    BY <1>2, <2>2 DEF Ordered
  <2>3. QED
    BY <1>3, <1>8, <2>1, <2>2
<1>10. ASSUME NEW i \in 1 .. Len(v), NEW j \in 1 .. Len(v), i < j PROVE v[i] < v[j]
  <2>0. i \in 1 .. Len(w)
    BY <1>8, <1>10
  <2>1. CASE j = Len(w) + 1
    BY <1>2, <1>6, <1>8, <2>0, <2>1
  <2>2. CASE j \in 1 .. Len(w)
    BY <1>2, <1>10, <2>0, <2>2 DEF Ordered
  <2>3. QED
    BY <1>3, <1>8, <2>1, <2>2
<1>11. ASSUME NEW i \in 1 .. Len(v), NEW j \in 1 .. Len(Tail(b)) PROVE v[i] < Tail(b)[j]
  <2>1. CASE i = Len(w) + 1
    BY <1>5, <1>8, <2>1
  <2>2. CASE i \in 1 .. Len(w)
    BY <1>2, <1>4, <2>2 DEF Ordered
  <2>3. QED
    BY <1>3, <1>8, <2>1, <2>2
<1>12. Ordered(h, v, Tail(b), p)
  BY <1>2, <1>4, <1>9, <1>10, <1>11 DEF Ordered
<1>13. QED
  BY <1>4, <1>12 DEF v

LEMMA DenseSend ==
  ASSUME NEW h, NEW w, NEW b, NEW p, Dense(h, w, b, p), b # << >>
  PROVE  Dense(h, w \o <<Head(b)>>, Tail(b), p)
<1> DEFINE v == w \o <<Head(b)>>
<1>0. w \in Seq(Nat) /\ b \in Seq(Nat)
  BY DEF Dense
<1>1. /\ Len(b) \in Nat \ {0} /\ Head(b) = b[1] /\ Head(b) \in Nat
      /\ Tail(b) \in Seq(Nat) /\ Len(Tail(b)) = Len(b) - 1
      /\ \A i \in 1 .. Len(b) - 1 : Tail(b)[i] = b[i + 1] /\ i + 1 \in 1 .. Len(b)
  BY <1>0, Shorter
<1>2. /\ v \in Seq(Nat) /\ Len(v) = Len(w) + 1 /\ Len(w) \in Nat
      /\ \A i \in 1 .. Len(w) : v[i] = w[i]
      /\ v[Len(w) + 1] = Head(b)
  BY <1>0, <1>1, Longer
<1>3. \A i \in 1 .. Len(w) + 1 : i \in 1 .. Len(w) \/ i = Len(w) + 1
  BY <1>2
<1> HIDE DEF v
<1>4. b[1] = h + Len(w) + 1
  BY <1>1 DEF Dense
<1>5. ASSUME NEW j \in 1 .. Len(Tail(b)) PROVE Tail(b)[j] = h + Len(v) + j
  <2>1. j \in 1 .. Len(b) - 1
    BY <1>1
  <2>2. Tail(b)[j] = b[j + 1] /\ j + 1 \in 1 .. Len(b)
    BY <1>1, <2>1
  <2>3. b[j + 1] = h + Len(w) + (j + 1)
    BY <2>2 DEF Dense
  <2>4. QED
    BY <1>2, <2>1, <2>2, <2>3 DEF Dense
<1>6. ASSUME NEW i \in 1 .. Len(v) PROVE v[i] = h + i
  <2>1. CASE i = Len(w) + 1
    BY <1>1, <1>2, <1>4, <2>1 DEF Dense
  <2>2. CASE i \in 1 .. Len(w)
    BY <1>2, <2>2 DEF Dense
  <2>3. QED
    BY <1>2, <1>3, <2>1, <2>2
<1>7. h + Len(v) + Len(Tail(b)) = p
  <2>1. h + Len(w) + Len(b) = p /\ h \in Nat
    BY DEF Dense
  <2>2. QED
    BY <1>1, <1>2, <2>1
<1>8. Dense(h, v, Tail(b), p)
  BY <1>1, <1>2, <1>5, <1>6, <1>7 DEF Dense
<1>9. QED
  BY <1>8 DEF v

\* One comes to the page.
LEMMA OrderedPop ==
  ASSUME NEW h, NEW w, NEW b, NEW p, Ordered(h, w, b, p), w # << >>
  PROVE  Ordered(Head(w), Tail(w), b, p) /\ h < Head(w) /\ Head(w) <= p /\ Head(w) \in Nat
<1>0. w \in Seq(Nat) /\ b \in Seq(Nat)
  BY DEF Ordered
<1>1. /\ Len(w) \in Nat \ {0} /\ Head(w) = w[1] /\ Head(w) \in Nat
      /\ Tail(w) \in Seq(Nat) /\ Len(Tail(w)) = Len(w) - 1
      /\ \A i \in 1 .. Len(w) - 1 : Tail(w)[i] = w[i + 1] /\ i + 1 \in 1 .. Len(w)
  BY <1>0, Shorter
<1>2. h < w[1] /\ w[1] <= p
  BY <1>1 DEF Ordered
<1>3. \A j \in 1 .. Len(Tail(w)) : w[1] < Tail(w)[j]
  BY <1>1 DEF Ordered
<1>4. \A j \in 1 .. Len(b) : w[1] < b[j]
  BY <1>1 DEF Ordered
<1>5. QED
  BY <1>0, <1>1, <1>2, <1>3, <1>4 DEF Ordered

LEMMA DensePop ==
  ASSUME NEW h, NEW w, NEW b, NEW p, Dense(h, w, b, p), w # << >>
  PROVE  Dense(Head(w), Tail(w), b, p)
<1>0. w \in Seq(Nat) /\ b \in Seq(Nat)
  BY DEF Dense
<1>1. /\ Len(w) \in Nat \ {0} /\ Head(w) = w[1] /\ Head(w) \in Nat
      /\ Tail(w) \in Seq(Nat) /\ Len(Tail(w)) = Len(w) - 1
      /\ \A i \in 1 .. Len(w) - 1 : Tail(w)[i] = w[i + 1] /\ i + 1 \in 1 .. Len(w)
  BY <1>0, Shorter
<1>2. w[1] = h + 1
  BY <1>1 DEF Dense
<1>3. ASSUME NEW i \in 1 .. Len(Tail(w)) PROVE Tail(w)[i] = w[1] + i
  <2>1. i \in 1 .. Len(w) - 1
    BY <1>1
  <2>2. Tail(w)[i] = w[i + 1] /\ i + 1 \in 1 .. Len(w)
    BY <1>1, <2>1
  <2>3. w[i + 1] = h + (i + 1)
    BY <2>2 DEF Dense
  <2>4. QED
    BY <1>2, <2>1, <2>2, <2>3 DEF Dense
<1>4. ASSUME NEW j \in 1 .. Len(b) PROVE b[j] = w[1] + Len(Tail(w)) + j
  <2>1. b[j] = h + Len(w) + j
    BY DEF Dense
  <2>2. QED
    BY <1>1, <1>2, <2>1 DEF Dense
<1>5. w[1] + Len(Tail(w)) + Len(b) = p
  <2>1. h + Len(w) + Len(b) = p /\ Len(b) \in Nat /\ h \in Nat
    BY <1>0 DEF Dense
  <2>2. QED
    BY <1>1, <1>2, <2>1
<1>6. QED
  BY <1>0, <1>1, <1>3, <1>4, <1>5 DEF Dense

\* Frames are lost: all of them, or those the forwarder was to read.
LEMMA OrderedLoss ==
  ASSUME NEW h, NEW w, NEW b, NEW p, Ordered(h, w, b, p)
  PROVE  Ordered(0, << >>, b, p) /\ Ordered(h, w, << >>, p)
BY Empty DEF Ordered

\* The three parts in a row.
LEMMA Joined ==
  ASSUME NEW h \in Nat, NEW w \in Seq(Nat), NEW b \in Seq(Nat)
  PROVE  LET all == <<h>> \o w \o b IN
         /\ all \in Seq(Nat) /\ Len(all) = 1 + Len(w) + Len(b)
         /\ DOMAIN all = 1 .. 1 + Len(w) + Len(b)
         /\ Len(w) \in Nat /\ Len(b) \in Nat
         /\ all[1] = h
         /\ \A i \in 1 .. Len(w) : all[1 + i] = w[i]
         /\ \A j \in 1 .. Len(b) : all[1 + Len(w) + j] = b[j]
<1> DEFINE hw == <<h>> \o w
<1>1. /\ hw \in Seq(Nat) /\ Len(hw) = 1 + Len(w) /\ Len(w) \in Nat /\ hw[1] = h
      /\ \A i \in 1 .. Len(w) : hw[1 + i] = w[i]
  OBVIOUS
<1> HIDE DEF hw
<1> DEFINE all == hw \o b
<1>2. /\ all \in Seq(Nat) /\ Len(all) = Len(hw) + Len(b) /\ Len(b) \in Nat
      /\ DOMAIN all = 1 .. Len(all)
      /\ \A k \in 1 .. Len(hw) : all[k] = hw[k]
      /\ \A j \in 1 .. Len(b) : all[Len(hw) + j] = b[j]
  <2>1. Len(hw) \in Nat /\ Len(b) \in Nat /\ hw \in Seq(Nat)
    BY <1>1
  <2>2. /\ all \in Seq(Nat) /\ Len(all) = Len(hw) + Len(b) /\ DOMAIN all = 1 .. Len(all)
    BY <2>1
  <2>3. \A k \in 1 .. Len(hw) : all[k] = hw[k]
    BY <2>1
  <2>4. ASSUME NEW j \in 1 .. Len(b) PROVE all[Len(hw) + j] = b[j]
    <3>1. Len(hw) + j \in 1 .. Len(hw) + Len(b) /\ Len(hw) + j > Len(hw) /\ Len(hw) + j - Len(hw) = j
      BY <2>1
    <3>2. all[Len(hw) + j] = b[Len(hw) + j - Len(hw)]
      BY <2>1, <3>1
    <3>3. QED
      BY <3>1, <3>2
  <2>5. QED
    BY <2>1, <2>2, <2>3, <2>4
<1> HIDE DEF all
<1>3. all[1] = h
  BY <1>1, <1>2
<1>4. ASSUME NEW i \in 1 .. Len(w) PROVE all[1 + i] = w[i]
  <2>1. 1 + i \in 1 .. Len(hw)
    BY <1>1
  <2>2. QED
    BY <1>1, <1>2, <2>1
<1>5. ASSUME NEW j \in 1 .. Len(b) PROVE all[1 + Len(w) + j] = b[j]
  BY <1>1, <1>2
<1>6. /\ all \in Seq(Nat) /\ Len(all) = 1 + Len(w) + Len(b)
      /\ DOMAIN all = 1 .. 1 + Len(w) + Len(b)
      /\ Len(w) \in Nat /\ Len(b) \in Nat
      /\ all[1] = h
      /\ \A i \in 1 .. Len(w) : all[1 + i] = w[i]
      /\ \A j \in 1 .. Len(b) : all[1 + Len(w) + j] = b[j]
  BY <1>1, <1>2, <1>3, <1>4, <1>5
<1>7. QED
  BY <1>6 DEF all, hw

LEMMA OrderedRises ==
  ASSUME NEW h, NEW w, NEW b, NEW p, Ordered(h, w, b, p)
  PROVE  LET all == <<h>> \o w \o b IN
         \A i \in 1 .. Len(all) - 1 : all[i] < all[i + 1]
<1> DEFINE all == <<h>> \o w \o b
<1>0. h \in Nat /\ w \in Seq(Nat) /\ b \in Seq(Nat)
  BY DEF Ordered
<1>1. /\ all \in Seq(Nat) /\ Len(all) = 1 + Len(w) + Len(b)
      /\ Len(w) \in Nat /\ Len(b) \in Nat
      /\ all[1] = h
      /\ \A i \in 1 .. Len(w) : all[1 + i] = w[i]
      /\ \A j \in 1 .. Len(b) : all[1 + Len(w) + j] = b[j]
  BY <1>0, Joined
<1> HIDE DEF all
<1>2. SUFFICES ASSUME NEW i \in 1 .. Len(all) - 1 PROVE all[i] < all[i + 1]
  BY DEF all
<1>3. i \in Nat /\ 1 <= i /\ i <= Len(w) + Len(b)
  BY <1>1
<1>4. CASE i = 1 /\ Len(w) > 0
  <2>1. 1 \in 1 .. Len(w)
    BY <1>1, <1>4
  <2>2. all[1 + 1] = w[1] /\ h < w[1]
    BY <1>1, <2>1 DEF Ordered
  <2>3. QED
    BY <1>1, <1>4, <2>2
<1>5. CASE i = 1 /\ Len(w) = 0
  <2>1. 1 \in 1 .. Len(b)
    BY <1>1, <1>3, <1>5
  <2>2. all[1 + Len(w) + 1] = b[1] /\ h < b[1]
    BY <1>1, <2>1 DEF Ordered
  <2>3. QED
    BY <1>1, <1>5, <2>2
<1>6. CASE i > 1 /\ i <= Len(w)
  <2>1. PICK n \in Nat : n = i - 1
    BY <1>3, <1>6
  <2>2. n \in 1 .. Len(w) /\ n + 1 \in 1 .. Len(w) /\ i = 1 + n /\ i + 1 = 1 + (n + 1)
    BY <1>1, <1>3, <1>6, <2>1
  <2>3. all[1 + n] = w[n] /\ all[1 + (n + 1)] = w[n + 1] /\ w[n] < w[n + 1]
    BY <1>1, <2>2 DEF Ordered
  <2>4. QED
    BY <2>2, <2>3
<1>7. CASE i > 1 /\ i = Len(w) + 1
  <2>1. Len(w) \in 1 .. Len(w) /\ 1 \in 1 .. Len(b) /\ i = 1 + Len(w) /\ i + 1 = 1 + Len(w) + 1
    BY <1>1, <1>3, <1>7
  <2>2. all[1 + Len(w)] = w[Len(w)] /\ all[1 + Len(w) + 1] = b[1] /\ w[Len(w)] < b[1]
    BY <1>1, <2>1 DEF Ordered
  <2>3. QED
    BY <2>1, <2>2
<1>8. CASE i > Len(w) + 1
  <2> DEFINE n == i - 1 - Len(w)
  <2>2. /\ n \in 1 .. Len(b) /\ n + 1 \in 1 .. Len(b)
        /\ i = 1 + Len(w) + n /\ i + 1 = 1 + Len(w) + (n + 1)
    BY <1>1, <1>3, <1>8, SMTT(30)
  <2> HIDE DEF n
  <2>3. /\ all[1 + Len(w) + n] = b[n] /\ all[1 + Len(w) + (n + 1)] = b[n + 1]
        /\ b[n] < b[n + 1]
    BY <1>1, <2>2 DEF Ordered
  <2>4. QED
    BY <2>2, <2>3
<1>9. QED
  BY <1>1, <1>3, <1>4, <1>5, <1>6, <1>7, <1>8, SMTT(30)

LEMMA DenseIsRun ==
  ASSUME NEW h, NEW w, NEW b, NEW p, Dense(h, w, b, p)
  PROVE  <<h>> \o w \o b = [i \in 1 .. p - h + 1 |-> h + i - 1]
<1> DEFINE all == <<h>> \o w \o b
<1>0. h \in Nat /\ p \in Nat /\ w \in Seq(Nat) /\ b \in Seq(Nat)
  BY DEF Dense
<1>1. /\ all \in Seq(Nat) /\ DOMAIN all = 1 .. 1 + Len(w) + Len(b)
      /\ Len(w) \in Nat /\ Len(b) \in Nat
      /\ all[1] = h
      /\ \A i \in 1 .. Len(w) : all[1 + i] = w[i]
      /\ \A j \in 1 .. Len(b) : all[1 + Len(w) + j] = b[j]
  BY <1>0, Joined
<1> HIDE DEF all
<1>2. p - h + 1 = 1 + Len(w) + Len(b)
  <2>1. h + Len(w) + Len(b) = p
    BY DEF Dense
  <2>2. QED
    BY <1>0, <1>1, <2>1
<1>3. ASSUME NEW k \in 1 .. 1 + Len(w) + Len(b) PROVE all[k] = h + k - 1
  <2>1. CASE k = 1
    BY <1>0, <1>1, <2>1
  <2>2. CASE k > 1 /\ k <= 1 + Len(w)
    <3>1. PICK n \in Nat : n = k - 1
      BY <1>1, <2>2
    <3>2. n \in 1 .. Len(w) /\ k = 1 + n
      BY <1>1, <2>2, <3>1
    <3>3. all[1 + n] = w[n] /\ w[n] = h + n
      BY <1>1, <3>2 DEF Dense
    <3>4. QED
      BY <1>0, <3>2, <3>3
  <2>3. CASE k > 1 + Len(w)
    <3> DEFINE n == k - 1 - Len(w)
    <3>1. k \in Nat /\ k <= 1 + Len(w) + Len(b)
      BY <1>1
    <3>2. n \in 1 .. Len(b) /\ k = 1 + Len(w) + n
      BY <1>1, <2>3, <3>1
    <3> HIDE DEF n
    <3>3. all[1 + Len(w) + n] = b[n] /\ b[n] = h + Len(w) + n
      BY <1>1, <3>2 DEF Dense
    <3>4. QED
      BY <1>0, <1>1, <3>2, <3>3
  <2>4. QED
    BY <1>1, <2>1, <2>2, <2>3
<1>4. all = [k \in 1 .. 1 + Len(w) + Len(b) |-> all[k]]
  BY <1>1
<1>5. all = [i \in 1 .. p - h + 1 |-> h + i - 1]
  BY <1>1, <1>2, <1>3
<1>6. QED
  BY <1>5 DEF all

\* The front of a feed.
LEMMA FrontOf ==
  ASSUME NEW S, NEW q \in Seq(S), q # << >>
  PROVE  /\ Front(q) \in Seq(S) /\ Len(Front(q)) <= Keep /\ Front(q) # << >>
         /\ Len(Front(q)) \in Nat /\ Len(Front(q)) <= Len(q)
         /\ \A i \in 1 .. Len(Front(q)) : Front(q)[i] = q[i]
<1> DEFINE n == IF Len(q) < Keep THEN Len(q) ELSE Keep
<1>1. n \in Nat \ {0} /\ n <= Len(q) /\ n <= Keep /\ Front(q) = SubSeq(q, 1, n)
  BY DEF Front
<1> HIDE DEF n
<1>2. /\ SubSeq(q, 1, n) \in Seq(S) /\ Len(SubSeq(q, 1, n)) = n
      /\ \A i \in 1 .. n : SubSeq(q, 1, n)[i] = q[i]
  BY <1>1
<1>3. QED
  BY <1>1, <1>2

\* The audit on top of the feed.
Top(q) == IF q = << >> THEN 0 ELSE q[1]

Falls(q) == \A i \in 1 .. Len(q) - 1 : q[i] > q[i + 1]

LEMMA ShowsOnTop ==
  ASSUME items \in Seq(Audits), Falls(items), NEW a \in Audits, Top(items) < a
  PROVE  /\ Shows(a) \in Seq(Audits) /\ Len(Shows(a)) <= Keep
         /\ Falls(Shows(a)) /\ Top(Shows(a)) = a
<1> DEFINE q == <<a>> \o items
<1>0. Len(items) \in Nat /\ \A i \in 1 .. Len(items) : items[i] \in Audits
  OBVIOUS
<1>1. /\ q \in Seq(Audits) /\ q # << >> /\ Len(q) = 1 + Len(items) /\ q[1] = a
      /\ \A i \in 1 .. Len(items) : q[1 + i] = items[i]
  OBVIOUS
<1> HIDE DEF q
<1>2. /\ Front(q) \in Seq(Audits) /\ Len(Front(q)) <= Keep /\ Front(q) # << >>
      /\ Len(Front(q)) \in Nat /\ Len(Front(q)) <= Len(q)
      /\ \A i \in 1 .. Len(Front(q)) : Front(q)[i] = q[i]
  BY <1>1, FrontOf
<1>3. ASSUME NEW i \in 1 .. Len(q) - 1 PROVE q[i] > q[i + 1]
  <2>1. i \in 1 .. Len(items) /\ i \in Nat
    BY <1>0, <1>1
  <2>2. q[i + 1] = items[i]
    BY <1>1, <2>1
  <2>3. CASE i = 1
    <3>1. items # << >> /\ items[1] < a
      BY <1>0, <2>1, <2>3 DEF Top
    <3>2. QED
      BY <1>1, <2>2, <2>3, <3>1
  <2>4. CASE i # 1
    <3>1. PICK n \in Nat : n = i - 1
      BY <2>1, <2>4
    <3>2. n \in 1 .. Len(items) - 1 /\ n \in 1 .. Len(items) /\ n + 1 = i /\ 1 + n = i
      BY <1>0, <2>1, <2>4, <3>1
    <3>3. items[n] > items[n + 1] /\ q[1 + n] = items[n]
      BY <1>1, <3>2 DEF Falls
    <3>4. QED
      BY <2>2, <3>2, <3>3
  <2>5. QED
    BY <2>3, <2>4
<1>4. Falls(Front(q))
  BY <1>1, <1>2, <1>3 DEF Falls
<1>5. Front(q)[1] = a
  BY <1>1, <1>2
<1>6. QED
  BY <1>2, <1>4, <1>5 DEF Shows, q, Top

-----------------------------------------------------------------------------
(* The types.                                                                *)

Places == {"none", "subscribe", "wait", "notice", "idle", "cancel", "unsubscribe", "close",
           "done"}

LEMMA Going ==
  ASSUME TypeOK, NEW s \in Sockets, NEW to \in Places, Goto(s, to)
  PROVE  /\ handler' \in [Sockets -> Places] /\ handler'[s] = to
         /\ \A t \in Sockets : t # s => handler'[t] = handler[t]
BY DEF TypeOK, Goto, Places

LEMMA NoFrames ==
  /\ << >> \in Seq(Audits) /\ << >> \in Seq(Audits \cup {Info}) /\ Len(<< >>) = 0
  /\ 0 \in 0 .. LastAudit /\ 0 <= Keep
BY Empty

LEMMA AlwaysTyped == Spec => []TypeOK
<1>1. Init => TypeOK
  BY NoFrames, ZenonT(60) DEF Init, TypeOK
<1>2. TypeOK /\ [Next]_vars => TypeOK'
  <2> SUFFICES ASSUME TypeOK, [Next]_vars PROVE TypeOK'
    OBVIOUS
  <2>1. CASE UNCHANGED vars
    BY <2>1 DEF vars, page, server, pubsub, TypeOK
  <2>2. ASSUME NEW s \in Sockets, Connect(s) PROVE TypeOK'
    BY <2>2, NoFrames DEF Connect, TypeOK
  <2>3. ASSUME NEW s \in Sockets, Opened(s) PROVE TypeOK'
    BY <2>3 DEF Opened, server, pubsub, TypeOK
  <2>4. ASSUME NEW s \in Sockets, Deliver(s) PROVE TypeOK'
    <3>1. wire[s] \in Seq(Audits \cup {Info}) /\ wire[s] # << >>
      BY <2>4 DEF Deliver, TypeOK
    <3>2. Head(wire[s]) \in Audits \cup {Info} /\ Tail(wire[s]) \in Seq(Audits \cup {Info})
      BY <3>1, Shorter
    <3>3. wire' \in [Sockets -> Seq(Audits \cup {Info})]
      BY <2>4, <3>2 DEF Deliver, TypeOK
    <3>4. CASE Head(wire[s]) = Info
      BY <2>4, <3>3, <3>4 DEF Deliver, server, pubsub, TypeOK
    <3>5. CASE Head(wire[s]) # Info
      <4>1. Head(wire[s]) \in Audits
        BY <3>2, <3>5
      <4>2. <<Head(wire[s])>> \o items \in Seq(Audits) /\ <<Head(wire[s])>> \o items # << >>
        BY <4>1 DEF TypeOK
      <4>3. Shows(Head(wire[s])) \in Seq(Audits) /\ Len(Shows(Head(wire[s]))) <= Keep
        BY <4>2, FrontOf DEF Shows
      <4>4. items' \in Seq(Audits) /\ Len(items') <= Keep
        BY <2>4, <3>5, <4>3 DEF Deliver
      <4>5. heard' \in [Sockets -> 0 .. LastAudit]
        <5>1. Head(wire[s]) \in 0 .. LastAudit /\ heard' = [heard EXCEPT ![s] = Head(wire[s])]
          BY <2>4, <3>5, <4>1 DEF Deliver, Audits
        <5>2. QED
          BY <5>1 DEF TypeOK
      <4>6. QED
        BY <2>4, <3>3, <3>5, <4>4, <4>5 DEF Deliver, server, pubsub, TypeOK
    <3>6. QED
      BY <3>4, <3>5
  <2>5. ASSUME NEW s \in Sockets, Closed(s) PROVE TypeOK'
    BY <2>5, NoFrames DEF Closed, Retries, server, pubsub, TypeOK
  <2>6. ASSUME Unmount PROVE TypeOK'
    BY <2>6, NoFrames DEF Unmount, TimerCleared, server, pubsub, TypeOK
  <2>7. ASSUME NEW s \in Sockets, Accept(s) \/ Disconnected(s) \/ Close(s) PROVE TypeOK'
    <3>1. PICK to \in Places : Goto(s, to)
      BY <2>7 DEF Accept, Disconnected, Close, Places
    <3>2. QED
      BY <2>7, <3>1, Going DEF Accept, Disconnected, Close, page, pubsub, TypeOK, Places
  <2>8. ASSUME NEW s \in Sockets, Notice(s) PROVE TypeOK'
    <3>1. PICK to \in Places : Goto(s, to)
      BY <2>8 DEF Notice, Places
    <3>2. Append(wire[s], Info) \in Seq(Audits \cup {Info})
      BY DEF TypeOK
    <3>3. wire' \in [Sockets -> Seq(Audits \cup {Info})]
      BY <2>8, <3>2 DEF Notice, TypeOK
    <3>4. QED
      BY <2>8, <3>1, <3>3, Going DEF Notice, page, pubsub, TypeOK, Places
  <2>9. ASSUME NEW s \in Sockets,
               Subscribe(s) \/ SubscribeFails(s) \/ UnsubscribeFails(s) \/ Unsubscribe(s)
        PROVE  TypeOK'
    <3>1. PICK to \in Places : Goto(s, to)
      BY <2>9 DEF Subscribe, SubscribeFails, UnsubscribeFails, Unsubscribe, Places
    <3>2. handler' \in [Sockets -> Places]
      BY <3>1, Going
    <3>3. QED
      BY <2>9, <3>2 DEF Subscribe, SubscribeFails, UnsubscribeFails, Unsubscribe, page, pubsub,
                        TypeOK, Places
  <2>10. ASSUME NEW s \in Sockets, Forward(s) PROVE TypeOK'
    <3>1. buffer[s] \in Seq(Audits) /\ buffer[s] # << >> /\ wire[s] \in Seq(Audits \cup {Info})
      BY <2>10 DEF Forward, TypeOK
    <3>2. Head(buffer[s]) \in Audits /\ Tail(buffer[s]) \in Seq(Audits)
      BY <3>1, Shorter
    <3>3. wire[s] \o Sends(s) \in Seq(Audits \cup {Info})
      BY <3>1, <3>2, Longer DEF Sends
    <3>4. buffer' \in [Sockets -> Seq(Audits)]
      BY <2>10, <3>2, NoFrames DEF Forward, TypeOK
    <3>5. wire' \in [Sockets -> Seq(Audits \cup {Info})]
      BY <2>10, <3>3 DEF Forward, TypeOK
    <3>6. QED
      BY <2>10, <3>4, <3>5 DEF Forward, page, TypeOK
  <2>11. ASSUME NEW s \in Sockets, Cancel(s) PROVE TypeOK'
    <3>1. handler' \in [Sockets -> Places]
      BY <2>11, Going DEF Cancel, Places
    <3>2. QED
      BY <2>11, <3>1, NoFrames DEF Cancel, page, TypeOK, Places
  <2>12. ASSUME NEW s \in Sockets, Subscribed(s) \/ Lost(s) PROVE TypeOK'
    <3>1. CASE Subscribed(s)
      <4>1. heard' \in [Sockets -> 0 .. LastAudit]
        BY <3>1 DEF Subscribed, TypeOK
      <4>2. QED
        BY <3>1, <4>1 DEF Subscribed, page, server, TypeOK
    <3>2. CASE Lost(s)
      BY <3>2, NoFrames DEF Lost, page, TypeOK
    <3>3. QED
      BY <2>12, <3>1, <3>2
  <2>13. ASSUME Publish PROVE TypeOK'
    <3>1. published + 1 \in Audits
      BY <2>13 DEF Publish, TypeOK, Audits
    <3>2. \A s \in Sockets : Append(buffer[s], published + 1) \in Seq(Audits)
      BY <3>1 DEF TypeOK
    <3>3. buffer' \in [Sockets -> Seq(Audits)]
      BY <2>13, <3>2 DEF Publish, TypeOK
    <3>4. QED
      BY <2>13, <3>1, <3>3 DEF Publish, page, server, TypeOK, Audits
  <2>14. ASSUME Restart PROVE TypeOK'
    BY <2>14, NoFrames DEF Restart, page, TypeOK
  <2>15. QED
    BY <2>1, <2>2, <2>3, <2>4, <2>5, <2>6, <2>7, <2>8, <2>9, <2>10, <2>11, <2>12, <2>13,
       <2>14 DEF Next, Serve
<1>3. QED
  BY <1>1, <1>2, PTL DEF Spec

-----------------------------------------------------------------------------
(* The page has one socket at a time.                                        *)

Up(s) == browser[s] \in {"opening", "open"}

OneSocket ==
  /\ \A s \in Sockets : \A t \in Sockets : Up(s) /\ Up(t) => s = t
  /\ retry \/ unmounted => \A s \in Sockets : ~Up(s)
  /\ unmounted => ~retry

LEMMA SamePage ==
  ASSUME OneSocket, UNCHANGED <<browser, retry, unmounted>>
  PROVE  OneSocket'
BY DEF OneSocket, Up

LEMMA OneAtATime == Spec => []OneSocket
<1>1. Init => OneSocket
  BY DEF Init, OneSocket, Up
<1>2. TypeOK /\ OneSocket /\ [Next]_vars => OneSocket'
  <2> SUFFICES ASSUME TypeOK, OneSocket, [Next]_vars PROVE OneSocket'
    OBVIOUS
  <2>1. CASE UNCHANGED vars
    BY <2>1, SamePage DEF vars, page
  <2>2. ASSUME NEW s \in Sockets, Connect(s) PROVE OneSocket'
    BY <2>2 DEF Connect, TypeOK, OneSocket, Up
  <2>3. ASSUME NEW s \in Sockets, Opened(s) PROVE OneSocket'
    BY <2>3 DEF Opened, TypeOK, OneSocket, Up
  <2>4. ASSUME NEW s \in Sockets, Deliver(s) PROVE OneSocket'
    BY <2>4, SamePage DEF Deliver
  <2>5. ASSUME NEW s \in Sockets, Closed(s) PROVE OneSocket'
    BY <2>5 DEF Closed, TypeOK, OneSocket, Up
  <2>6. ASSUME Unmount PROVE OneSocket'
    BY <2>6 DEF Unmount, TimerCleared, TypeOK, OneSocket, Up
  <2>7. ASSUME NEW s \in Sockets, Accept(s) \/ Forward(s) \/ Serve(s) PROVE OneSocket'
    BY <2>7, SamePage DEF Accept, Forward, Serve, Notice, Subscribe, SubscribeFails,
       Disconnected, Cancel, Unsubscribe, UnsubscribeFails, Close, page
  <2>8. ASSUME NEW s \in Sockets, Subscribed(s) \/ Lost(s) PROVE OneSocket'
    BY <2>8, SamePage DEF Subscribed, Lost, page
  <2>9. ASSUME Publish \/ Restart PROVE OneSocket'
    BY <2>9, SamePage DEF Publish, Restart, page
  <2>10. QED
    BY <2>1, <2>2, <2>3, <2>4, <2>5, <2>6, <2>7, <2>8, <2>9 DEF Next
<1>3. QED
  BY <1>1, <1>2, AlwaysTyped, PTL DEF Spec

\* A page that was taken down connects no more and hears nothing.
THEOREM Unmounted == Spec => []QuietOnceUnmounted
<1>1. TypeOK /\ OneSocket => QuietOnceUnmounted
  BY DEF TypeOK, OneSocket, Up, QuietOnceUnmounted
<1>2. QED
  BY <1>1, AlwaysTyped, OneAtATime, PTL

-----------------------------------------------------------------------------
(* What a handler's stage says of its socket and its connection to Redis.    *)

StageOf(s) ==
  /\ handler[s] # "none" => browser[s] # "none"
  /\ handler[s] \in {"none", "subscribe", "notice"}
       => /\ forwarder[s] = "none" /\ wire[s] = << >> /\ buffer[s] = << >>
          /\ s \notin channel /\ s \notin lossy
  /\ forwarder[s] = "listen" => handler[s] \in {"wait", "cancel"}
  /\ handler[s] \in {"cancel", "unsubscribe", "close"} => browser[s] = "closed"
  /\ ~Up(s) => wire[s] = << >> /\ heard[s] = 0
  /\ s \in channel /\ Up(s) => handler[s] = "wait" /\ forwarder[s] = "listen"
  /\ redis => handler[s] \notin {"notice", "idle"}
  /\ ~redis => /\ handler[s] \in {"none", "notice", "idle", "done"}
               /\ forwarder[s] = "none" /\ s \notin channel

Stages == \A s \in Sockets : StageOf(s)

LEMMA StageKept ==
  ASSUME NEW s \in Sockets, StageOf(s), UNCHANGED redis,
         browser'[s] = browser[s], handler'[s] = handler[s], forwarder'[s] = forwarder[s],
         wire'[s] = wire[s], buffer'[s] = buffer[s], heard'[s] = heard[s],
         s \in channel' <=> s \in channel, s \in lossy' <=> s \in lossy
  PROVE  StageOf(s)'
BY DEF StageOf, Up

LEMMA AlwaysStaged == Spec => []Stages
<1>1. Init => Stages
  BY DEF Init, Stages, StageOf, Up
<1>2. TypeOK /\ Stages /\ [Next]_vars => Stages'
  <2> SUFFICES ASSUME TypeOK, Stages, [Next]_vars PROVE Stages'
    OBVIOUS
  <2>0. \A s \in Sockets : StageOf(s)
    BY DEF Stages
  <2>1. CASE UNCHANGED vars
    BY <2>0, <2>1, StageKept DEF vars, server, pubsub, Stages
  <2>2. ASSUME NEW s \in Sockets, NEW t \in Sockets, Connect(s) PROVE StageOf(t)'
    <3>1. CASE t = s
      BY <2>0, <2>2, <3>1 DEF Connect, TypeOK, StageOf, Up
    <3>2. CASE t # s
      BY <2>0, <2>2, <3>2, StageKept DEF Connect, TypeOK
    <3>3. QED
      BY <3>1, <3>2
  <2>3. ASSUME NEW s \in Sockets, NEW t \in Sockets, Opened(s) PROVE StageOf(t)'
    <3>1. CASE t = s
      BY <2>0, <2>3, <3>1 DEF Opened, server, pubsub, TypeOK, StageOf, Up
    <3>2. CASE t # s
      BY <2>0, <2>3, <3>2, StageKept DEF Opened, server, pubsub, TypeOK
    <3>3. QED
      BY <3>1, <3>2
  <2>4. ASSUME NEW s \in Sockets, NEW t \in Sockets, Deliver(s) PROVE StageOf(t)'
    <3>1. CASE t = s
      BY <2>0, <2>4, <3>1 DEF Deliver, server, pubsub, TypeOK, StageOf, Up
    <3>2. CASE t # s
      <4>1. wire'[t] = wire[t] /\ heard'[t] = heard[t]
        BY <2>4, <3>2 DEF Deliver, TypeOK
      <4>2. QED
        BY <2>0, <2>4, <3>2, <4>1, StageKept DEF Deliver, server, pubsub
    <3>3. QED
      BY <3>1, <3>2
  <2>5. ASSUME NEW s \in Sockets, NEW t \in Sockets, Closed(s) PROVE StageOf(t)'
    <3>1. CASE t = s
      BY <2>0, <2>5, <3>1 DEF Closed, server, pubsub, TypeOK, StageOf, Up
    <3>2. CASE t # s
      BY <2>0, <2>5, <3>2, StageKept DEF Closed, server, pubsub, TypeOK
    <3>3. QED
      BY <3>1, <3>2
  <2>6. ASSUME NEW t \in Sockets, Unmount PROVE StageOf(t)'
    BY <2>0, <2>6 DEF Unmount, server, pubsub, TypeOK, StageOf, Up
  <2>7. ASSUME NEW s \in Sockets, NEW t \in Sockets, Accept(s) \/ Disconnected(s) \/ Close(s)
        PROVE  StageOf(t)'
    <3>1. CASE t = s
      BY <2>0, <2>7, <3>1 DEF Accept, Disconnected, Close, Goto, page, pubsub, TypeOK, StageOf, Up
    <3>2. CASE t # s
      BY <2>0, <2>7, <3>2, StageKept DEF Accept, Disconnected, Close, Goto, page, pubsub, TypeOK
    <3>3. QED
      BY <3>1, <3>2
  <2>8. ASSUME NEW s \in Sockets, NEW t \in Sockets, Notice(s) PROVE StageOf(t)'
    <3>1. CASE t = s
      BY <2>0, <2>8, <3>1 DEF Notice, Goto, page, pubsub, TypeOK, StageOf, Up
    <3>2. CASE t # s
      <4>1. wire'[t] = wire[t] /\ handler'[t] = handler[t]
        BY <2>8, <3>2 DEF Notice, Goto, TypeOK
      <4>2. QED
        BY <2>0, <2>8, <3>2, <4>1, StageKept DEF Notice, page, pubsub
    <3>3. QED
      BY <3>1, <3>2
  <2>9. ASSUME NEW s \in Sockets, NEW t \in Sockets,
               Subscribe(s) \/ SubscribeFails(s) \/ UnsubscribeFails(s) \/ Unsubscribe(s)
        PROVE  StageOf(t)'
    <3>1. CASE t = s
      BY <2>0, <2>9, <3>1, ZenonT(60) DEF Subscribe, SubscribeFails, UnsubscribeFails, Unsubscribe, Goto, page,
                             pubsub, TypeOK, StageOf, Up
    <3>2. CASE t # s
      BY <2>0, <2>9, <3>2, StageKept DEF Subscribe, SubscribeFails, UnsubscribeFails, Unsubscribe,
                             Goto, page, pubsub, TypeOK
    <3>3. QED
      BY <3>1, <3>2
  <2>10. ASSUME NEW s \in Sockets, NEW t \in Sockets, Forward(s) PROVE StageOf(t)'
    <3>1. CASE t = s
      BY <2>0, <2>10, <3>1 DEF Forward, page, TypeOK, StageOf, Up
    <3>2. CASE t # s
      <4>1. wire'[t] = wire[t] /\ buffer'[t] = buffer[t] /\ forwarder'[t] = forwarder[t]
        BY <2>10, <3>2 DEF Forward, TypeOK
      <4>2. QED
        BY <2>0, <2>10, <3>2, <4>1, StageKept DEF Forward, page
    <3>3. QED
      BY <3>1, <3>2
  <2>11. ASSUME NEW s \in Sockets, NEW t \in Sockets, Cancel(s) PROVE StageOf(t)'
    <3>1. CASE t = s
      BY <2>0, <2>11, <3>1 DEF Cancel, Goto, page, TypeOK, StageOf, Up
    <3>2. CASE t # s
      BY <2>0, <2>11, <3>2, StageKept DEF Cancel, Goto, page, TypeOK
    <3>3. QED
      BY <3>1, <3>2
  <2>12. ASSUME NEW s \in Sockets, NEW t \in Sockets, Subscribed(s) PROVE StageOf(t)'
    <3>1. CASE t = s
      BY <2>0, <2>12, <3>1 DEF Subscribed, page, server, TypeOK, StageOf, Up
    <3>2. CASE t # s
      <4>1. heard'[t] = heard[t]
        BY <2>12, <3>2 DEF Subscribed, TypeOK
      <4>2. QED
        BY <2>0, <2>12, <3>2, <4>1, StageKept DEF Subscribed, page, server
    <3>3. QED
      BY <3>1, <3>2
  <2>13. ASSUME NEW s \in Sockets, NEW t \in Sockets, Lost(s) PROVE StageOf(t)'
    <3>1. CASE t = s
      BY <2>0, <2>13, <3>1 DEF Lost, page, TypeOK, StageOf, Up
    <3>2. CASE t # s
      BY <2>0, <2>13, <3>2, StageKept DEF Lost, page, TypeOK
    <3>3. QED
      BY <3>1, <3>2
  <2>14. ASSUME NEW t \in Sockets, Publish PROVE StageOf(t)'
    BY <2>0, <2>14 DEF Publish, page, server, TypeOK, StageOf, Up
  <2>15. ASSUME NEW t \in Sockets, Restart PROVE StageOf(t)'
    BY <2>0, <2>15 DEF Restart, page, TypeOK, StageOf, Up
  <2>16. QED
    BY <2>1, <2>2, <2>3, <2>4, <2>5, <2>6, <2>7, <2>8, <2>9, <2>10, <2>11, <2>12, <2>13,
       <2>14, <2>15 DEF Next, Serve, Stages
<1>3. QED
  BY <1>1, <1>2, AlwaysTyped, PTL DEF Spec

-----------------------------------------------------------------------------
(* The order of the audits, from the channel to the page.                    *)

NumberOf(s) ==
  /\ Ordered(heard[s], wire[s], buffer[s], published)
  /\ Up(s) => Ordered(Top(items), wire[s], buffer[s], published)
  /\ s \in channel /\ Up(s) /\ s \notin lossy
       => Dense(heard[s], wire[s], buffer[s], published)
  /\ forwarder[s] = "listen" /\ s \notin channel /\ s \notin lossy
       => wire[s] = << >> /\ buffer[s] = << >>

Numbers ==
  redis => /\ Top(items) \in Nat /\ Top(items) <= published
           /\ \A s \in Sockets : NumberOf(s)

\* Without Redis there is nothing but notices.
Notices ==
  ~redis => /\ items = << >>
            /\ \A s \in Sockets : \A i \in 1 .. Len(wire[s]) : wire[s][i] = Info

Line == Falls(items) /\ Numbers /\ Notices

LEMMA NumberKept ==
  ASSUME NEW s \in Sockets, NumberOf(s), UNCHANGED <<published, items>>,
         Up(s)' => Up(s), forwarder'[s] = "listen" => forwarder[s] = "listen",
         wire'[s] = wire[s], buffer'[s] = buffer[s], heard'[s] = heard[s],
         s \in channel' <=> s \in channel, s \in lossy' <=> s \in lossy
  PROVE  NumberOf(s)'
BY DEF NumberOf

\* An action that changes nothing of the line.
LEMMA LineKept ==
  ASSUME Line, UNCHANGED <<redis, published, items, wire, buffer, heard, channel, lossy>>,
         \A s \in Sockets : Up(s)' => Up(s),
         \A s \in Sockets : forwarder'[s] = "listen" => forwarder[s] = "listen"
  PROVE  Line'
<1>1. ASSUME redis, NEW s \in Sockets PROVE NumberOf(s)'
  BY <1>1, NumberKept DEF Line, Numbers
<1>2. QED
  BY <1>1 DEF Line, Numbers, Notices

\* No socket changes its notices.
LEMMA NoticesKept ==
  ASSUME Notices, UNCHANGED <<redis, items>>,
         ~redis => \A s \in Sockets : wire'[s] = wire[s] \/ wire'[s] = << >>
  PROVE  Notices'
BY Empty DEF Notices

Before == TypeOK /\ OneSocket /\ Stages

LEMMA AlwaysInLine == Spec => []Line
<1>1. Init => Line
  <2> SUFFICES ASSUME Init PROVE Line
    OBVIOUS
  <2>0. Ordered(0, << >>, << >>, 0) /\ Top(items) = 0 /\ published = 0
    BY OrderedNone DEF Init, Top
  <2>1. \A s \in Sockets : NumberOf(s)
    BY <2>0 DEF Init, NumberOf
  <2>2. QED
    BY <2>1, Empty DEF Init, Line, Numbers, Notices, Falls, Top
<1>2. Before /\ Line /\ [Next]_vars => Line'
  <2> SUFFICES ASSUME Before, Line, [Next]_vars PROVE Line'
    OBVIOUS
  <2> TypeOK
    BY DEF Before
  <2>0. \A s \in Sockets : StageOf(s)
    BY DEF Before, Stages
  <2>1. CASE UNCHANGED vars
    BY <2>1, LineKept DEF vars, page, server, pubsub, Up
  <2>2. ASSUME NEW s \in Sockets, Connect(s) PROVE Line'
    <3>1. /\ wire'[s] = << >> /\ buffer'[s] = << >> /\ heard'[s] = 0 /\ forwarder'[s] = "none"
          /\ UNCHANGED <<redis, published, items>> /\ s \notin channel'
          /\ \A t \in Sockets : t # s =>
               /\ wire'[t] = wire[t] /\ buffer'[t] = buffer[t] /\ heard'[t] = heard[t]
               /\ forwarder'[t] = forwarder[t] /\ browser'[t] = browser[t]
               /\ t \in channel' <=> t \in channel
               /\ t \in lossy' <=> t \in lossy
      BY <2>2 DEF Connect, TypeOK
    <3>2. ASSUME redis, NEW t \in Sockets PROVE NumberOf(t)'
      <4>1. CASE t = s
        <5>1. Ordered(0, << >>, << >>, published) /\ Ordered(Top(items), << >>, << >>, published)
          BY <3>2, OrderedNone DEF Line, Numbers, TypeOK
        <5>2. QED
          BY <3>1, <4>1, <5>1 DEF NumberOf
      <4>2. CASE t # s
        BY <3>1, <3>2, <4>2, NumberKept DEF Line, Numbers, Up
      <4>3. QED
        BY <4>1, <4>2
    <3>3. Notices'
      BY <3>1, NoticesKept DEF Line
    <3>4. QED
      BY <3>1, <3>2, <3>3 DEF Line, Numbers, Falls
  <2>3. ASSUME NEW s \in Sockets, Opened(s) PROVE Line'
    BY <2>3, LineKept DEF Opened, server, pubsub, TypeOK, Up
  <2>4. ASSUME NEW s \in Sockets, Deliver(s) PROVE Line'
    <3>1. /\ Up(s) /\ wire[s] # << >> /\ wire'[s] = Tail(wire[s])
          /\ wire[s] \in Seq(Audits \cup {Info}) /\ Head(wire[s]) \in Audits \cup {Info}
          /\ UNCHANGED <<browser, forwarder, redis, published, buffer, channel, lossy>>
          /\ \A t \in Sockets : t # s => wire'[t] = wire[t] /\ ~Up(t)
      BY <2>4, Shorter DEF Deliver, server, pubsub, TypeOK, Up, Before, OneSocket
    <3>2. CASE redis
      <4>1. NumberOf(s) /\ Top(items) \in Nat
        BY <3>2 DEF Line, Numbers
      <4> DEFINE a == Head(wire[s])
      <4>2. /\ Ordered(a, Tail(wire[s]), buffer[s], published)
            /\ heard[s] < a /\ a <= published /\ a \in Nat /\ heard[s] \in Nat
        BY <3>1, <4>1, OrderedPop DEF NumberOf, TypeOK
      <4>3. Top(items) < a
        BY <3>1, <4>1, OrderedPop DEF NumberOf
      <4>4. a \in Audits /\ a # Info
        BY <3>1, <4>2 DEF Info
      <4>5. items' = Shows(a) /\ heard' = [heard EXCEPT ![s] = a]
        BY <2>4, <4>4 DEF Deliver
      <4>6. items \in Seq(Audits) /\ Falls(items)
        BY DEF Line, TypeOK
      <4>7. Falls(Shows(a)) /\ Top(Shows(a)) = a
        BY <4>3, <4>4, <4>6, ShowsOnTop
      <4>8. Falls(items)' /\ Top(items)' = a
        BY <4>5, <4>7 DEF Falls, Top
      <4>9. heard'[s] = a /\ \A t \in Sockets : t # s => heard'[t] = heard[t]
        BY <4>5 DEF TypeOK
      <4>10. s \in channel /\ s \notin lossy => Dense(a, Tail(wire[s]), buffer[s], published)
        BY <3>1, <4>1, DensePop DEF NumberOf
      <4>11. forwarder[s] = "listen" /\ s \notin channel => s \in lossy
        BY <3>1, <4>1 DEF NumberOf
      <4> HIDE DEF a
      <4>12. NumberOf(s)'
        BY <3>1, <4>2, <4>8, <4>9, <4>10, <4>11 DEF NumberOf
      <4>13. ASSUME NEW t \in Sockets, t # s PROVE NumberOf(t)'
        BY <3>1, <3>2, <4>9, <4>13 DEF NumberOf, Up, Line, Numbers
      <4>14. QED
        BY <3>1, <3>2, <4>2, <4>8, <4>12, <4>13 DEF Line, Numbers, Notices
    <3>3. CASE ~redis
      <4>1. Head(wire[s]) = Info
        BY <3>1, <3>3, Shorter DEF Line, Notices
      <4>2. UNCHANGED items
        BY <2>4, <4>1 DEF Deliver
      <4>3. \A i \in 1 .. Len(Tail(wire[s])) : Tail(wire[s])[i] = Info
        <5>1. /\ Len(wire[s]) \in Nat \ {0} /\ Len(Tail(wire[s])) = Len(wire[s]) - 1
              /\ \A i \in 1 .. Len(wire[s]) - 1 :
                   Tail(wire[s])[i] = wire[s][i + 1] /\ i + 1 \in 1 .. Len(wire[s])
          BY <3>1, Shorter
        <5>2. QED
          BY <3>3, <5>1 DEF Line, Notices
      <4>4. \A t \in Sockets : \A i \in 1 .. Len(wire'[t]) : wire'[t][i] = Info
        BY <3>1, <3>3, <4>3 DEF Line, Notices
      <4>5. QED
        BY <3>1, <3>3, <4>2, <4>4 DEF Line, Numbers, Notices, Falls
    <3>4. QED
      BY <3>2, <3>3
  <2>5. ASSUME NEW s \in Sockets, Closed(s) PROVE Line'
    <3>1. /\ wire'[s] = << >> /\ heard'[s] = 0 /\ ~Up(s)'
          /\ UNCHANGED <<items, forwarder, redis, published, buffer, channel, lossy>>
          /\ \A t \in Sockets : t # s =>
               wire'[t] = wire[t] /\ heard'[t] = heard[t] /\ browser'[t] = browser[t]
      BY <2>5 DEF Closed, server, pubsub, TypeOK, Up
    <3>2. ASSUME redis, NEW t \in Sockets PROVE NumberOf(t)'
      <4>1. CASE t = s
        <5>1. Ordered(0, << >>, buffer[s], published)
          BY <3>2, OrderedLoss DEF Line, Numbers, NumberOf
        <5>2. forwarder[s] = "listen" /\ s \notin channel /\ s \notin lossy => buffer[s] = << >>
          BY <3>2 DEF Line, Numbers, NumberOf
        <5>3. QED
          BY <3>1, <4>1, <5>1, <5>2 DEF NumberOf
      <4>2. CASE t # s
        BY <3>1, <3>2, <4>2, NumberKept DEF Line, Numbers, Up
      <4>3. QED
        BY <4>1, <4>2
    <3>3. Notices'
      BY <3>1, NoticesKept DEF Line
    <3>4. QED
      BY <3>1, <3>2, <3>3 DEF Line, Numbers, Falls
  <2>6. ASSUME Unmount PROVE Line'
    <3>1. /\ \A t \in Sockets : wire'[t] = << >> /\ heard'[t] = 0 /\ ~Up(t)'
          /\ UNCHANGED <<items, forwarder, redis, published, buffer, channel, lossy>>
      BY <2>6 DEF Unmount, server, pubsub, TypeOK, Up
    <3>2. ASSUME redis, NEW t \in Sockets PROVE NumberOf(t)'
      <4>1. Ordered(0, << >>, buffer[t], published)
        BY <3>2, OrderedLoss DEF Line, Numbers, NumberOf
      <4>2. forwarder[t] = "listen" /\ t \notin channel /\ t \notin lossy => buffer[t] = << >>
        BY <3>2 DEF Line, Numbers, NumberOf
      <4>3. QED
        BY <3>1, <4>1, <4>2 DEF NumberOf
    <3>3. Notices'
      BY <3>1, NoticesKept DEF Line
    <3>4. QED
      BY <3>1, <3>2, <3>3 DEF Line, Numbers, Falls
  <2>7. ASSUME NEW s \in Sockets,
               \/ Accept(s) \/ Disconnected(s) \/ Close(s)
               \/ SubscribeFails(s) \/ UnsubscribeFails(s)
        PROVE  Line'
    BY <2>7, LineKept DEF Accept, Disconnected, Close, SubscribeFails, UnsubscribeFails, page,
                          pubsub, Up
  <2>8. ASSUME NEW s \in Sockets, Notice(s) PROVE Line'
    <3>1. /\ ~redis /\ UNCHANGED <<items, redis>> /\ wire[s] = << >>
      BY <2>0, <2>8 DEF Notice, StageOf, page, pubsub
    <3>2. wire'[s] = << >> \/ wire'[s] = <<Info>>
      BY <2>8, <3>1 DEF Notice, TypeOK
    <3>3. \A t \in Sockets : t # s => wire'[t] = wire[t]
      BY <2>8 DEF Notice, TypeOK
    <3>4. \A t \in Sockets : \A i \in 1 .. Len(wire'[t]) : wire'[t][i] = Info
      BY <3>1, <3>2, <3>3, Empty DEF Line, Notices
    <3>5. QED
      BY <3>1, <3>4 DEF Line, Numbers, Notices, Falls
  <2>9. ASSUME NEW s \in Sockets, Subscribe(s) PROVE Line'
    <3>1. /\ wire[s] = << >> /\ buffer[s] = << >>
          /\ UNCHANGED <<items, browser, wire, heard, redis, published, buffer, channel, lossy>>
          /\ \A t \in Sockets : t # s => forwarder'[t] = forwarder[t]
      BY <2>0, <2>9 DEF Subscribe, StageOf, page, pubsub, TypeOK
    <3>2. ASSUME redis, NEW t \in Sockets PROVE NumberOf(t)'
      BY <3>1, <3>2 DEF NumberOf, Line, Numbers, Up
    <3>3. QED
      BY <3>1, <3>2 DEF Line, Numbers, Notices, Falls
  <2>10. ASSUME NEW s \in Sockets, Forward(s) PROVE Line'
    <3>1. /\ redis /\ buffer[s] # << >> /\ UNCHANGED <<items, browser, heard, redis, published, channel, lossy>>
          /\ forwarder[s] = "listen"
          /\ \A t \in Sockets : t # s =>
               wire'[t] = wire[t] /\ buffer'[t] = buffer[t] /\ forwarder'[t] = forwarder[t]
      BY <2>0, <2>10 DEF Forward, StageOf, page, TypeOK
    <3>2. NumberOf(s)
      BY <3>1 DEF Line, Numbers
    <3>3. CASE browser[s] = "closed"
      <4>1. /\ wire'[s] = wire[s] /\ ~Up(s) /\ wire[s] = << >>
            /\ buffer'[s] = Tail(buffer[s]) \/ buffer'[s] = << >>
        BY <2>0, <2>10, <3>3 DEF Forward, StageOf, TypeOK, Up
      <4>2. Ordered(heard[s], wire[s], buffer'[s], published)
        BY <3>1, <3>2, <4>1, OrderedSend, OrderedLoss DEF NumberOf
      <4>3. forwarder[s] = "listen" /\ s \notin channel => s \in lossy
        BY <3>1, <3>2 DEF NumberOf
      <4>4. NumberOf(s)'
        BY <3>1, <4>1, <4>2, <4>3 DEF NumberOf, Up
      <4>5. QED
        BY <3>1, <4>4, NumberKept DEF Line, Numbers, Notices, Falls, Up
    <3>4. CASE browser[s] # "closed"
      <4>1. /\ wire'[s] = wire[s] \o <<Head(buffer[s])>> /\ buffer'[s] = Tail(buffer[s])
            /\ forwarder' = forwarder
        BY <2>10, <3>4 DEF Forward, Sends, TypeOK
      <4>2. Ordered(heard[s], wire'[s], buffer'[s], published)
        BY <3>1, <3>2, <4>1, OrderedSend DEF NumberOf
      <4>3. Up(s) => Ordered(Top(items), wire'[s], buffer'[s], published)
        BY <3>1, <3>2, <4>1, OrderedSend DEF NumberOf
      <4>4. s \in channel /\ Up(s) /\ s \notin lossy
              => Dense(heard[s], wire'[s], buffer'[s], published)
        BY <3>1, <3>2, <4>1, DenseSend DEF NumberOf
      <4>5. forwarder[s] = "listen" /\ s \notin channel => s \in lossy
        BY <3>1, <3>2 DEF NumberOf
      <4>6. NumberOf(s)'
        BY <3>1, <4>2, <4>3, <4>4, <4>5 DEF NumberOf, Up, Top
      <4>7. QED
        BY <3>1, <4>6, NumberKept DEF Line, Numbers, Notices, Falls, Up
    <3>5. QED
      BY <3>3, <3>4
  <2>11. ASSUME NEW s \in Sockets, Cancel(s) PROVE Line'
    <3>1. /\ ~Up(s) /\ wire[s] = << >> /\ buffer'[s] = << >> /\ forwarder'[s] = "ended"
          /\ UNCHANGED <<items, browser, wire, heard, redis, published, channel>>
          /\ \A t \in Sockets : t # s =>
               /\ buffer'[t] = buffer[t] /\ forwarder'[t] = forwarder[t]
               /\ t \in lossy' <=> t \in lossy
      BY <2>0, <2>11 DEF Cancel, StageOf, page, TypeOK, Up
    <3>2. ASSUME redis, NEW t \in Sockets PROVE NumberOf(t)'
      <4>1. CASE t = s
        <5>1. Ordered(heard[s], wire[s], << >>, published)
          BY <3>2, OrderedLoss DEF Line, Numbers, NumberOf
        <5>2. QED
          BY <3>1, <4>1, <5>1 DEF NumberOf, Up
      <4>2. CASE t # s
        BY <3>1, <3>2, <4>2, NumberKept DEF Line, Numbers, Up
      <4>3. QED
        BY <4>1, <4>2
    <3>3. QED
      BY <3>1, <3>2 DEF Line, Numbers, Notices, Falls
  <2>12. ASSUME NEW s \in Sockets, Unsubscribe(s) PROVE Line'
    <3>1. /\ ~Up(s) /\ forwarder[s] # "listen"
          /\ UNCHANGED <<items, browser, forwarder, wire, heard, redis, published, buffer, lossy>>
          /\ \A t \in Sockets : t # s => (t \in channel' <=> t \in channel)
      BY <2>0, <2>12 DEF Unsubscribe, StageOf, page, TypeOK, Up
    <3>2. ASSUME redis, NEW t \in Sockets PROVE NumberOf(t)'
      BY <3>1, <3>2 DEF NumberOf, Line, Numbers, Up
    <3>3. QED
      BY <3>1, <3>2 DEF Line, Numbers, Notices, Falls
  <2>13. ASSUME NEW s \in Sockets, Subscribed(s) PROVE Line'
    <3>1. /\ redis /\ s \notin channel /\ channel' = channel \cup {s} /\ forwarder[s] = "listen"
          /\ UNCHANGED <<items, browser, forwarder, wire, redis, published, buffer, lossy>>
          /\ \A t \in Sockets : t # s => heard'[t] = heard[t]
          /\ s \in lossy \/ browser[s] = "closed" => heard'[s] = heard[s]
          /\ ~(s \in lossy \/ browser[s] = "closed") => heard'[s] = published
      BY <2>0, <2>13 DEF Subscribed, StageOf, page, server, TypeOK
    <3>2. NumberOf(s)
      BY <3>1 DEF Line, Numbers
    <3>3. CASE s \in lossy \/ browser[s] = "closed"
      BY <3>1, <3>2, <3>3, NumberKept DEF Line, Numbers, Notices, NumberOf, Falls, Up
    <3>4. CASE ~(s \in lossy \/ browser[s] = "closed")
      <4>1. wire[s] = << >> /\ buffer[s] = << >> /\ heard'[s] = published /\ published \in Nat
        BY <3>1, <3>2, <3>4 DEF NumberOf, TypeOK
      <4>2. Ordered(published, << >>, << >>, published) /\ Dense(published, << >>, << >>, published)
        BY <4>1, OrderedNone, DenseNone
      <4>3. NumberOf(s)'
        BY <3>1, <3>2, <4>1, <4>2 DEF NumberOf, Up, Top
      <4>4. QED
        BY <3>1, <4>3, NumberKept DEF Line, Numbers, Notices, Falls, Up
    <3>5. QED
      BY <3>3, <3>4
  <2>14. ASSUME NEW s \in Sockets, Lost(s) PROVE Line'
    <3>1. /\ redis /\ buffer'[s] = << >> /\ s \in lossy'
          /\ UNCHANGED <<items, browser, wire, heard, redis, published>>
          /\ \A t \in Sockets : t # s =>
               /\ buffer'[t] = buffer[t] /\ forwarder'[t] = forwarder[t]
               /\ t \in lossy' <=> t \in lossy
               /\ t \in channel' <=> t \in channel
      BY <2>0, <2>14 DEF Lost, StageOf, page, TypeOK
    <3>2. NumberOf(s)
      BY <3>1 DEF Line, Numbers
    <3>3. /\ Ordered(heard[s], wire[s], << >>, published)
          /\ Up(s) => Ordered(Top(items), wire[s], << >>, published)
      BY <3>2, OrderedLoss DEF NumberOf
    <3>4. NumberOf(s)'
      BY <3>1, <3>3 DEF NumberOf, Up, Top
    <3>5. QED
      BY <3>1, <3>4, NumberKept DEF Line, Numbers, Notices, Falls, Up
  <2>15. ASSUME Publish PROVE Line'
    <3>1. /\ redis /\ published' = published + 1 /\ published \in Nat
          /\ UNCHANGED <<items, browser, forwarder, wire, heard, redis, channel, lossy>>
          /\ \A t \in Sockets :
               buffer'[t] = IF t \in channel /\ forwarder[t] = "listen"
                            THEN Append(buffer[t], published + 1) ELSE buffer[t]
      BY <2>15 DEF Publish, page, server, TypeOK
    <3>2. ASSUME NEW t \in Sockets PROVE NumberOf(t)'
      <4>1. NumberOf(t)
        BY <3>1 DEF Line, Numbers
      <4>2. Ordered(heard[t], wire[t], buffer'[t], published + 1)
        BY <3>1, <4>1, OrderedPublish DEF NumberOf
      <4>3. Up(t) => Ordered(Top(items), wire[t], buffer'[t], published + 1)
        BY <3>1, <4>1, OrderedPublish DEF NumberOf
      <4>4. t \in channel /\ Up(t) /\ t \notin lossy
              => Dense(heard[t], wire[t], buffer'[t], published + 1)
        BY <2>0, <3>1, <4>1, DensePublish DEF NumberOf, StageOf
      <4>5. t \notin channel => buffer'[t] = buffer[t]
        BY <3>1
      <4>6. QED
        BY <3>1, <4>1, <4>2, <4>3, <4>4, <4>5 DEF NumberOf, Up, Top
    <3>3. Top(items) \in Nat /\ Top(items) <= published
      BY <3>1 DEF Line, Numbers
    <3>4. QED
      BY <3>1, <3>2, <3>3 DEF Line, Numbers, Notices, Falls, Top
  <2>16. ASSUME Restart PROVE Line'
    <3>1. /\ UNCHANGED <<items, browser, wire, heard, redis, published, lossy>>
          /\ \A t \in Sockets : buffer'[t] = << >> /\ forwarder'[t] # "listen"
          /\ channel' = {}
      BY <2>16 DEF Restart, page, TypeOK
    <3>2. ASSUME redis, NEW t \in Sockets PROVE NumberOf(t)'
      <4>1. /\ Ordered(heard[t], wire[t], << >>, published)
            /\ Up(t) => Ordered(Top(items), wire[t], << >>, published)
        BY <3>2, OrderedLoss DEF Line, Numbers, NumberOf
      <4>2. QED
        BY <3>1, <4>1 DEF NumberOf, Up, Top
    <3>3. QED
      BY <3>1, <3>2 DEF Line, Numbers, Notices, Falls
  <2>17. QED
    BY <2>1, <2>2, <2>3, <2>4, <2>5, <2>6, <2>7, <2>8, <2>9, <2>10, <2>11, <2>12, <2>13,
       <2>14, <2>15, <2>16 DEF Next, Serve
<1>3. QED
  BY <1>1, <1>2, AlwaysTyped, OneAtATime, AlwaysStaged, PTL DEF Spec, Before

\* Page, sockets, handlers and channel have their types.
THEOREM Typing == Spec => []TypeOK
BY AlwaysTyped

\* The feed shows the newest audit first, each once, in the order of their publication.
THEOREM FeedFalls == Spec => []NewestFirst
<1>1. Line => NewestFirst
  BY DEF Line, Falls, NewestFirst
<1>2. QED
  BY <1>1, AlwaysInLine, PTL

\* What is on its way to the page is in order, and without a hole while nothing was lost.
THEOREM StreamWhole == Spec => []Stream
<1>1. TypeOK /\ Stages /\ Line => Stream
  <2> SUFFICES ASSUME TypeOK, Stages, Line, NEW s \in Sockets
               PROVE  LET all == <<heard[s]>> \o wire[s] \o buffer[s] IN
                      /\ redis => \A i \in 1 .. Len(all) - 1 : all[i] < all[i + 1]
                      /\ s \in channel /\ browser[s] \in {"opening", "open"} /\ s \notin lossy
                           => all = [i \in 1 .. published - heard[s] + 1 |-> heard[s] + i - 1]
    BY DEF Stream
  <2>1. CASE ~redis
    BY <2>1 DEF Stages, StageOf
  <2>2. CASE redis
    <3>1. /\ Ordered(heard[s], wire[s], buffer[s], published)
          /\ s \in channel /\ browser[s] \in {"opening", "open"} /\ s \notin lossy
               => Dense(heard[s], wire[s], buffer[s], published)
      BY <2>2 DEF Line, Numbers, NumberOf, Up
    <3> DEFINE all == <<heard[s]>> \o wire[s] \o buffer[s]
    <3>2. \A i \in 1 .. Len(all) - 1 : all[i] < all[i + 1]
      <4>1. Ordered(heard[s], wire[s], buffer[s], published)
        BY <3>1
      <4>2. QED
        BY <4>1, OrderedRises, Zenon
    <3>3. ASSUME s \in channel, browser[s] \in {"opening", "open"}, s \notin lossy
          PROVE  all = [i \in 1 .. published - heard[s] + 1 |-> heard[s] + i - 1]
      <4>1. Dense(heard[s], wire[s], buffer[s], published)
        BY <3>1, <3>3
      <4>2. QED
        BY <4>1, DenseIsRun, ZenonT(40)
    <3> HIDE DEF all
    <3>4. /\ redis => \A i \in 1 .. Len(all) - 1 : all[i] < all[i + 1]
          /\ s \in channel /\ browser[s] \in {"opening", "open"} /\ s \notin lossy
               => all = [i \in 1 .. published - heard[s] + 1 |-> heard[s] + i - 1]
      BY <3>2, <3>3, Zenon
    <3>5. QED
      BY <3>4, Zenon DEF all
  <2>3. QED
    BY <2>1, <2>2
<1>2. QED
  BY <1>1, AlwaysTyped, AlwaysStaged, AlwaysInLine, PTL
=============================================================================
