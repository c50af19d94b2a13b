---------------------------- MODULE ExchangeProofs ----------------------------
(* The safety properties of Exchange for files of every size, every number of *)
(* commands, uploads and faults, and all packet lengths in which the text is   *)
(* the short one.                                                              *)
EXTENDS Exchange, SequenceTheorems, TLAPS

-----------------------------------------------------------------------------
(* Packets and blocks as sequences.                                           *)

LEMMA FunctionIsSeq ==
  ASSUME NEW S, NEW n \in Nat, NEW f \in [1..n -> S]
  PROVE  f \in Seq(S) /\ Len(f) = n /\ DOMAIN f = 1..n
<1>1. f \in Seq(S)
  BY SeqDef
<1>2. DOMAIN f = 1..n
  OBVIOUS
<1>3. Len(f) = n
  BY <1>1, <1>2, LenProperties
<1>. QED
  BY <1>1, <1>2, <1>3

LEMMA UnitFields ==
  ASSUME NEW k, NEW i, NEW v, NEW unit, unit = [kind |-> k, at |-> i, val |-> v]
  PROVE  unit.kind = k /\ unit.at = i /\ unit.val = v
  OBVIOUS

LEMMA PacketShape ==
  ASSUME NEW k \in Kinds, NEW v
  PROVE  /\ Size[k] \in Nat \ {0} /\ Len(Packet(k, v)) = Size[k]
         /\ \A T : {[kind |-> k, at |-> i, val |-> v] : i \in 1..Size[k]} \subseteq T
                     => Packet(k, v) \in Seq(T)
         /\ \A i \in 1..Size[k] : Packet(k, v)[i] = [kind |-> k, at |-> i, val |-> v]
<1>1. Size[k] \in Nat \ {0}
  BY ExchangeAssumption
<1>2. ASSUME NEW T, {[kind |-> k, at |-> i, val |-> v] : i \in 1..Size[k]} \subseteq T
      PROVE  Packet(k, v) \in [1..Size[k] -> T]
  BY <1>2 DEF Packet
<1>3. Packet(k, v) \in [1..Size[k] -> {[kind |-> k, at |-> i, val |-> v] : i \in 1..Size[k]}]
  BY DEF Packet
<1>4. \A i \in 1..Size[k] : Packet(k, v)[i] = [kind |-> k, at |-> i, val |-> v]
  BY DEF Packet
<1>. QED
  BY <1>1, <1>2, <1>3, <1>4, FunctionIsSeq

\* A stream that is one packet.
LEMMA OnePacket ==
  ASSUME NEW k \in Kinds, NEW v
  PROVE  /\ Arrived(Packet(k, v), k) /\ StartsWith(Packet(k, v), k)
         /\ After(Packet(k, v), k) = <<>> /\ Packet(k, v)[1].val = v
         /\ Packet(k, v) # <<>>
<1>1. /\ Size[k] \in Nat \ {0} /\ Len(Packet(k, v)) = Size[k]
      /\ \A i \in 1..Size[k] : Packet(k, v)[i] = [kind |-> k, at |-> i, val |-> v]
  BY PacketShape
<1>2. Arrived(Packet(k, v), k) /\ StartsWith(Packet(k, v), k) /\ Packet(k, v)[1].val = v
  <2>1. Len(Packet(k, v)) >= Size[k] /\ 1 \in 1..Size[k]
    BY <1>1
  <2>2. ASSUME NEW i \in 1..Size[k]
        PROVE  /\ Packet(k, v)[i].kind = k /\ Packet(k, v)[i].at = i
               /\ Packet(k, v)[i].val = v
    <3>1. Packet(k, v)[i] = [kind |-> k, at |-> i, val |-> v]
      BY <1>1
    <3>. QED
      BY <3>1, UnitFields
  <2>. QED
    BY <2>1, <2>2 DEF Arrived, StartsWith
<1>3. After(Packet(k, v), k) = <<>>
  BY <1>1, SubSeqEmpty DEF After
<1>4. Packet(k, v) # <<>>
  BY <1>1, EmptySeq
<1>. QED
  BY <1>2, <1>3, <1>4

\* What is left of a sequence after its first part.
LEMMA SecondPart ==
  ASSUME NEW U, NEW b \in Seq(U), NEW m \in Nat, NEW s \in Seq(U), Len(s) = m + Len(b),
         \A i \in 1..Len(b) : s[m + i] = b[i]
  PROVE  SubSeq(s, m + 1, Len(s)) = b
<1>. DEFINE n == Len(s)
            k == m + 1
<1>1. Len(b) \in Nat /\ n \in Nat /\ n = m + Len(b) /\ k \in Nat /\ k = m + 1
  BY LenProperties
<1>2. \A i \in k..n : s[i] \in U
  <2>1. \A i \in 1..n : s[i] \in U
    BY ElementOfSeq
  <2>2. \A i \in k..n : i \in 1..n
    BY <1>1
  <2>. QED
    BY <2>1, <2>2
<1>. HIDE DEF n, k
<1>3. CASE Len(b) = 0
  <2>1. n < k
    BY <1>1, <1>3
  <2>2. SubSeq(s, k, n) = <<>>
    BY <1>1, <2>1, SubSeqEmpty
  <2>3. b = <<>>
    BY <1>3, EmptySeq
  <2>. QED
    BY <2>2, <2>3 DEF n, k
<1>4. CASE Len(b) # 0
  <2>1. k <= n /\ (n - k) + 1 = Len(b)
    BY <1>1, <1>4
  <2>2. /\ SubSeq(s, k, n) \in Seq(U)
        /\ Len(SubSeq(s, k, n)) = IF k <= n THEN (n - k) + 1 ELSE 0
        /\ \A i \in 1..((n - k) + 1) : SubSeq(s, k, n)[i] = s[(k + i) - 1]
    BY <1>1, <1>2, SubSeqProperties
  <2>3. ASSUME NEW i \in 1..Len(b) PROVE SubSeq(s, k, n)[i] = b[i]
    <3>1. (k + i) - 1 = m + i
      BY <1>1
    <3>. QED
      BY <2>1, <2>2, <3>1
  <2>4. SubSeq(s, k, n) = b
    BY <2>1, <2>2, <2>3, SeqEqual
  <2>. QED
    BY <2>4 DEF n, k
<1>. QED
  BY <1>3, <1>4

\* Two packets one after the other.
Both(first, second) == first \o second

LEMMA BothShape ==
  ASSUME NEW U, NEW a \in Seq(U), NEW b \in Seq(U)
  PROVE  /\ Both(a, b) \in Seq(U) /\ Len(Both(a, b)) = Len(a) + Len(b)
         /\ \A i \in 1..Len(a) : Both(a, b)[i] = a[i]
         /\ \A i \in 1..Len(b) : Both(a, b)[Len(a) + i] = b[i]
<1>1. Len(a) \in Nat /\ Len(b) \in Nat
  BY LenProperties
<1>2. /\ a \o b \in Seq(U) /\ Len(a \o b) = Len(a) + Len(b)
      /\ \A i \in 1..(Len(a) + Len(b)) : (a \o b)[i] = IF i <= Len(a) THEN a[i] ELSE b[i - Len(a)]
  BY ConcatProperties
<1>3. /\ Both(a, b) \in Seq(U) /\ Len(Both(a, b)) = Len(a) + Len(b)
      /\ \A i \in 1..(Len(a) + Len(b)) :
           Both(a, b)[i] = IF i <= Len(a) THEN a[i] ELSE b[i - Len(a)]
  BY <1>2 DEF Both
<1>4. ASSUME NEW i \in 1..Len(a) PROVE Both(a, b)[i] = a[i]
  <2>1. i \in 1..(Len(a) + Len(b)) /\ i <= Len(a)
    BY <1>1
  <2>. QED
    BY <1>3, <2>1
<1>5. ASSUME NEW i \in 1..Len(b) PROVE Both(a, b)[Len(a) + i] = b[i]
  <2>1. /\ Len(a) + i \in 1..(Len(a) + Len(b)) /\ ~(Len(a) + i <= Len(a))
        /\ (Len(a) + i) - Len(a) = i
    BY <1>1
  <2>. QED
    BY <1>3, <2>1
<1>. QED
  BY <1>3, <1>4, <1>5

\* A stream of two packets.
LEMMA TwoPackets ==
  ASSUME NEW k \in Kinds, NEW v, NEW l \in Kinds, NEW w
  PROVE  /\ Arrived(Both(Packet(k, v), Packet(l, w)), k)
         /\ StartsWith(Both(Packet(k, v), Packet(l, w)), k)
         /\ After(Both(Packet(k, v), Packet(l, w)), k) = Packet(l, w)
         /\ Both(Packet(k, v), Packet(l, w))[1].val = v
<1>. DEFINE a == Packet(k, v)
            b == Packet(l, w)
            s == Both(a, b)
            U == {[kind |-> k, at |-> i, val |-> v] : i \in 1..Size[k]}
                   \cup {[kind |-> l, at |-> i, val |-> w] : i \in 1..Size[l]}
<1>1. /\ Size[k] \in Nat \ {0} /\ Len(a) = Size[k] /\ Size[l] \in Nat \ {0} /\ Len(b) = Size[l]
      /\ \A i \in 1..Size[k] : a[i] = [kind |-> k, at |-> i, val |-> v]
  BY PacketShape
<1>2. a \in Seq(U) /\ b \in Seq(U)
  BY PacketShape
<1>. HIDE DEF a, b, U
<1>3. /\ s \in Seq(U) /\ Len(s) = Size[k] + Len(b)
      /\ \A i \in 1..Size[k] : s[i] = a[i]
      /\ \A i \in 1..Len(b) : s[Size[k] + i] = b[i]
  <2>1. /\ s \in Seq(U) /\ Len(s) = Len(a) + Len(b)
        /\ \A i \in 1..Len(a) : s[i] = a[i]
        /\ \A i \in 1..Len(b) : s[Len(a) + i] = b[i]
    <3>1. s \in Seq(U)
      BY <1>2, BothShape
    <3>2. Len(s) = Len(a) + Len(b)
      BY <1>2, BothShape
    <3>3. \A i \in 1..Len(a) : s[i] = a[i]
      BY <1>2, BothShape
    <3>4. \A i \in 1..Len(b) : s[Len(a) + i] = b[i]
      BY <1>2, BothShape
    <3>. QED
      BY <3>1, <3>2, <3>3, <3>4
  <2>. QED
    BY <1>1, <2>1
<1>. HIDE DEF s
<1>4. Arrived(s, k)
  BY <1>1, <1>3 DEF Arrived
<1>6. StartsWith(s, k) /\ s[1].val = v
  <2>1. 1 \in 1..Size[k]
    BY <1>1
  <2>2. ASSUME NEW i \in 1..Size[k] PROVE s[i].kind = k /\ s[i].at = i /\ s[i].val = v
    <3>1. s[i] = [kind |-> k, at |-> i, val |-> v]
      BY <1>1, <1>3
    <3>. QED
      BY <3>1, UnitFields
  <2>. QED
    BY <2>1, <2>2 DEF StartsWith
<1>7. After(s, k) = b
  BY <1>1, <1>2, <1>3, SecondPart DEF After
<1>. QED
  BY <1>4, <1>6, <1>7 DEF s, a, b

LEMMA EmptyStream ==
  ASSUME NEW k \in Kinds
  PROVE  ~Arrived(<<>>, k)
  BY PacketShape, EmptySeq DEF Arrived

\* A text is shorter than the packets it is sent instead of.
LEMMA ShortText ==
  ASSUME NEW k \in {"file", "plan", "ticket"}, NEW v
  PROVE  ~Arrived(Packet("text", v), k)
<1>1. k \in Kinds /\ "text" \in Kinds
  BY DEF Kinds
<1>2. Len(Packet("text", v)) = Size["text"] /\ Size["text"] \in Nat /\ Size[k] \in Nat
  BY <1>1, PacketShape
<1>. QED
  BY <1>2, ExchangeAssumption DEF Arrived

\* The data of consecutive blocks.
LEMMA SentShape ==
  ASSUME NEW a \in Nat, NEW b \in Nat, a <= b
  PROVE  /\ Sent(a, b) \in Seq([kind : {"data"}, at : Nat, val : Nat])
         /\ Len(Sent(a, b)) = b - a
         /\ \A i \in 1..(b - a) : Sent(a, b)[i] = [kind |-> "data", at |-> a + i, val |-> a + i]
<1>1. Sent(a, b) \in [1..(b - a) -> [kind : {"data"}, at : Nat, val : Nat]]
  BY DEF Sent
<1>2. b - a \in Nat
  OBVIOUS
<1>3. \A i \in 1..(b - a) : Sent(a, b)[i] = [kind |-> "data", at |-> a + i, val |-> a + i]
  BY DEF Sent
<1>. QED
  BY <1>1, <1>2, <1>3, FunctionIsSeq

LEMMA SentNothing ==
  ASSUME NEW a \in Nat, NEW b \in Nat, a <= b
  PROVE  Sent(a, b) = <<>> <=> a = b
<1>1. /\ Sent(a, b) \in Seq([kind : {"data"}, at : Nat, val : Nat])
      /\ Len(Sent(a, b)) = b - a
  BY SentShape
<1>2. Len(Sent(a, b)) = 0 <=> Sent(a, b) = <<>>
  BY <1>1, EmptySeq
<1>. QED
  BY <1>1, <1>2

LEMMA SendNext ==
  ASSUME NEW a \in Nat, NEW b \in Nat, a <= b
  PROVE  Sent(a, b) \o <<[kind |-> "data", at |-> b + 1, val |-> b + 1]>> = Sent(a, b + 1)
<1>. DEFINE T == [kind : {"data"}, at : Nat, val : Nat]
            x == [kind |-> "data", at |-> b + 1, val |-> b + 1]
<1>1. Sent(a, b) \in Seq(T) /\ Len(Sent(a, b)) = b - a
      /\ \A i \in 1..(b - a) : Sent(a, b)[i] = [kind |-> "data", at |-> a + i, val |-> a + i]
  BY SentShape
<1>2. /\ Sent(a, b + 1) \in Seq(T) /\ Len(Sent(a, b + 1)) = (b + 1) - a
      /\ \A i \in 1..((b + 1) - a) :
           Sent(a, b + 1)[i] = [kind |-> "data", at |-> a + i, val |-> a + i]
  <2>1. b + 1 \in Nat /\ a <= b + 1
    OBVIOUS
  <2>. HIDE DEF x
  <2>. QED
    BY <2>1, SentShape
<1>3. x \in T /\ <<x>> \in Seq(T) /\ Len(<<x>>) = 1 /\ <<x>>[1] = x
  OBVIOUS
<1>. HIDE DEF T
<1>4. /\ Sent(a, b) \o <<x>> \in Seq(T) /\ Len(Sent(a, b) \o <<x>>) = (b - a) + 1
      /\ \A i \in 1..((b - a) + 1) : (Sent(a, b) \o <<x>>)[i]
           = IF i <= b - a THEN Sent(a, b)[i] ELSE <<x>>[i - (b - a)]
  BY <1>1, <1>3, ConcatProperties
<1>5. \A i \in 1..((b - a) + 1) : (Sent(a, b) \o <<x>>)[i] = Sent(a, b + 1)[i]
  <2>1. ASSUME NEW i \in 1..((b - a) + 1)
        PROVE  (Sent(a, b) \o <<x>>)[i] = Sent(a, b + 1)[i]
    <3>1. CASE i <= b - a
      <4>1. i \in 1..(b - a) /\ i \in 1..((b + 1) - a)
        BY <3>1
      <4>. QED
        BY <1>1, <1>2, <1>4, <3>1, <4>1
    <3>2. CASE i = (b - a) + 1
      <4>1. i - (b - a) = 1 /\ a + i = b + 1 /\ ~(i <= b - a) /\ i \in 1..((b + 1) - a)
        BY <3>2
      <4>2. (Sent(a, b) \o <<x>>)[i] = x
        BY <1>3, <1>4, <4>1
      <4>. QED
        BY <1>2, <4>1, <4>2
    <3>3. b - a \in Nat /\ (i <= b - a \/ i = (b - a) + 1)
      OBVIOUS
    <3>. QED
      BY <3>1, <3>2, <3>3
  <2>. QED
    BY <2>1
<1>6. (b + 1) - a = (b - a) + 1
  OBVIOUS
<1>. QED
  BY <1>2, <1>4, <1>5, <1>6, SeqEqual

LEMMA ReceiveNext ==
  ASSUME NEW a \in Nat, NEW b \in Nat, a < b
  PROVE  Sent(a, b)[1].val = a + 1 /\ Tail(Sent(a, b)) = Sent(a + 1, b)
<1>. DEFINE T == [kind : {"data"}, at : Nat, val : Nat]
<1>1. /\ Sent(a, b) \in Seq(T) /\ Len(Sent(a, b)) = b - a
      /\ \A i \in 1..(b - a) : Sent(a, b)[i] = [kind |-> "data", at |-> a + i, val |-> a + i]
  <2>1. a <= b
    OBVIOUS
  <2>. QED
    BY <2>1, SentShape
<1>2. /\ Sent(a + 1, b) \in Seq(T) /\ Len(Sent(a + 1, b)) = b - (a + 1)
      /\ \A i \in 1..(b - (a + 1)) :
           Sent(a + 1, b)[i] = [kind |-> "data", at |-> (a + 1) + i, val |-> (a + 1) + i]
  <2>1. a + 1 \in Nat /\ a + 1 <= b
    OBVIOUS
  <2>. QED
    BY <2>1, SentShape
<1>. HIDE DEF T
<1>3. Sent(a, b)[1].val = a + 1
  <2>1. 1 \in 1..(b - a)
    OBVIOUS
  <2>. QED
    BY <1>1, <2>1
<1>4. Sent(a, b) # <<>>
  BY SentNothing
<1>5. /\ Tail(Sent(a, b)) \in Seq(T) /\ Len(Tail(Sent(a, b))) = (b - a) - 1
      /\ \A i \in 1..((b - a) - 1) : Tail(Sent(a, b))[i] = Sent(a, b)[i + 1]
  BY <1>1, <1>4, HeadTailProperties
<1>6. \A i \in 1..(b - (a + 1)) : Tail(Sent(a, b))[i] = Sent(a + 1, b)[i]
  <2>1. ASSUME NEW i \in 1..(b - (a + 1)) PROVE Tail(Sent(a, b))[i] = Sent(a + 1, b)[i]
    <3>1. i + 1 \in 1..(b - a) /\ i \in 1..((b - a) - 1) /\ a + (i + 1) = (a + 1) + i
      OBVIOUS
    <3>2. Sent(a, b)[i + 1] = [kind |-> "data", at |-> a + (i + 1), val |-> a + (i + 1)]
      BY <1>1, <3>1
    <3>. QED
      BY <1>2, <1>5, <3>1, <3>2
  <2>. QED
    BY <2>1
<1>7. (b - a) - 1 = b - (a + 1)
  OBVIOUS
<1>. QED
  BY <1>2, <1>3, <1>5, <1>6, <1>7, SeqEqual

LEMMA BlocksShape ==
  ASSUME NEW n \in Nat
  PROVE  /\ Blocks(n) \in Seq(Nat) /\ Len(Blocks(n)) = n
         /\ Append(Blocks(n), n + 1) = Blocks(n + 1)
<1>1. ASSUME NEW m \in Nat
      PROVE  Blocks(m) \in Seq(Nat) /\ Len(Blocks(m)) = m /\ \A i \in 1..m : Blocks(m)[i] = i
  <2>1. Blocks(m) \in [1..m -> Nat] /\ \A i \in 1..m : Blocks(m)[i] = i
    BY DEF Blocks
  <2>. QED
    BY <2>1, FunctionIsSeq
<1>2. /\ Append(Blocks(n), n + 1) \in Seq(Nat) /\ Len(Append(Blocks(n), n + 1)) = n + 1
      /\ \A i \in 1..n : Append(Blocks(n), n + 1)[i] = Blocks(n)[i]
      /\ Append(Blocks(n), n + 1)[n + 1] = n + 1
  BY <1>1, AppendProperties
<1>3. \A i \in 1..(n + 1) : Append(Blocks(n), n + 1)[i] = Blocks(n + 1)[i]
  <2>1. \A i \in 1..(n + 1) : i = n + 1 \/ i \in 1..n
    OBVIOUS
  <2>. QED
    BY <1>1, <1>2, <2>1
<1>4. Append(Blocks(n), n + 1) = Blocks(n + 1)
  BY <1>1, <1>2, <1>3, SeqEqual
<1>. QED
  BY <1>1, <1>4

LEMMA AfterNothing ==
  /\ <<>> \o <<>> = <<>>
  /\ \A k \in Kinds : \A v : <<>> \o Packet(k, v) = Packet(k, v)
  /\ \A k, l \in Kinds : \A v, w :
       <<>> \o (Packet(k, v) \o Packet(l, w)) = Packet(k, v) \o Packet(l, w)
<1>1. ASSUME NEW k \in Kinds, NEW v PROVE <<>> \o Packet(k, v) = Packet(k, v)
  <2>1. Packet(k, v) \in Seq({[kind |-> k, at |-> i, val |-> v] : i \in 1..Size[k]})
    BY PacketShape
  <2>. QED
    BY <2>1, ConcatEmptySeq
<1>2. ASSUME NEW k \in Kinds, NEW l \in Kinds, NEW v, NEW w
      PROVE  <<>> \o (Packet(k, v) \o Packet(l, w)) = Packet(k, v) \o Packet(l, w)
  <2>. DEFINE U == {[kind |-> k, at |-> i, val |-> v] : i \in 1..Size[k]}
                     \cup {[kind |-> l, at |-> i, val |-> w] : i \in 1..Size[l]}
  <2>1. Packet(k, v) \in Seq(U) /\ Packet(l, w) \in Seq(U)
    BY PacketShape
  <2>. HIDE DEF U
  <2>. QED
    BY <2>1, ConcatProperties, ConcatEmptySeq
<1>3. <<>> \o <<>> = <<>>
  <2>1. <<>> \in Seq({})
    BY EmptySeq
  <2>. QED
    BY <2>1, ConcatEmptySeq
<1>. QED
  BY <1>1, <1>2, <1>3

LEMMA KindsOfPackets ==
  {"text", "plan", "ticket", "login", "file", "auth"} = Kinds
  BY DEF Kinds

-----------------------------------------------------------------------------
(* The control connection.                                                    *)

LEMMA AwaitedShape ==
  /\ DOMAIN Awaited = {"login", "register", "list", "gets", "range", "puts"}
  /\ Awaited["login"] = "login" /\ Awaited["register"] = "text" /\ Awaited["list"] = "text"
  /\ Awaited["gets"] = "plan" /\ Awaited["range"] = "ticket" /\ Awaited["puts"] = "ticket"
  BY DEF Awaited

LEMMA AwaitedKinds ==
  \A c \in DOMAIN Awaited :
    /\ Awaited[c] \in Kinds /\ c # "none"
    /\ c \notin {"login", "register"} => Awaited[c] \in {"text", "plan", "ticket"}
  BY AwaitedShape DEF Kinds

\* What the prompt reads is the awaited packet and all there is.
LEMMA PromptAnswer ==
  ASSUME TypeOK, PromptStream, asked # "none", Arrived(down, Awaited[asked])
  PROVE  /\ StartsWith(down, Awaited[asked])
         /\ After(down, Awaited[asked]) = <<>>
         /\ request = "none"
<1>1. asked \in DOMAIN Awaited /\ Awaited[asked] \in Kinds
  BY AwaitedKinds DEF TypeOK
<1>2. down # <<>>
  BY <1>1, EmptyStream
<1>3. request = "none"
  BY <1>2 DEF PromptStream
<1>4. \E v \in Verdicts : down = Packet(Awaited[asked], v)
  <2>1. CASE asked \notin {"none", "login", "register"} /\ down = Packet("text", "error")
    <3>1. Awaited[asked] = "text"
      BY <1>1, <2>1, AwaitedKinds, ShortText
    <3>. QED
      BY <2>1, <3>1 DEF Verdicts
  <2>. QED
    BY <1>2, <2>1 DEF PromptStream
<1>. QED
  BY <1>1, <1>3, <1>4, OnePacket

\* Steps of the control connection that start no upload.
LEMMA ControlStep ==
  ASSUME ExchangeInv, UNCHANGED <<named, linkVars, dataVars, faults>>,
         {logged', session', cut'} \subseteq BOOLEAN,
         {asked', request'} \subseteq DOMAIN Awaited \cup {"none"},
         cmds' \in 0..MaxCmds,
         asked' = asked \/ asked' # "puts",
         PromptStream'
  PROVE  ExchangeInv'
<1>1. TypeOK'
  BY DEF ExchangeInv, TypeOK, linkVars, dataVars
<1>2. BlocksInOrder' /\ OneUpload'
  BY DEF ExchangeInv, BlocksInOrder, OneUpload, linkVars, dataVars
<1>3. Conversation'
  <2>1. /\ Opening' = Opening /\ Receiving' = Receiving
        /\ Closing' = Closing /\ Leaving' = Leaving
    BY DEF Opening, Receiving, Closing, Leaving, Uploaded, linkVars, dataVars
  <2>. QED
    BY <2>1 DEF ExchangeInv, Conversation, linkVars
<1>. QED
  BY <1>1, <1>2, <1>3 DEF ExchangeInv

LEMMA TypeCommandKeeps ==
  ASSUME ExchangeInv, NEW c \in Commands, TypeCommand(c)
  PROVE  ExchangeInv'
<1>. TypeOK /\ PromptStream
  BY DEF ExchangeInv
<1>1. c \in DOMAIN Awaited /\ c # "none" /\ c # "range"
  BY AwaitedShape DEF Commands
<1>2. /\ asked' = c /\ request' \in {"none", c} /\ down' = <<>> /\ asked = "none"
      /\ request' # "none" => ~cut'
  BY DEF TypeCommand, PromptStream
<1>3. PromptStream'
  BY <1>1, <1>2 DEF PromptStream
<1>4. cmds' \in 0..MaxCmds /\ {logged', session', cut'} \subseteq BOOLEAN
  BY ExchangeAssumption DEF TypeCommand, TypeOK
<1>5. CASE c # "puts"
  <2>1. UNCHANGED <<named, linkVars, dataVars, faults>>
    BY <1>5 DEF TypeCommand, linkVars
  <2>. QED
    BY <1>1, <1>2, <1>3, <1>4, <1>5, <2>1, ControlStep
<1>6. CASE c = "puts"
  <2>1. /\ thread' = thread /\ worker' = worker /\ told' = "nothing" /\ named' \in Names
        /\ thread \in {"none", "over"} /\ worker \in {"none", "over"}
        /\ UNCHANGED <<up, back, next, broken, dataVars, faults>>
    BY <1>6 DEF TypeCommand
  <2>2. TypeOK'
    BY <1>1, <1>2, <1>4, <2>1 DEF TypeOK, dataVars
  <2>3. BlocksInOrder' /\ OneUpload' /\ Conversation'
    BY <2>1 DEF ExchangeInv, BlocksInOrder, OneUpload, Conversation, Live, dataVars
  <2>. QED
    BY <1>3, <2>2, <2>3 DEF ExchangeInv
<1>. QED
  BY <1>5, <1>6

LEMMA PromptKeeps ==
  ASSUME ExchangeInv, PromptStep
  PROVE  ExchangeInv'
<1>. TypeOK /\ PromptStream
  BY DEF ExchangeInv
<1>1. CASE PromptFails
  <2>1. asked' = "none" /\ request' = "none" /\ down' = <<>>
    <3>1. request = "none"
      BY <1>1 DEF PromptFails, PromptStream
    <3>. QED
      BY <1>1, <3>1 DEF PromptFails
  <2>2. PromptStream'
    BY <2>1 DEF PromptStream
  <2>. QED
    BY <1>1, <2>1, <2>2, ControlStep DEF PromptFails, TypeOK
<1>2. CASE FinishShort
  <2>1. asked # "none" /\ Arrived(down, Awaited[asked])
    BY <1>2, AwaitedKinds, AwaitedShape DEF FinishShort, PromptHas
  <2>2. asked' = "none" /\ request' = "none" /\ down' = <<>>
    BY <1>2, <2>1, PromptAnswer DEF FinishShort, PromptReads
  <2>3. PromptStream'
    BY <2>2 DEF PromptStream
  <2>4. logged' \in BOOLEAN
    BY <1>2 DEF FinishShort, TypeOK
  <2>. QED
    BY <1>2, <2>2, <2>3, <2>4, ControlStep DEF FinishShort, TypeOK
<1>3. CASE FinishPlan
  <2>1. asked # "none" /\ Arrived(down, Awaited[asked])
    BY <1>3 DEF FinishPlan, PromptHas
  <2>2. /\ asked' \in {"none", "range"} /\ request' \in {"none", asked'} /\ down' = <<>>
        /\ request' # "none" => ~cut'
        /\ {asked', request'} \subseteq DOMAIN Awaited \cup {"none"}
    BY <1>3, <2>1, PromptAnswer, AwaitedShape DEF FinishPlan, PromptReads
  <2>3. PromptStream'
    BY <2>2 DEF PromptStream
  <2>. QED
    BY <1>3, <2>2, <2>3, ControlStep DEF FinishPlan, TypeOK
<1>4. CASE FinishRange
  <2>1. asked # "none" /\ Arrived(down, Awaited[asked])
    BY <1>4 DEF FinishRange, PromptHas
  <2>2. asked' = "none" /\ request' = "none" /\ down' = <<>>
    BY <1>4, <2>1, PromptAnswer DEF FinishRange, PromptReads
  <2>3. PromptStream'
    BY <2>2 DEF PromptStream
  <2>. QED
    BY <1>4, <2>2, <2>3, ControlStep DEF FinishRange, TypeOK
<1>5. CASE FinishPuts
  <2>1. asked = "puts" /\ Arrived(down, Awaited[asked])
    BY <1>5 DEF FinishPuts, PromptHas
  <2>2. /\ asked' = "none" /\ request' = "none" /\ down' = <<>>
        /\ UNCHANGED <<logged, session, named, cut, cmds, dataVars, faults>>
    BY <1>5, <2>1, PromptAnswer DEF FinishPuts, PromptReads
  <2>3. PromptStream'
    BY <2>2 DEF PromptStream
  <2>4. CASE UNCHANGED linkVars
    BY <2>2, <2>3, <2>4, ControlStep DEF TypeOK
  <2>5. CASE /\ thread' = "auth" /\ worker' = "auth" /\ up' = <<>> /\ back' = <<>>
             /\ next' = 1 /\ broken' = FALSE /\ told' = told
    <3>1. told = "nothing"
      BY <2>1 DEF ExchangeInv, OneUpload
    <3>2. TypeOK'
      <4>1. next' \in 1..(FileSize + 1)
        BY <2>5, ExchangeAssumption
      <4>2. broken' \in BOOLEAN
        BY <2>5
      <4>3. {asked', request'} \subseteq DOMAIN Awaited \cup {"none"}
        BY <2>2
      <4>. QED
        BY <2>2, <2>5, <4>1, <4>2, <4>3 DEF TypeOK, dataVars
    <3>5. worker # "recv"
      BY <2>1 DEF ExchangeInv, OneUpload, Live
    <3>3. BlocksInOrder' /\ OneUpload'
      BY <2>2, <2>5, <3>1, <3>5 DEF ExchangeInv, BlocksInOrder, OneUpload, Live, dataVars
    <3>4. Conversation'
      BY <2>5 DEF Conversation, Opening
    <3>. QED
      BY <2>3, <3>2, <3>3, <3>4 DEF ExchangeInv
  <2>. QED
    BY <1>5, <2>4, <2>5 DEF FinishPuts
<1>. QED
  BY <1>1, <1>2, <1>3, <1>4, <1>5 DEF PromptStep

\* The server answers the command that is asked for, once.
LEMMA ServerKeeps ==
  ASSUME ExchangeInv, ServerStep
  PROVE  ExchangeInv'
<1>. TypeOK /\ PromptStream
  BY DEF ExchangeInv
<1>1. /\ request # "none" /\ request = asked /\ down = <<>> /\ request' = "none"
      /\ UNCHANGED <<logged, asked, named, cut, cmds, linkVars, dataVars, faults>>
      /\ session' \in BOOLEAN
  <2>1. request # "none"
    BY AwaitedShape DEF ServerStep, Refuse, ServeLogin, ServeRegister, ServeCommand
  <2>2. request' = "none" /\ UNCHANGED <<logged, asked, named, cut, cmds, linkVars, dataVars, faults>>
    BY DEF ServerStep, Refuse, ServeLogin, ServeRegister, ServeCommand, Reply
  <2>3. session' \in BOOLEAN
    BY DEF ServerStep, Refuse, ServeLogin, ServeRegister, ServeCommand, Reply, TypeOK
  <2>. QED
    BY <2>1, <2>2, <2>3 DEF PromptStream
<1>2. \/ \E v \in Verdicts : down' = Packet(Awaited[asked], v)
      \/ asked \notin {"none", "login", "register"} /\ down' = Packet("text", "error")
  <2>1. asked \in DOMAIN Awaited /\ Awaited[asked] \in Kinds /\ "text" \in Kinds
    BY <1>1, AwaitedKinds DEF TypeOK, Kinds
  <2>2. CASE Refuse
    BY <1>1, <2>1, <2>2, AfterNothing DEF Refuse, Reply
  <2>3. CASE ServeLogin
    BY <1>1, <2>1, <2>3, AfterNothing, AwaitedShape DEF ServeLogin, Reply, Verdicts
  <2>4. CASE ServeRegister
    BY <1>1, <2>1, <2>4, AfterNothing, AwaitedShape DEF ServeRegister, Reply, Verdicts
  <2>5. CASE ServeCommand
    BY <1>1, <2>1, <2>5, AfterNothing DEF ServeCommand, Reply, Verdicts
  <2>. QED
    BY <2>2, <2>3, <2>4, <2>5 DEF ServerStep
<1>3. PromptStream'
  BY <1>1, <1>2 DEF PromptStream
<1>. QED
  BY <1>1, <1>3, ControlStep DEF TypeOK

LEMMA CloseKeeps ==
  ASSUME ExchangeInv, IdleClose
  PROVE  ExchangeInv'
<1>1. PromptStream'
  BY DEF ExchangeInv, PromptStream, IdleClose
<1>. QED
  BY <1>1, ControlStep DEF ExchangeInv, TypeOK, IdleClose

-----------------------------------------------------------------------------
(* The upload thread and the worker.                                          *)

\* Steps of an upload.
LEMMA UploadStep ==
  ASSUME ExchangeInv, UNCHANGED ctrlVars, Live(thread) \/ Live(worker),
         thread' \in {"none", "auth", "file", "offset", "send", "reply", "over"},
         worker' \in {"none", "auth", "file", "missing", "recv", "over"},
         told' \in {"nothing", "instant", "done", "failed", "interrupted", "refused"},
         {broken', recorded'} \subseteq BOOLEAN,
         next' \in 1..(FileSize + 1), owed' \in 0..FileSize, Len(store') \in 0..FileSize,
         length' \in 0..FileSize, linked' \subseteq Names, faults' \in 0..MaxFaults,
         Live(thread') => told' = "nothing",
         Live(worker') => told' \notin {"instant", "done"},
         BlocksInOrder', Conversation'
  PROVE  ExchangeInv'
<1>1. TypeOK'
  BY DEF ExchangeInv, TypeOK, ctrlVars
<1>2. PromptStream'
  BY DEF ExchangeInv, PromptStream, ctrlVars
<1>3. OneUpload'
  BY DEF ExchangeInv, OneUpload, ctrlVars, Live
<1>. QED
  BY <1>1, <1>2, <1>3 DEF ExchangeInv

\* Steps of the thread: the worker's data are left alone.
LEMMA ThreadMoves ==
  ASSUME ExchangeInv, UNCHANGED <<ctrlVars, worker, dataVars>>, Live(thread),
         thread' \in {"file", "offset", "send", "reply", "over"},
         told' \in {"nothing", "instant", "done", "failed", "interrupted", "refused"},
         thread' # "over" => told' = "nothing",
         told' \in {"instant", "done"} => worker = "over",
         next' \in 1..(FileSize + 1), broken' \in BOOLEAN, faults' \in 0..MaxFaults,
         thread' = "send" => next' <= FileSize,
         thread' = "reply" => next' = FileSize + 1,
         Conversation'
  PROVE  ExchangeInv'
<1>1. BlocksInOrder'
  BY DEF ExchangeInv, BlocksInOrder, dataVars
<1>2. /\ worker' \in {"none", "auth", "file", "missing", "recv", "over"}
      /\ recorded' \in BOOLEAN /\ owed' \in 0..FileSize /\ Len(store') \in 0..FileSize
      /\ length' \in 0..FileSize /\ linked' \subseteq Names
  BY DEF ExchangeInv, TypeOK, dataVars
<1>3. /\ Live(thread') => told' = "nothing"
      /\ Live(worker') => told' \notin {"instant", "done"}
  BY DEF Live
<1>. QED
  BY <1>1, <1>2, <1>3, UploadStep

LEMMA FaultCounts ==
  ASSUME TypeOK, Fault \/ UNCHANGED faults
  PROVE  faults' \in 0..MaxFaults
  BY ExchangeAssumption DEF TypeOK, Fault

\* A live thread has the connection, or has lost it.
LEMMA ThreadTalks ==
  ASSUME ExchangeInv, Live(thread)
  PROVE  /\ \/ broken /\ up = <<>> /\ back = <<>>
            \/ ~broken /\ (Opening \/ Receiving \/ Closing)
         /\ told = "nothing"
  BY DEF ExchangeInv, Conversation, OneUpload, Leaving, Live

LEMMA WorkerTalks ==
  ASSUME ExchangeInv, Live(worker)
  PROVE  /\ \/ broken /\ up = <<>> /\ back = <<>>
            \/ ~broken /\ (Opening \/ Receiving \/ Leaving)
         /\ told \notin {"instant", "done"}
  BY DEF ExchangeInv, Conversation, OneUpload, Closing, Live

LEMMA OpensKeeps ==
  ASSUME ExchangeInv, ThreadOpens
  PROVE  ExchangeInv'
<1>. TypeOK /\ Live(thread) /\ thread \in {"auth", "file"}
  BY DEF ExchangeInv, ThreadOpens, Live
<1>0. UNCHANGED <<ctrlVars, worker, back, next, broken, dataVars, faults>>
  BY DEF ThreadOpens, ThreadEnds
<1>1. CASE ThreadEnds("failed") /\ Gone /\ UNCHANGED up
  <2>1. Conversation'
    BY <1>0, <1>1, ThreadTalks DEF ThreadEnds, Conversation, Live, Gone
  <2>. QED
    BY <1>0, <1>1, <2>1, ThreadMoves DEF ThreadEnds, TypeOK
<1>2. CASE /\ Send(IF thread = "auth" THEN Packet("auth", "ok") ELSE Packet("file", "info"))
           /\ thread' = IF thread = "auth" THEN "file" ELSE "offset"
           /\ UNCHANGED told
  <2>1. Conversation'
    <3>1. CASE broken
      BY <1>0, <1>2, <3>1, ThreadTalks DEF Conversation, Send, Gone
    <3>2. CASE ~broken /\ Opening
      <4>1. up' = up \o (IF thread = "auth" THEN Packet("auth", "ok") ELSE Packet("file", "info"))
        BY <1>2, <3>2 DEF Send, Gone, Opening
      <4>2. "auth" \in Kinds /\ "file" \in Kinds
        BY DEF Kinds
      <4>3. ASSUME thread = "auth" PROVE Opening'
        <5>1. worker = "auth" /\ up = <<>> /\ back = <<>> /\ thread' = "file"
          BY <1>2, <3>2, <4>3 DEF Opening
        <5>2. up' = Packet("auth", "ok")
          BY <4>1, <4>2, <4>3, <5>1, AfterNothing
        <5>. QED
          BY <1>0, <5>1, <5>2 DEF Opening
      <4>4. ASSUME thread = "file", worker = "auth" PROVE Opening'
        <5>1. up = Packet("auth", "ok") /\ back = <<>> /\ thread' = "offset"
          BY <1>2, <3>2, <4>4 DEF Opening
        <5>2. up' = Packet("auth", "ok") \o Packet("file", "info")
          BY <4>1, <4>4, <5>1
        <5>. QED
          BY <1>0, <4>4, <5>1, <5>2 DEF Opening
      <4>5. ASSUME thread = "file", worker # "auth" PROVE Opening'
        <5>1. worker \in {"file", "missing"} /\ up = <<>> /\ back = <<>> /\ thread' = "offset"
          BY <1>2, <3>2, <4>5 DEF Opening
        <5>2. up' = Packet("file", "info")
          BY <4>1, <4>2, <4>5, <5>1, AfterNothing
        <5>. QED
          BY <1>0, <5>1, <5>2 DEF Opening
      <4>6. Opening'
        BY <4>3, <4>4, <4>5
      <4>. QED
        BY <1>0, <3>2, <4>6 DEF Conversation
    <3>3. CASE ~broken /\ Closing
      <4>1. Closing'
        BY <1>0, <1>2, <3>3 DEF Closing, Uploaded, ctrlVars, dataVars
      <4>. QED
        BY <1>0, <3>3, <4>1 DEF Conversation
    <3>. QED
      BY <3>1, <3>2, <3>3, ThreadTalks DEF Receiving
  <2>2. told = "nothing"
    BY ThreadTalks
  <2>. QED
    BY <1>0, <1>2, <2>1, <2>2, ThreadMoves DEF TypeOK
<1>. QED
  BY <1>1, <1>2 DEF ThreadOpens

LEMMA LosesKeeps ==
  ASSUME ExchangeInv, ThreadLoses
  PROVE  ExchangeInv'
<1>. TypeOK /\ Live(thread)
  BY DEF ExchangeInv, ThreadLoses, Live
<1>1. /\ UNCHANGED <<ctrlVars, worker, up, back, next, broken, dataVars, faults>>
      /\ thread' = "over" /\ told' = "failed" /\ Gone
  BY DEF ThreadLoses, ThreadEnds
<1>2. Conversation'
  BY <1>1, ThreadTalks DEF Conversation, Live, Gone
<1>. QED
  BY <1>1, <1>2, ThreadMoves DEF TypeOK

\* The reply to a file packet, alone or followed by the last text.
LEMMA OfferAlone ==
  ASSUME NEW same, NEW n
  PROVE  /\ StartsWith(FileReply(same, n), "file") /\ After(FileReply(same, n), "file") = <<>>
         /\ FileReply(same, n)[1].val.same = same /\ FileReply(same, n)[1].val.offset = n
<1>. DEFINE v == [same |-> same, offset |-> n]
<1>1. v.same = same /\ v.offset = n /\ FileReply(same, n) = Packet("file", v) /\ "file" \in Kinds
  BY DEF FileReply, Kinds
<1>. HIDE DEF v
<1>. QED
  BY <1>1, OnePacket

LEMMA OfferAndText ==
  ASSUME NEW n, NEW w
  PROVE  /\ StartsWith(Both(FileReply(FALSE, n), Packet("text", w)), "file")
         /\ After(Both(FileReply(FALSE, n), Packet("text", w)), "file") = Packet("text", w)
         /\ ~Both(FileReply(FALSE, n), Packet("text", w))[1].val.same
         /\ Both(FileReply(FALSE, n), Packet("text", w))[1].val.offset = n
<1>. DEFINE v == [same |-> FALSE, offset |-> n]
            s == Both(Packet("file", v), Packet("text", w))
<1>1. /\ ~v.same /\ v.offset = n /\ FileReply(FALSE, n) = Packet("file", v)
      /\ "file" \in Kinds /\ "text" \in Kinds
  BY DEF FileReply, Kinds
<1>. HIDE DEF v
<1>2. /\ StartsWith(s, "file") /\ After(s, "file") = Packet("text", w) /\ s[1].val = v
  BY <1>1, TwoPackets
<1>3. s = Both(FileReply(FALSE, n), Packet("text", w))
  BY <1>1
<1>. HIDE DEF s
<1>. QED
  BY <1>1, <1>2, <1>3

\* What the thread finds when the reply to its file packet has arrived.
LEMMA OffsetReply ==
  ASSUME ExchangeInv, ThreadHas("file")
  PROVE  /\ thread = "offset" /\ ~broken /\ StartsWith(back, "file")
         /\ \/ /\ Receiving /\ Len(store) < FileSize
               /\ ~back[1].val.same /\ back[1].val.offset = Len(store)
               /\ After(back, "file") = <<>> /\ up = <<>>
            \/ /\ worker = "over" /\ Uploaded
               /\ back[1].val.same /\ back[1].val.offset = 0
               /\ After(back, "file") = <<>>
            \/ /\ worker = "over"
               /\ ~back[1].val.same /\ back[1].val.offset \in 0..FileSize
               /\ After(back, "file") = Packet("text", "error")
            \/ /\ worker = "over" /\ Uploaded
               /\ ~back[1].val.same /\ back[1].val.offset = FileSize
               /\ After(back, "file") = Packet("text", "ok")
<1>1. thread = "offset" /\ Arrived(back, "file") /\ "file" \in Kinds /\ "text" \in Kinds
  BY DEF ThreadHas, ThreadAwaits, Kinds
<1>2. back # <<>>
  BY <1>1, EmptyStream
<1>3. ~broken /\ (Receiving \/ Closing)
  BY <1>1, <1>2, ThreadTalks DEF Live, Opening
<1>4. back # Packet("text", "error")
  BY <1>1, ShortText
<1>5. CASE Receiving
  <2>1. Len(store) < FileSize /\ back = FileReply(FALSE, Len(store)) /\ up = <<>>
    BY <1>1, <1>5 DEF Receiving
  <2>. QED
    BY <1>1, <1>3, <1>5, <2>1, OfferAlone
<1>6. CASE Closing
  <2>1. worker = "over"
    BY <1>6 DEF Closing
  <2>2. CASE back = FileReply(TRUE, 0) /\ Uploaded
    BY <1>1, <1>3, <2>1, <2>2, OfferAlone
  <2>3. ASSUME NEW n \in 0..FileSize, back = Both(FileReply(FALSE, n), Packet("text", "error"))
        PROVE  /\ StartsWith(back, "file")
               /\ ~back[1].val.same /\ back[1].val.offset = n
               /\ After(back, "file") = Packet("text", "error")
    <3>. DEFINE s == Both(FileReply(FALSE, n), Packet("text", "error"))
    <3>1. StartsWith(s, "file")
      BY OfferAndText
    <3>5. ~s[1].val.same
      BY OfferAndText
    <3>3. s[1].val.offset = n
      BY OfferAndText
    <3>4. After(s, "file") = Packet("text", "error")
      BY OfferAndText
    <3>2. back = s
      BY <2>3
    <3>. HIDE DEF s
    <3>. QED
      BY <3>1, <3>2, <3>3, <3>4, <3>5
  <2>4. ASSUME back = Both(FileReply(FALSE, FileSize), Packet("text", "ok"))
        PROVE  /\ StartsWith(back, "file")
               /\ ~back[1].val.same /\ back[1].val.offset = FileSize
               /\ After(back, "file") = Packet("text", "ok")
    <3>. DEFINE s == Both(FileReply(FALSE, FileSize), Packet("text", "ok"))
    <3>1. StartsWith(s, "file")
      BY OfferAndText
    <3>5. ~s[1].val.same
      BY OfferAndText
    <3>3. s[1].val.offset = FileSize
      BY OfferAndText
    <3>4. After(s, "file") = Packet("text", "ok")
      BY OfferAndText
    <3>2. back = s
      BY <2>4
    <3>. HIDE DEF s
    <3>. QED
      BY <3>1, <3>2, <3>3, <3>4, <3>5
  <2>. QED
    BY <1>1, <1>2, <1>3, <1>4, <1>6, <2>1, <2>2, <2>3, <2>4 DEF Closing, Both
<1>. QED
  BY <1>3, <1>5, <1>6

LEMMA OffsetKeeps ==
  ASSUME ExchangeInv, OffsetArrives
  PROVE  ExchangeInv'
<1>. TypeOK /\ ThreadHas("file") /\ thread = "offset" /\ Live(thread) /\ ~broken
  BY OffsetReply DEF ExchangeInv, OffsetArrives, Live
<1>0. /\ UNCHANGED <<ctrlVars, worker, up, broken, dataVars, faults>>
      /\ back' = After(back, "file") /\ FileSize \in Nat
  BY ExchangeAssumption DEF OffsetArrives, ThreadEnds, Take
<1>1. CASE back[1].val.same /\ ThreadEnds("instant")
  <2>1. worker = "over"
    BY <1>1, OffsetReply
  <2>2. thread' = "over" /\ told' = "instant" /\ next' = next
    BY <1>1 DEF ThreadEnds
  <2>3. Conversation'
    BY <1>0, <2>1, <2>2 DEF Conversation, Live
  <2>. QED
    BY <1>0, <2>1, <2>2, <2>3, ThreadMoves DEF TypeOK
<1>2. CASE /\ next' = back[1].val.offset + 1
           /\ thread' = IF next' <= FileSize THEN "send" ELSE "reply"
           /\ UNCHANGED told
  <2>1. back[1].val.offset \in 0..FileSize
    <3>1. 0 \in 0..FileSize /\ FileSize \in 0..FileSize /\ Len(store) \in 0..FileSize
      BY <1>0 DEF TypeOK
    <3>. QED
      BY <3>1, OffsetReply
  <2>2. /\ next' \in 1..(FileSize + 1) /\ thread' \in {"send", "reply"}
        /\ thread' = "send" => next' <= FileSize
        /\ thread' = "reply" => next' = FileSize + 1
    BY <1>0, <1>2, <2>1
  <2>3. Conversation'
    <3>1. CASE /\ Receiving /\ Len(store) < FileSize
               /\ ~back[1].val.same /\ back[1].val.offset = Len(store)
               /\ After(back, "file") = <<>> /\ up = <<>>
      <4>1. next' = Len(store) + 1 /\ Len(store) \in Nat
        BY <1>2, <3>1 DEF TypeOK
      <4>2. Len(store) < next' /\ next' - 1 = Len(store)
        BY <4>1
      <4>3. Sent(Len(store), Len(store)) = <<>>
        BY <4>1, SentNothing
      <4>4. up' = Sent(Len(store), next' - 1) /\ worker = "recv"
        BY <1>0, <3>1, <4>2, <4>3 DEF Receiving
      <4>5. Receiving'
        BY <1>0, <2>2, <3>1, <4>2, <4>4 DEF Receiving, dataVars
      <4>. QED
        BY <1>0, <4>5 DEF Conversation
    <3>2. CASE worker = "over" /\ After(back, "file") \in {<<>>, Packet("text", "error")}
      <4>1. Closing'
        BY <1>0, <2>2, <3>2 DEF Closing
      <4>. QED
        BY <1>0, <4>1 DEF Conversation
    <3>3. CASE /\ worker = "over" /\ Uploaded
               /\ ~back[1].val.same /\ back[1].val.offset = FileSize
               /\ After(back, "file") = Packet("text", "ok")
      <4>1. next' = FileSize + 1
        BY <1>2, <3>3
      <4>2. thread' = "reply"
        BY <1>0, <1>2, <4>1
      <4>3. Closing'
        BY <1>0, <3>3, <4>2 DEF Closing, Uploaded, ctrlVars, dataVars
      <4>. QED
        BY <1>0, <4>3 DEF Conversation
    <3>. QED
      BY <3>1, <3>2, <3>3, OffsetReply
  <2>4. told' = "nothing"
    BY <1>2, ThreadTalks
  <2>. QED
    BY <1>0, <1>2, <2>2, <2>3, <2>4, ThreadMoves DEF TypeOK
<1>. QED
  BY <1>1, <1>2 DEF OffsetArrives

LEMMA SendKeeps ==
  ASSUME ExchangeInv, SendBlock
  PROVE  ExchangeInv'
<1>. TypeOK /\ thread = "send" /\ Live(thread) /\ next \in 1..FileSize /\ FileSize \in Nat
  BY ExchangeAssumption DEF ExchangeInv, SendBlock, Live, BlocksInOrder, TypeOK
<1>0. UNCHANGED <<ctrlVars, worker, back, broken, dataVars, faults>>
  BY DEF SendBlock, ThreadEnds
<1>1. CASE Gone /\ ThreadEnds("interrupted") /\ UNCHANGED up
  <2>1. Conversation'
    BY <1>0, <1>1, ThreadTalks DEF ThreadEnds, Conversation, Live, Gone
  <2>. QED
    BY <1>0, <1>1, <2>1, ThreadMoves DEF ThreadEnds, TypeOK
<1>2. CASE /\ Send(<<[kind |-> "data", at |-> next, val |-> next]>>)
           /\ next' = next + 1
           /\ thread' = IF next = FileSize THEN "reply" ELSE "send"
           /\ UNCHANGED told
  <2>1. /\ next' \in 1..(FileSize + 1) /\ thread' \in {"send", "reply"}
        /\ thread' = "send" => next' <= FileSize
        /\ thread' = "reply" => next' = FileSize + 1
    BY <1>2
  <2>2. Conversation'
    <3>1. CASE broken
      BY <1>0, <1>2, <3>1, ThreadTalks DEF Conversation, Send, Gone
    <3>2. CASE ~broken /\ Receiving
      <4>1. /\ Len(store) \in Nat /\ Len(store) < next /\ up = Sent(Len(store), next - 1)
            /\ back = <<>> /\ worker = "recv"
        BY <3>2 DEF Receiving, TypeOK
      <4>2. up' = up \o <<[kind |-> "data", at |-> next, val |-> next]>>
        BY <1>2, <3>2, <4>1 DEF Send, Gone
      <4>3. next - 1 \in Nat /\ Len(store) <= next - 1 /\ (next - 1) + 1 = next
        BY <4>1
      <4>4. up' = Sent(Len(store), next)
        BY <4>1, <4>2, <4>3, SendNext
      <4>5. next' - 1 = next /\ Len(store) < next'
        BY <1>2, <4>1
      <4>6. Receiving'
        BY <1>0, <2>1, <4>1, <4>4, <4>5 DEF Receiving, dataVars
      <4>. QED
        BY <1>0, <3>2, <4>6 DEF Conversation
    <3>3. CASE ~broken /\ Closing
      <4>1. Closing'
        BY <1>0, <2>1, <3>3 DEF Closing
      <4>. QED
        BY <1>0, <3>3, <4>1 DEF Conversation
    <3>. QED
      BY <3>1, <3>2, <3>3, ThreadTalks DEF Opening
  <2>3. told' = "nothing"
    BY <1>2, ThreadTalks
  <2>. QED
    BY <1>0, <2>1, <2>2, <2>3, ThreadMoves DEF TypeOK
<1>. QED
  BY <1>1, <1>2 DEF SendBlock

\* What the thread finds when the last text has arrived.
LEMMA LastReply ==
  ASSUME ExchangeInv, ThreadHas("text")
  PROVE  /\ thread = "reply" /\ worker = "over" /\ StartsWith(back, "text")
         /\ \/ back[1].val = "error"
            \/ back[1].val = "ok" /\ Uploaded
<1>1. thread = "reply" /\ Arrived(back, "text") /\ "text" \in Kinds
  BY DEF ThreadHas, ThreadAwaits, Kinds
<1>2. back # <<>>
  BY <1>1, EmptyStream
<1>3. /\ worker = "over"
      /\ back = Packet("text", "error") \/ (back = Packet("text", "ok") /\ Uploaded)
  BY <1>1, <1>2, ThreadTalks DEF Live, Opening, Receiving, Closing
<1>. QED
  BY <1>1, <1>3, OnePacket

LEMMA ReplyKeeps ==
  ASSUME ExchangeInv, ReplyArrives
  PROVE  ExchangeInv'
<1>. TypeOK /\ ThreadHas("text") /\ Live(thread)
  BY LastReply DEF ExchangeInv, ReplyArrives, Live
<1>1. /\ UNCHANGED <<ctrlVars, worker, up, next, broken, dataVars, faults>>
      /\ thread' = "over" /\ told' \in {"done", "refused"}
  BY DEF ReplyArrives, ThreadEnds
<1>2. worker = "over"
  BY LastReply
<1>3. Conversation'
  BY <1>1, <1>2 DEF Conversation, Live
<1>. QED
  BY <1>1, <1>2, <1>3, ThreadMoves DEF TypeOK

\* A thread that leaves has said nothing that the worker could not read.
LEMMA ReadFailsKeeps ==
  ASSUME ExchangeInv, ReadFails
  PROVE  ExchangeInv'
<1>. TypeOK /\ Live(thread) /\ thread \in {"file", "send"}
  BY DEF ExchangeInv, ReadFails, Live
<1>1. /\ UNCHANGED <<ctrlVars, worker, up, back, next, broken, dataVars>>
      /\ thread' = "over" /\ told' = "failed"
  BY DEF ReadFails, ThreadEnds
<1>2. Conversation'
  <2>1. CASE broken
    BY <1>1, <2>1, ThreadTalks DEF Conversation
  <2>2. CASE ~broken /\ Opening
    <3>1. Leaving'
      BY <1>1, <2>2 DEF Opening, Leaving
    <3>. QED
      BY <1>1, <2>2, <3>1 DEF Conversation
  <2>3. CASE ~broken /\ Receiving
    <3>1. thread = "send" /\ next <= FileSize
      BY <2>3 DEF Receiving, ExchangeInv, BlocksInOrder
    <3>2. Leaving'
      BY <1>1, <2>3, <3>1 DEF Receiving, Leaving, dataVars
    <3>. QED
      BY <1>1, <2>3, <3>2 DEF Conversation
  <2>4. CASE Closing
    BY <1>1, <2>4 DEF Closing, Conversation, Live
  <2>. QED
    BY <2>1, <2>2, <2>3, <2>4, ThreadTalks
<1>3. faults' \in 0..MaxFaults
  BY FaultCounts DEF ReadFails
<1>. QED
  BY <1>1, <1>2, <1>3, ThreadMoves DEF TypeOK

LEMMA BreakKeeps ==
  ASSUME ExchangeInv, Break
  PROVE  ExchangeInv'
<1>. TypeOK /\ Live(thread)
  BY DEF ExchangeInv, Break, Live
<1>1. Conversation' /\ broken' \in BOOLEAN /\ faults' \in 0..MaxFaults
  BY FaultCounts DEF Break, Conversation
<1>2. UNCHANGED <<ctrlVars, thread, worker, next, told, dataVars>>
  BY DEF Break
<1>3. BlocksInOrder'
  BY <1>2 DEF ExchangeInv, BlocksInOrder, dataVars
<1>4. UNCHANGED <<linked, recorded, store, length, owed>>
  BY <1>2 DEF dataVars
<1>. QED
  BY <1>1, <1>2, <1>3, <1>4, UploadStep DEF ExchangeInv, OneUpload, TypeOK

LEMMA ResetKeeps ==
  ASSUME ExchangeInv, Reset
  PROVE  ExchangeInv'
<1>. TypeOK /\ Live(thread)
  BY DEF ExchangeInv, Reset, Live
<1>1. UNCHANGED <<ctrlVars, thread, worker, next, broken, told, dataVars, faults>>
  BY DEF Reset
<1>2. Conversation'
  BY ThreadTalks DEF Reset, Conversation, Closing
<1>3. BlocksInOrder'
  BY <1>1 DEF ExchangeInv, BlocksInOrder, dataVars
<1>4. UNCHANGED <<linked, recorded, store, length, owed>>
  BY <1>1 DEF dataVars
<1>. QED
  BY <1>1, <1>2, <1>3, <1>4, UploadStep DEF ExchangeInv, OneUpload, TypeOK

LEMMA ThreadKeeps ==
  ASSUME ExchangeInv, ThreadStep \/ ReadFails \/ Break \/ Reset
  PROVE  ExchangeInv'
  BY OpensKeeps, LosesKeeps, OffsetKeeps, SendKeeps, ReplyKeeps, ReadFailsKeeps, BreakKeeps,
     ResetKeeps DEF ThreadStep

\* Steps of the worker: the prompt and the thread are left alone.
LEMMA WorkerMoves ==
  ASSUME ExchangeInv, UNCHANGED <<ctrlVars, thread, next, broken, told>>, Live(worker),
         worker' \in {"file", "missing", "recv", "over"},
         recorded' \in BOOLEAN, linked' \subseteq Names, faults' \in 0..MaxFaults,
         owed' \in 0..FileSize, Len(store') \in 0..FileSize, store' = Blocks(Len(store')),
         worker' = "recv" => owed' = FileSize - Len(store'),
         length' = IF worker' = "recv" THEN FileSize ELSE Len(store'),
         Conversation'
  PROVE  ExchangeInv'
<1>1. BlocksInOrder' /\ length' \in 0..FileSize
  BY ExchangeAssumption DEF ExchangeInv, BlocksInOrder
<1>2. told \notin {"instant", "done"}
  BY WorkerTalks
<1>3. /\ Live(thread') => told' = "nothing"
      /\ Live(worker') => told' \notin {"instant", "done"}
  BY <1>2 DEF ExchangeInv, OneUpload
<1>. QED
  BY <1>1, <1>3, UploadStep DEF ExchangeInv, TypeOK

\* A worker with a whole packet has the connection and has said nothing yet.
LEMMA WorkerWaits ==
  ASSUME ExchangeInv, NEW k \in {"auth", "file"}, WorkerHas(k)
  PROVE  Live(worker) /\ ~broken /\ (Opening \/ (k = "auth" /\ Leaving))
<1>1. worker \in {"auth", "file", "missing"} /\ Arrived(up, k) /\ k \in Kinds
  BY DEF WorkerHas, ExchangeInv, TypeOK, Kinds
<1>2. up # <<>> /\ Live(worker)
  BY <1>1, EmptyStream DEF Live
<1>. QED
  BY <1>1, <1>2, WorkerTalks DEF Receiving, Leaving, WorkerHas, WorkerAwaits

LEMMA WorkerFindsAuth ==
  ASSUME ExchangeInv, WorkerHas("auth")
  PROVE  /\ worker = "auth" /\ back = <<>> /\ StartsWith(up, "auth")
         /\ \/ thread \in {"file", "over"} /\ After(up, "auth") = <<>>
            \/ thread = "offset" /\ After(up, "auth") = Packet("file", "info")
<1>1. /\ worker = "auth" /\ Arrived(up, "auth") /\ (Opening \/ Leaving)
      /\ "auth" \in Kinds /\ "file" \in Kinds
  BY WorkerWaits DEF WorkerHas, WorkerAwaits, Kinds
<1>2. back = <<>> /\ up # <<>>
  BY <1>1, EmptyStream DEF Opening, Leaving
<1>3. \/ thread \in {"file", "over"} /\ up = Packet("auth", "ok")
      \/ thread = "offset" /\ up = Both(Packet("auth", "ok"), Packet("file", "info"))
  BY <1>1, <1>2 DEF Opening, Leaving, Both
<1>4. CASE thread \in {"file", "over"} /\ up = Packet("auth", "ok")
  BY <1>1, <1>2, <1>4, OnePacket
<1>5. CASE thread = "offset" /\ up = Both(Packet("auth", "ok"), Packet("file", "info"))
  <2>. DEFINE s == Both(Packet("auth", "ok"), Packet("file", "info"))
  <2>1. StartsWith(s, "auth")
    BY <1>1, TwoPackets
  <2>2. After(s, "auth") = Packet("file", "info")
    BY <1>1, TwoPackets
  <2>3. up = s
    BY <1>5
  <2>. HIDE DEF s
  <2>. QED
    BY <1>1, <1>2, <1>5, <2>1, <2>2, <2>3
<1>. QED
  BY <1>3, <1>4, <1>5

LEMMA WorkerFindsFile ==
  ASSUME ExchangeInv, WorkerHas("file")
  PROVE  /\ worker \in {"file", "missing"} /\ thread = "offset" /\ back = <<>>
         /\ StartsWith(up, "file") /\ After(up, "file") = <<>>
<1>1. /\ worker \in {"file", "missing"} /\ Arrived(up, "file") /\ Opening /\ "file" \in Kinds
  BY WorkerWaits DEF WorkerHas, WorkerAwaits, ExchangeInv, TypeOK, Kinds
<1>2. up # <<>>
  BY <1>1, EmptyStream
<1>3. back = <<>> /\ thread = "offset" /\ up = Packet("file", "info")
  BY <1>1, <1>2 DEF Opening
<1>. QED
  BY <1>1, <1>3, OnePacket

LEMMA TakesFileHas ==
  ASSUME TakesFile
  PROVE  WorkerHas("file") /\ worker = "file"
  BY DEF TakesFile, WorkerHas, WorkerAwaits

LEMMA FirstWords ==
  /\ Both(<<>>, <<>>) = <<>>
  /\ \A w : Both(<<>>, Packet("text", w)) = Packet("text", w)
  /\ \A same, n : Both(<<>>, FileReply(same, n)) = FileReply(same, n)
  /\ \A same, n, w : Both(<<>>, Both(FileReply(same, n), Packet("text", w)))
                       = Both(FileReply(same, n), Packet("text", w))
<1>1. "text" \in Kinds /\ "file" \in Kinds
  BY DEF Kinds
<1>2. \A w : <<>> \o Packet("text", w) = Packet("text", w)
  BY <1>1, AfterNothing
<1>3. ASSUME NEW same, NEW n, NEW w
      PROVE  /\ <<>> \o FileReply(same, n) = FileReply(same, n)
             /\ <<>> \o (FileReply(same, n) \o Packet("text", w))
                  = FileReply(same, n) \o Packet("text", w)
  <2>. DEFINE v == [same |-> same, offset |-> n]
  <2>1. FileReply(same, n) = Packet("file", v)
    BY DEF FileReply
  <2>. HIDE DEF v
  <2>. QED
    BY <1>1, <2>1, AfterNothing
<1>4. Both(<<>>, <<>>) = <<>>
  BY AfterNothing DEF Both
<1>5. \A w : Both(<<>>, Packet("text", w)) = Packet("text", w)
  BY <1>2 DEF Both
<1>6. \A same, n : Both(<<>>, FileReply(same, n)) = FileReply(same, n)
  BY <1>3 DEF Both
<1>7. \A same, n, w : Both(<<>>, Both(FileReply(same, n), Packet("text", w)))
                        = Both(FileReply(same, n), Packet("text", w))
  BY <1>3 DEF Both
<1>. QED
  BY <1>4, <1>5, <1>6, <1>7

\* The last words of a worker that has said nothing, or only made an offer.
LEMMA LastWords ==
  ASSUME NEW units, WorkerEnds(units), broken' = broken
  PROVE  worker' = "over" /\ back' = IF broken THEN back ELSE Both(back, units)
  BY DEF WorkerEnds, Both

LEMMA OfferThenText ==
  ASSUME NEW n, NEW w, WorkerEnds(Both(FileReply(FALSE, n), Packet("text", w))),
         ~broken, broken' = broken, back = <<>>
  PROVE  worker' = "over" /\ back' = Both(FileReply(FALSE, n), Packet("text", w))
<1>. DEFINE u == Both(FileReply(FALSE, n), Packet("text", w))
<1>1. Both(<<>>, u) = u
  BY FirstWords
<1>2. WorkerEnds(u)
  OBVIOUS
<1>. HIDE DEF u
<1>3. worker' = "over" /\ back' = u
  BY <1>1, <1>2, LastWords
<1>. QED
  BY <1>3 DEF u

LEMMA StarvesKeeps ==
  ASSUME ExchangeInv, WorkerStarves
  PROVE  ExchangeInv'
<1>. TypeOK /\ Live(worker)
  BY DEF ExchangeInv, WorkerStarves, Starved, Live
<1>. DEFINE words == IF worker \in {"auth", "missing"} THEN <<>> ELSE Packet("text", "error")
<1>0. /\ UNCHANGED <<ctrlVars, thread, up, next, broken, told, linked, recorded, store, owed>>
      /\ WorkerEnds(words) /\ faults' \in 0..MaxFaults
      /\ length' = Len(store)
  BY FaultCounts DEF WorkerStarves, Starved, ExchangeInv, BlocksInOrder
<1>. HIDE DEF words
<1>1. worker' = "over" /\ back' = IF broken THEN back ELSE Both(back, words)
  BY <1>0, LastWords
<1>2. Conversation'
  <2>1. CASE broken
    BY <1>0, <1>1, <2>1, WorkerTalks DEF Conversation
  <2>4. CASE thread = "over"
    BY <1>0, <1>1, <2>4 DEF Conversation, Live
  <2>2. CASE ~broken /\ thread # "over" /\ back = <<>>
    <3>1. back' \in {<<>>, Packet("text", "error")}
      BY <1>1, <2>2, FirstWords DEF words
    <3>2. thread \in {"auth", "file", "offset", "send", "reply"}
      BY <2>2, WorkerTalks DEF Opening, Receiving, Leaving
    <3>3. Closing'
      BY <1>0, <1>1, <3>1, <3>2 DEF Closing
    <3>. QED
      BY <1>0, <2>2, <3>3 DEF Conversation
  <2>3. CASE ~broken /\ thread # "over" /\ back # <<>>
    <3>1. /\ worker = "recv" /\ thread = "offset" /\ back = FileReply(FALSE, Len(store))
          /\ Len(store) \in 0..FileSize
      BY <2>3, WorkerTalks DEF Opening, Receiving, Leaving, TypeOK
    <3>2. back' = Both(FileReply(FALSE, Len(store)), Packet("text", "error"))
      BY <1>1, <2>3, <3>1 DEF words
    <3>3. Closing'
      BY <1>0, <1>1, <3>1, <3>2 DEF Closing, Both
    <3>. QED
      BY <1>0, <2>3, <3>3 DEF Conversation
  <2>. QED
    BY <2>1, <2>2, <2>3, <2>4
<1>. QED
  BY <1>0, <1>1, <1>2, WorkerMoves DEF TypeOK, ExchangeInv, BlocksInOrder

LEMMA TicketKeeps ==
  ASSUME ExchangeInv, CheckTicket
  PROVE  ExchangeInv'
<1>. TypeOK /\ WorkerHas("auth") /\ Live(worker) /\ ~broken
  BY WorkerWaits DEF ExchangeInv, CheckTicket
<1>0. /\ UNCHANGED <<ctrlVars, thread, next, broken, told, dataVars>>
      /\ up' = After(up, "auth") /\ faults' \in 0..MaxFaults
  BY FaultCounts DEF CheckTicket
<1>1. /\ back = <<>>
      /\ \/ thread \in {"file", "over"} /\ up' = <<>>
         \/ thread = "offset" /\ up' = Packet("file", "info")
  BY <1>0, WorkerFindsAuth
<1>2. worker' \in {"file", "missing", "over"} /\ back' = <<>>
  <2>1. CASE worker' \in {"file", "missing"} /\ UNCHANGED back
    BY <1>1, <2>1
  <2>2. CASE WorkerEnds(<<>>)
    BY <1>0, <1>1, <2>2, LastWords, FirstWords
  <2>. QED
    BY <2>1, <2>2 DEF CheckTicket
<1>3. Conversation'
  <2>1. CASE thread # "over"
    <3>1. Opening' \/ Closing'
      BY <1>0, <1>1, <1>2, <2>1 DEF Opening, Closing
    <3>. QED
      BY <1>0, <3>1 DEF Conversation
  <2>2. CASE thread = "over" /\ worker' # "over"
    <3>1. Leaving'
      BY <1>0, <1>1, <1>2, <2>2 DEF Leaving
    <3>. QED
      BY <1>0, <3>1 DEF Conversation
  <2>3. CASE thread = "over" /\ worker' = "over"
    BY <1>0, <2>3 DEF Conversation, Live
  <2>. QED
    BY <2>1, <2>2, <2>3
<1>4. length' = Len(store') /\ worker' # "recv"
  BY <1>0, <1>2, WorkerFindsAuth DEF dataVars, ExchangeInv, BlocksInOrder
<1>. QED
  BY <1>0, <1>2, <1>3, <1>4, WorkerMoves DEF TypeOK, dataVars, ExchangeInv, BlocksInOrder

\* A worker that ends after the file packet: its last words are in order.
LEMMA AnswerKeeps ==
  ASSUME ExchangeInv, WorkerHas("file"),
         UNCHANGED <<ctrlVars, thread, next, broken, told, store, length, owed>>,
         up' = After(up, "file"), recorded' \in BOOLEAN, linked' \subseteq Names,
         faults' \in 0..MaxFaults, worker' = "over",
         \/ back' = Packet("text", "error")
         \/ back' = FileReply(TRUE, 0) /\ Uploaded'
         \/ \E n \in 0..FileSize : back' = Both(FileReply(FALSE, n), Packet("text", "error"))
         \/ back' = Both(FileReply(FALSE, FileSize), Packet("text", "ok")) /\ Uploaded'
  PROVE  ExchangeInv'
<1>1. Live(worker) /\ ~broken /\ thread = "offset"
  BY WorkerWaits, WorkerFindsFile
<1>2. Closing'
  BY <1>1 DEF Closing, Both
<1>3. Conversation'
  BY <1>1, <1>2 DEF Conversation
<1>4. length' = Len(store') /\ worker' # "recv"
  BY WorkerFindsFile DEF ExchangeInv, BlocksInOrder
<1>. QED
  BY <1>1, <1>3, <1>4, WorkerMoves DEF ExchangeInv, BlocksInOrder, TypeOK

\* The database at the end of an upload.
LEMMA Committed ==
  ASSUME ExchangeInv, Commit \/ CommitFails
  PROVE  /\ recorded' \in BOOLEAN /\ linked' \subseteq Names /\ faults' \in 0..MaxFaults
         /\ UNCHANGED <<store, length, owed>>
         /\ Commit /\ named' = named /\ Len(store) = FileSize => Uploaded'
<1>. TypeOK
  BY DEF ExchangeInv
<1>1. recorded' \in BOOLEAN /\ linked' \subseteq Names /\ UNCHANGED <<store, length, owed>>
  BY DEF Commit, CommitFails, TypeOK
<1>2. faults' \in 0..MaxFaults
  BY FaultCounts DEF Commit, CommitFails
<1>3. Commit /\ named' = named /\ Len(store) = FileSize => Uploaded'
  BY DEF Commit, Uploaded, ExchangeInv, BlocksInOrder
<1>. QED
  BY <1>1, <1>2, <1>3

LEMMA RefuseKeeps ==
  ASSUME ExchangeInv, RefuseName
  PROVE  ExchangeInv'
<1>. TypeOK /\ WorkerHas("file") /\ ~broken /\ back = <<>>
  BY WorkerWaits, WorkerFindsFile DEF ExchangeInv, RefuseName
<1>1. /\ UNCHANGED <<ctrlVars, thread, next, broken, told, dataVars, faults>>
      /\ up' = After(up, "file")
      /\ WorkerEnds(Both(FileReply(FALSE, FileSize), Packet("text", "error")))
  BY DEF RefuseName, Both
<1>2. worker' = "over" /\ back' = Both(FileReply(FALSE, FileSize), Packet("text", "error"))
  BY <1>1, OfferThenText
<1>3. FileSize \in 0..FileSize
  BY ExchangeAssumption
<1>4. \E n \in 0..FileSize : back' = Both(FileReply(FALSE, n), Packet("text", "error"))
  BY <1>2, <1>3
<1>. QED
  BY <1>1, <1>2, <1>4, AnswerKeeps DEF TypeOK, dataVars

LEMMA FailKeeps ==
  ASSUME ExchangeInv, FailFile
  PROVE  ExchangeInv'
<1>. TypeOK /\ WorkerHas("file") /\ ~broken /\ back = <<>>
  BY TakesFileHas, WorkerWaits, WorkerFindsFile DEF ExchangeInv, FailFile
<1>1. /\ UNCHANGED <<ctrlVars, thread, next, broken, told, dataVars>>
      /\ up' = After(up, "file") /\ WorkerEnds(Packet("text", "error")) /\ Fault
  BY DEF FailFile
<1>2. worker' = "over" /\ back' = Packet("text", "error")
  BY <1>1, LastWords, FirstWords
<1>3. faults' \in 0..MaxFaults
  BY <1>1, FaultCounts
<1>. QED
  BY <1>1, <1>2, <1>3, AnswerKeeps DEF TypeOK, dataVars

LEMMA InstantKeeps ==
  ASSUME ExchangeInv, InstantUpload
  PROVE  ExchangeInv'
<1>. TypeOK /\ WorkerHas("file") /\ ~broken /\ back = <<>>
  BY TakesFileHas, WorkerWaits, WorkerFindsFile DEF ExchangeInv, InstantUpload
<1>1. /\ UNCHANGED <<ctrlVars, thread, next, broken, told>>
      /\ up' = After(up, "file") /\ Len(store) = FileSize /\ named' = named
  BY TakesFileHas DEF InstantUpload, ExchangeInv, BlocksInOrder, ctrlVars
<1>2. CASE Commit /\ WorkerEnds(FileReply(TRUE, 0))
  <2>1. worker' = "over" /\ back' = FileReply(TRUE, 0)
    BY <1>1, <1>2, LastWords, FirstWords
  <2>. QED
    BY <1>1, <1>2, <2>1, Committed, AnswerKeeps
<1>3. CASE CommitFails /\ WorkerEnds(Packet("text", "error"))
  <2>1. worker' = "over" /\ back' = Packet("text", "error")
    BY <1>1, <1>3, LastWords, FirstWords
  <2>. QED
    BY <1>1, <1>3, <2>1, Committed, AnswerKeeps
<1>. QED
  BY <1>2, <1>3 DEF InstantUpload

LEMMA RegisterKeeps ==
  ASSUME ExchangeInv, RegisterContent
  PROVE  ExchangeInv'
<1>. TypeOK /\ WorkerHas("file") /\ ~broken /\ back = <<>>
  BY TakesFileHas, WorkerWaits, WorkerFindsFile DEF ExchangeInv, RegisterContent
<1>1. /\ UNCHANGED <<ctrlVars, thread, next, broken, told>>
      /\ up' = After(up, "file") /\ Len(store) = FileSize /\ named' = named
  BY TakesFileHas DEF RegisterContent, ExchangeInv, BlocksInOrder, ctrlVars
<1>0. \/ Commit /\ WorkerEnds(Both(FileReply(FALSE, FileSize), Packet("text", "ok")))
      \/ CommitFails /\ WorkerEnds(Both(FileReply(FALSE, FileSize), Packet("text", "error")))
  BY DEF RegisterContent, Both
<1>2. CASE Commit /\ WorkerEnds(Both(FileReply(FALSE, FileSize), Packet("text", "ok")))
  <2>1. worker' = "over" /\ back' = Both(FileReply(FALSE, FileSize), Packet("text", "ok"))
    BY <1>1, <1>2, OfferThenText
  <2>. QED
    BY <1>1, <1>2, <2>1, Committed, AnswerKeeps
<1>3. CASE CommitFails /\ WorkerEnds(Both(FileReply(FALSE, FileSize), Packet("text", "error")))
  <2>1. worker' = "over" /\ back' = Both(FileReply(FALSE, FileSize), Packet("text", "error"))
    BY <1>1, <1>3, OfferThenText
  <2>2. FileSize \in 0..FileSize
    BY ExchangeAssumption
  <2>3. \E n \in 0..FileSize : back' = Both(FileReply(FALSE, n), Packet("text", "error"))
    BY <2>1, <2>2
  <2>. QED
    BY <1>1, <1>3, <2>1, <2>3, Committed, AnswerKeeps
<1>. QED
  BY <1>0, <1>2, <1>3

LEMMA AskKeeps ==
  ASSUME ExchangeInv, AskForRest
  PROVE  ExchangeInv'
<1>. TypeOK /\ WorkerHas("file") /\ Live(worker) /\ ~broken /\ back = <<>> /\ thread = "offset"
  BY TakesFileHas, WorkerWaits, WorkerFindsFile DEF ExchangeInv, AskForRest
<1>1. /\ UNCHANGED <<ctrlVars, thread, next, broken, told, linked, recorded, store>>
      /\ up' = After(up, "file") /\ After(up, "file") = <<>>
      /\ length = Len(store) /\ Len(store) \in 0..FileSize /\ Len(store) < FileSize
  BY TakesFileHas, WorkerFindsFile DEF AskForRest, TypeOK, ExchangeInv, BlocksInOrder
<1>0. \/ /\ back' = Both(back, FileReply(FALSE, Len(store)))
         /\ owed' = FileSize - Len(store) /\ length' = FileSize
         /\ worker' = "recv" /\ UNCHANGED faults
      \/ /\ Fault /\ WorkerEnds(Both(FileReply(FALSE, Len(store)), Packet("text", "error")))
         /\ UNCHANGED <<length, owed>>
  BY <1>1 DEF AskForRest, MakesRoom, Both
<1>2. CASE /\ back' = Both(back, FileReply(FALSE, Len(store)))
           /\ owed' = FileSize - Len(store) /\ length' = FileSize
           /\ worker' = "recv" /\ UNCHANGED faults
  <2>1. back' = FileReply(FALSE, Len(store))
    BY <1>2, FirstWords
  <2>2. Receiving'
    BY <1>1, <1>2, <2>1 DEF Receiving
  <2>3. Conversation'
    BY <1>1, <2>2 DEF Conversation
  <2>4. owed' \in 0..FileSize
    BY <1>1, <1>2, ExchangeAssumption
  <2>. QED
    BY <1>1, <1>2, <2>3, <2>4, WorkerMoves DEF TypeOK, ExchangeInv, BlocksInOrder
<1>3. CASE /\ Fault /\ WorkerEnds(Both(FileReply(FALSE, Len(store)), Packet("text", "error")))
           /\ UNCHANGED <<length, owed>>
  <2>1. worker' = "over" /\ back' = Both(FileReply(FALSE, Len(store)), Packet("text", "error"))
    BY <1>1, <1>3, OfferThenText
  <2>2. \E n \in 0..FileSize : back' = Both(FileReply(FALSE, n), Packet("text", "error"))
    BY <1>1, <2>1
  <2>3. faults' \in 0..MaxFaults
    BY <1>3, FaultCounts
  <2>. QED
    BY <1>1, <1>3, <2>1, <2>2, <2>3, AnswerKeeps DEF TypeOK
<1>. QED
  BY <1>0, <1>2, <1>3

\* What the worker finds of the data: the block it waits for.
LEMMA NextBlock ==
  ASSUME ExchangeInv, RecvBlock
  PROVE  /\ ~broken /\ back = <<>>
         /\ thread \in {"send", "reply"} \/ (thread = "over" /\ next <= FileSize)
         /\ Len(store) \in Nat /\ Len(store) < FileSize /\ Len(store) + 1 < next
         /\ up[1].val = Len(store) + 1 /\ Tail(up) = Sent(Len(store) + 1, next - 1)
<1>1. worker = "recv" /\ up # <<>> /\ Live(worker)
  BY DEF RecvBlock, Live
<1>2. /\ ~broken /\ back = <<>>
      /\ thread \in {"send", "reply"} \/ (thread = "over" /\ next <= FileSize)
      /\ Len(store) < next /\ up = Sent(Len(store), next - 1)
  BY <1>1, WorkerTalks DEF Opening, Receiving, Leaving
<1>3. Len(store) \in Nat /\ next - 1 \in Nat /\ Len(store) <= next - 1 /\ next - 1 <= FileSize
      /\ FileSize \in Nat
  BY <1>2, ExchangeAssumption DEF ExchangeInv, TypeOK
<1>4. Len(store) < next - 1
  <2>1. Len(store) # next - 1
    BY <1>1, <1>2, <1>3, SentNothing
  <2>. QED
    BY <1>3, <2>1
<1>5. Sent(Len(store), next - 1)[1].val = Len(store) + 1
      /\ Tail(Sent(Len(store), next - 1)) = Sent(Len(store) + 1, next - 1)
  BY <1>3, <1>4, ReceiveNext
<1>6. Len(store) < FileSize /\ Len(store) + 1 < next
  <2>1. next \in Nat
    BY ExchangeAssumption DEF ExchangeInv, TypeOK
  <2>. QED
    BY <1>3, <1>4, <2>1
<1>. QED
  BY <1>2, <1>3, <1>5, <1>6

LEMMA RecvKeeps ==
  ASSUME ExchangeInv, RecvBlock
  PROVE  ExchangeInv' /\ store' = Append(store, Len(store) + 1)
<1>. DEFINE n == Len(store)
<1>1. /\ n \in Nat /\ n < FileSize /\ FileSize \in Nat /\ n + 1 < next /\ ~broken /\ back = <<>>
      /\ thread \in {"send", "reply"} \/ (thread = "over" /\ next <= FileSize)
      /\ up' = Sent(n + 1, next - 1) /\ length = FileSize
      /\ store' = Append(store, n + 1) /\ store = Blocks(n) /\ worker = "recv" /\ Live(worker)
      /\ owed = FileSize - n /\ owed' = owed - 1
      /\ UNCHANGED <<ctrlVars, thread, worker, back, next, broken, told, linked, recorded, length, faults>>
  BY NextBlock, ExchangeAssumption DEF RecvBlock, ExchangeInv, BlocksInOrder, Live
<1>. HIDE DEF n
<1>2. store' = Blocks(n + 1) /\ Len(store') = n + 1
  <2>1. n + 1 \in Nat
    BY <1>1
  <2>. QED
    BY <1>1, <2>1, BlocksShape
<1>3. Receiving' \/ Leaving'
  <2>1. store' = Blocks(Len(store')) /\ Len(store') < next' /\ up' = Sent(Len(store'), next' - 1)
    BY <1>1, <1>2
  <2>. QED
    BY <1>1, <2>1 DEF Receiving, Leaving
<1>4. Conversation'
  BY <1>1, <1>3 DEF Conversation
<1>5. /\ owed' = FileSize - (n + 1) /\ owed' \in 0..FileSize /\ n + 1 \in 0..FileSize
  BY <1>1
<1>6. /\ owed' = FileSize - Len(store') /\ Len(store') \in 0..FileSize
      /\ store' = Blocks(Len(store'))
  BY <1>2, <1>5
<1>. QED
  BY <1>1, <1>4, <1>5, <1>6, WorkerMoves DEF n, ExchangeInv, TypeOK

LEMMA FinishKeeps ==
  ASSUME ExchangeInv, FinishUpload
  PROVE  ExchangeInv'
<1>. TypeOK /\ Live(worker) /\ worker = "recv"
  BY DEF ExchangeInv, FinishUpload, Live
<1>1. /\ UNCHANGED <<ctrlVars, thread, up, next, broken, told>> /\ named' = named
      /\ Commit \/ CommitFails
  BY DEF FinishUpload, ctrlVars
<1>2. Len(store) = FileSize
  <2>1. FileSize - Len(store) = 0 /\ FileSize \in Nat /\ Len(store) \in Nat
    BY ExchangeAssumption DEF FinishUpload, ExchangeInv, BlocksInOrder, TypeOK
  <2>. QED
    BY <2>1
<1>3. \/ broken /\ up = <<>> /\ back = <<>>
      \/ ~broken /\ thread = "reply" /\ back = <<>>
  <2>1. ASSUME ~broken PROVE thread = "reply" /\ back = <<>>
    <3>0. Receiving /\ ~(Len(store) < FileSize)
      <4>1. FileSize \in Nat /\ next \in Nat /\ ~(Len(store) < FileSize)
        BY <1>2, ExchangeAssumption DEF TypeOK
      <4>2. ~Leaving
        BY <1>2, <4>1 DEF Leaving
      <4>. QED
        BY <2>1, <4>1, <4>2, WorkerTalks DEF Opening
    <3>1. thread \in {"send", "reply"} /\ back = <<>> /\ Len(store) < next
      BY <3>0 DEF Receiving
    <3>2. ~(next <= FileSize)
      BY <1>2, <3>1, ExchangeAssumption DEF TypeOK
    <3>. QED
      BY <3>1, <3>2 DEF ExchangeInv, BlocksInOrder
  <2>. QED
    BY <2>1, WorkerTalks
<1>4. /\ worker' = "over"
      /\ broken => back' = back
      /\ ~broken => \/ back' = Packet("text", "ok") /\ Uploaded'
                    \/ back' = Packet("text", "error")
  <2>1. CASE Commit /\ WorkerEnds(Packet("text", "ok"))
    <3>1. worker' = "over" /\ back' = IF broken THEN back ELSE Both(back, Packet("text", "ok"))
      BY <1>1, <2>1, LastWords
    <3>2. Uploaded'
      BY <1>1, <1>2, <2>1, Committed
    <3>. QED
      BY <1>3, <3>1, <3>2, FirstWords
  <2>2. CASE CommitFails /\ WorkerEnds(Packet("text", "error"))
    <3>1. worker' = "over" /\ back' = IF broken THEN back ELSE Both(back, Packet("text", "error"))
      BY <1>1, <2>2, LastWords
    <3>. QED
      BY <1>3, <3>1, FirstWords
  <2>. QED
    BY <2>1, <2>2 DEF FinishUpload
<1>5. Conversation'
  <2>1. CASE broken
    BY <1>1, <1>3, <1>4, <2>1 DEF Conversation
  <2>2. CASE ~broken
    <3>1. Closing'
      BY <1>1, <1>3, <1>4, <2>2 DEF Closing
    <3>. QED
      BY <1>1, <2>2, <3>1 DEF Conversation
  <2>. QED
    BY <2>1, <2>2
<1>6. /\ recorded' \in BOOLEAN /\ linked' \subseteq Names /\ faults' \in 0..MaxFaults
      /\ UNCHANGED <<store, length, owed>>
  BY <1>1, Committed
<1>7. length' = Len(store')
  BY <1>2, <1>6 DEF ExchangeInv, BlocksInOrder
<1>. QED
  BY <1>1, <1>4, <1>5, <1>6, <1>7, WorkerMoves DEF TypeOK, ExchangeInv, BlocksInOrder

LEMMA WorkerKeeps ==
  ASSUME ExchangeInv, WorkerStep
  PROVE  ExchangeInv'
  BY StarvesKeeps, TicketKeeps, RefuseKeeps, FailKeeps, InstantKeeps, RegisterKeeps,
     AskKeeps, RecvKeeps, FinishKeeps DEF WorkerStep

-----------------------------------------------------------------------------
(* The invariant.                                                             *)

LEMMA InitInv == Init => ExchangeInv
<1>. SUFFICES ASSUME Init PROVE ExchangeInv
  OBVIOUS
<1>. DEFINE n == length
<1>1. n \in 0..FileSize /\ store = Blocks(n)
  BY DEF Init
<1>2. n \in Nat /\ FileSize \in Nat
  BY <1>1, ExchangeAssumption
<1>3. Len(store) = n
  BY <1>1, <1>2, BlocksShape
<1>4. TypeOK
  <2>1. 1 \in 1..(FileSize + 1) /\ 0 \in 0..FileSize /\ 0 \in 0..MaxCmds /\ 0 \in 0..MaxFaults
    BY <1>2, ExchangeAssumption
  <2>. QED
    BY <1>1, <1>3, <2>1 DEF Init, TypeOK
<1>5. PromptStream
  BY DEF Init, PromptStream
<1>6. BlocksInOrder
  BY <1>1, <1>3 DEF Init, BlocksInOrder
<1>7. OneUpload /\ Conversation
  BY DEF Init, OneUpload, Conversation, Live
<1>. QED
  BY <1>4, <1>5, <1>6, <1>7 DEF ExchangeInv

LEMMA StutterKeeps ==
  ASSUME ExchangeInv, UNCHANGED vars
  PROVE  ExchangeInv'
<1>1. TypeOK' /\ PromptStream'
  BY DEF ExchangeInv, TypeOK, PromptStream, vars, ctrlVars, linkVars, dataVars
<1>2. BlocksInOrder' /\ OneUpload'
  BY DEF ExchangeInv, BlocksInOrder, OneUpload, Live, vars, ctrlVars, linkVars, dataVars
<1>3. /\ Opening' = Opening /\ Receiving' = Receiving
      /\ Closing' = Closing /\ Leaving' = Leaving
  BY DEF Opening, Receiving, Closing, Leaving, Uploaded, vars, ctrlVars, linkVars, dataVars
<1>4. Conversation'
  BY <1>3 DEF ExchangeInv, Conversation, Live, vars, ctrlVars, linkVars, dataVars
<1>. QED
  BY <1>1, <1>2, <1>4 DEF ExchangeInv

LEMMA NextKeeps == ExchangeInv /\ [Next]_vars => ExchangeInv'
<1>. SUFFICES ASSUME ExchangeInv, [Next]_vars PROVE ExchangeInv'
  OBVIOUS
<1>1. CASE UNCHANGED vars
  BY <1>1, StutterKeeps
<1>2. ASSUME NEW c \in Commands, TypeCommand(c) PROVE ExchangeInv'
  BY <1>2, TypeCommandKeeps
<1>. QED
  BY <1>1, <1>2, PromptKeeps, ServerKeeps, CloseKeeps, ThreadKeeps, WorkerKeeps DEF Next

\* Which packets may be on their way in which state of the client's and the
\* server's sides, on the control connection and on that of an upload.
THEOREM ExchangeCorrect == Spec => []ExchangeInv
  BY InitInv, NextKeeps, PTL DEF Spec

-----------------------------------------------------------------------------
(* Nothing is misread.                                                        *)

LEMMA InvUnderstood == ExchangeInv => NoMisread
<1>. SUFFICES ASSUME ExchangeInv PROVE NoMisread
  OBVIOUS
<1>1. ASSUME NEW c \in DOMAIN Awaited, PromptHas(c) PROVE StartsWith(down, Awaited[c])
  <2>1. asked = c /\ asked # "none" /\ Arrived(down, Awaited[asked])
    BY <1>1, AwaitedKinds DEF PromptHas
  <2>. QED
    BY <2>1, PromptAnswer DEF ExchangeInv
<1>2. ASSUME NEW k \in {"file", "text"}, ThreadHas(k) PROVE StartsWith(back, k)
  BY <1>2, OffsetReply, LastReply
<1>3. ASSUME NEW k \in {"auth", "file"}, WorkerHas(k) PROVE StartsWith(up, k)
  BY <1>3, WorkerFindsAuth, WorkerFindsFile
<1>. QED
  BY <1>1, <1>2, <1>3 DEF NoMisread

\* What client and server read as a packet of one kind is one whole packet of
\* that kind: the answers to the prompt (client_command_handle.c), the reply to
\* the file packet and the last text (client_puts.c), the opening packets of a
\* transfer (handle_transfer_request, handle_puts).
THEOREM NothingMisread == Spec => []NoMisread
  BY ExchangeCorrect, InvUnderstood, PTL

-----------------------------------------------------------------------------
(* The user is told the truth.                                                *)

LEMMA UploadedStays ==
  ASSUME Uploaded, UNCHANGED <<named, dataVars>>
  PROVE  Uploaded'
  BY DEF Uploaded, dataVars

\* A step that does not announce a success, or announces it rightly.
LEMMA TruthStays ==
  ASSUME UploadTruth, UNCHANGED <<named, dataVars>>,
         told' = told \/ told' \notin {"instant", "done"} \/ Uploaded
  PROVE  UploadTruth'
  BY UploadedStays DEF UploadTruth

LEMMA ThreadTruth ==
  ASSUME ExchangeInv, UploadTruth, ThreadStep \/ ReadFails \/ Break \/ Reset
  PROVE  UploadTruth'
<1>1. UNCHANGED <<named, dataVars>>
  BY DEF ThreadStep, ThreadOpens, ThreadLoses, OffsetArrives, SendBlock, ReplyArrives,
         ReadFails, Break, Reset, ctrlVars
<1>2. CASE ThreadOpens \/ ThreadLoses \/ SendBlock \/ ReadFails \/ Break \/ Reset
  <2>1. told' = told \/ told' \notin {"instant", "done"}
    BY <1>2 DEF ThreadOpens, ThreadLoses, SendBlock, ReadFails, Break, Reset, ThreadEnds
  <2>. QED
    BY <1>1, <2>1, TruthStays
<1>3. CASE OffsetArrives
  <2>1. told' = told \/ (back[1].val.same /\ ThreadHas("file"))
    BY <1>3 DEF OffsetArrives
  <2>2. told' = told \/ Uploaded
    BY <2>1, OffsetReply
  <2>. QED
    BY <1>1, <2>2, TruthStays
<1>4. CASE ReplyArrives
  <2>1. /\ ThreadHas("text")
        /\ told' = IF back[1].val = "ok" THEN "done" ELSE "refused"
    BY <1>4 DEF ReplyArrives, ThreadEnds
  <2>2. told' \notin {"instant", "done"} \/ Uploaded
    BY <2>1, LastReply
  <2>. QED
    BY <1>1, <2>2, TruthStays
<1>. QED
  BY <1>2, <1>3, <1>4 DEF ThreadStep

LEMMA StepTruth == ExchangeInv /\ UploadTruth /\ [Next]_vars => UploadTruth'
<1>. SUFFICES ASSUME ExchangeInv, UploadTruth, [Next]_vars PROVE UploadTruth'
  OBVIOUS
<1>1. CASE UNCHANGED vars
  BY <1>1, TruthStays DEF vars, ctrlVars, linkVars
<1>2. ASSUME NEW c \in Commands, TypeCommand(c) PROVE UploadTruth'
  <2>1. CASE c = "puts"
    BY <1>2, <2>1 DEF TypeCommand, UploadTruth
  <2>2. CASE c # "puts"
    <3>1. told' = told /\ UNCHANGED <<named, dataVars>>
      BY <1>2, <2>2 DEF TypeCommand
    <3>. QED
      BY <3>1, TruthStays
  <2>. QED
    BY <2>1, <2>2
<1>3. CASE PromptStep \/ ServerStep \/ IdleClose
  <2>1. told' = told /\ UNCHANGED <<named, dataVars>>
    BY <1>3 DEF PromptStep, PromptFails, FinishShort, FinishPlan, FinishRange, FinishPuts,
       ServerStep, Refuse, ServeLogin, ServeRegister, ServeCommand, IdleClose, linkVars
  <2>. QED
    BY <2>1, TruthStays
<1>4. CASE WorkerStep
  <2>1. Live(worker) /\ told' = told
    BY <1>4 DEF WorkerStep, WorkerStarves, Starved, CheckTicket, RefuseName, FailFile,
       InstantUpload, RegisterContent, AskForRest, RecvBlock, FinishUpload, WorkerHas, TakesFile, Live
  <2>2. told' \notin {"instant", "done"}
    BY <2>1, WorkerTalks
  <2>. QED
    BY <2>2 DEF UploadTruth
<1>. QED
  BY <1>1, <1>2, <1>3, <1>4, ThreadTruth DEF Next

\* When the upload thread reports "uploaded" or "instant upload" (client_puts.c),
\* the name is in paths, the content has its row and the store file is whole
\* (handle_puts).
THEOREM UploadsTruthful == Spec => []UploadTruth
<1>1. Init => UploadTruth
  BY DEF Init, UploadTruth
<1>. QED
  BY <1>1, ExchangeCorrect, StepTruth, PTL DEF Spec

-----------------------------------------------------------------------------
(* Interrupted uploads.                                                       *)

LEMMA StepResumes ==
  ASSUME ExchangeInv, Next
  PROVE  store' # store => worker = "recv" /\ store' = Append(store, Len(store) + 1)
<1>1. ASSUME NEW c \in Commands, TypeCommand(c) PROVE store' = store
  BY <1>1 DEF TypeCommand, dataVars
<1>2. CASE PromptStep \/ ServerStep \/ IdleClose
  BY <1>2 DEF PromptStep, PromptFails, FinishShort, FinishPlan, FinishRange, FinishPuts,
     ServerStep, Refuse, ServeLogin, ServeRegister, ServeCommand, IdleClose, dataVars
<1>3. CASE ThreadStep \/ ReadFails \/ Break \/ Reset
  BY <1>3 DEF ThreadStep, ThreadOpens, ThreadLoses, OffsetArrives, SendBlock, ReplyArrives,
     ReadFails, Break, Reset, dataVars
<1>4. CASE WorkerStep /\ ~RecvBlock
  BY <1>4 DEF WorkerStep, WorkerStarves, Starved, CheckTicket, RefuseName, FailFile,
     InstantUpload, RegisterContent, AskForRest, FinishUpload, Commit, CommitFails, dataVars
<1>5. CASE RecvBlock
  BY <1>5, RecvKeeps DEF RecvBlock
<1>. QED
  BY <1>1, <1>2, <1>3, <1>4, <1>5 DEF Next

\* However uploads of the content are interrupted, refused and repeated, only a
\* worker that receives changes the store file, by appending exactly the block
\* that is next, and whenever none receives the file is as long as the blocks
\* that have arrived (the two calls of ftruncate in handle_puts): the next
\* upload goes on from that length.
THEOREM ResumeIsExact == Spec => ResumeExact
<1>. DEFINE Resumes ==
       /\ store' # store => worker = "recv" /\ store' = Append(store, Len(store) + 1)
       /\ worker' # "recv" => length' = Len(store')
<1>1. ExchangeInv /\ [Next]_vars => [Resumes]_vars
  <2>1. SUFFICES ASSUME ExchangeInv, Next PROVE Resumes
    OBVIOUS
  <2>2. worker' # "recv" => length' = Len(store')
    BY <2>1, NextKeeps DEF ExchangeInv, BlocksInOrder
  <2>. QED
    BY <2>1, <2>2, StepResumes
<1>. HIDE DEF Resumes
<1>2. Spec => [][Resumes]_vars
  BY <1>1, ExchangeCorrect, PTL DEF Spec
<1>. QED
  BY <1>2 DEF ResumeExact, Resumes
=============================================================================
