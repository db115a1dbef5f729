----------------------------- MODULE SeqProofs -----------------------------
(***************************************************************************)
(* Arithmetic of sequence numbers, for any even modulus: what the          *)
(* conversions of SeqTracker do, and that they respect congruence.         *)
(***************************************************************************)
EXTENDS SeqTracker, TLAPS

LEMMA ModDivision ==
  ASSUME NEW x \in Int
  PROVE  /\ x % SeqMod \in SeqNum /\ x \div SeqMod \in Int
         /\ x = (x \div SeqMod) * SeqMod + (x % SeqMod)
BY SeqModAssumption DEF SeqNum

LEMMA ModSmall ==
  ASSUME NEW x \in SeqNum
  PROVE  x % SeqMod = x
BY SeqModAssumption DEF SeqNum

LEMMA ModOver ==
  ASSUME NEW x \in Int, SeqMod <= x, x < 2 * SeqMod
  PROVE  x % SeqMod = x - SeqMod
BY SeqModAssumption

LEMMA ModUnder ==
  ASSUME NEW x \in Int, - SeqMod <= x, x < 0
  PROVE  x % SeqMod = x + SeqMod
BY SeqModAssumption

-----------------------------------------------------------------------------
(* x and y are congruent modulo 2^32.                                       *)
Cong(x, y) == \E k \in Int : x = y + k * SeqMod

(* No multiple of the modulus but 0 is smaller than it.                     *)
LEMMA SmallMultiple ==
  ASSUME NEW d \in Int, - SeqMod < d * SeqMod, d * SeqMod < SeqMod
  PROVE  d = 0
<1>1. SeqMod \in Int /\ SeqMod > 0
  BY SeqModAssumption
<1>2. ASSUME d >= 1 PROVE d * SeqMod >= SeqMod
  <2>1. d * SeqMod = (d - 1) * SeqMod + SeqMod
    BY <1>1
  <2>2. (d - 1) * SeqMod >= 0
    BY <1>1, <1>2
  <2>3. QED
    BY <1>1, <2>1, <2>2
<1>3. ASSUME d <= -1 PROVE d * SeqMod <= - SeqMod
  <2>1. d * SeqMod = -((-d - 1) * SeqMod) - SeqMod
    BY <1>1
  <2>2. (-d - 1) * SeqMod >= 0
    BY <1>1, <1>3
  <2>3. QED
    BY <1>1, <2>1, <2>2
<1>4. QED
  BY <1>1, <1>2, <1>3

LEMMA CongMod ==
  ASSUME NEW x \in Int, NEW y \in Int, Cong(x, y)
  PROVE  x % SeqMod = y % SeqMod
<1>1. PICK k \in Int : x = y + k * SeqMod
  BY DEF Cong
<1> DEFINE a == x \div SeqMod
           b == y \div SeqMod
           r == x % SeqMod
           s == y % SeqMod
           d == a - b - k
<1>2. SeqMod \in Int /\ SeqMod > 0
  BY SeqModAssumption
<1>3. /\ a \in Int /\ r \in Int /\ 0 <= r /\ r < SeqMod /\ x = a * SeqMod + r
      /\ b \in Int /\ s \in Int /\ 0 <= s /\ s < SeqMod /\ y = b * SeqMod + s
  BY ModDivision, <1>2 DEF SeqNum
<1> HIDE DEF a, b, r, s
<1>4. d \in Int /\ d * SeqMod = s - r
  BY <1>1, <1>2, <1>3
<1> HIDE DEF d
<1>5. d = 0
  BY <1>2, <1>3, <1>4, SmallMultiple
<1>6. r = s
  BY <1>2, <1>3, <1>4, <1>5
<1>7. QED
  BY <1>6 DEF r, s

LEMMA ModCong ==
  ASSUME NEW x \in Int
  PROVE  Cong(x % SeqMod, x)
<1>1. x % SeqMod = x + (-(x \div SeqMod)) * SeqMod
  BY ModDivision, SeqModAssumption
<1>2. QED
  BY <1>1, ModDivision DEF Cong

LEMMA CongOfMod ==
  ASSUME NEW x \in Int, NEW y \in Int, x % SeqMod = y % SeqMod
  PROVE  Cong(x, y)
<1>1. x = y + (x \div SeqMod - (y \div SeqMod)) * SeqMod
  BY ModDivision, SeqModAssumption
<1>2. QED
  BY <1>1, ModDivision DEF Cong

LEMMA CongSum ==
  ASSUME NEW u \in Int, NEW v \in Int, NEW x \in Int, NEW y \in Int,
         Cong(u, v), Cong(x, y)
  PROVE  Cong(u + x, v + y)
<1>1. PICK k \in Int : u = v + k * SeqMod
  BY DEF Cong
<1>2. PICK l \in Int : x = y + l * SeqMod
  BY DEF Cong
<1>3. u + x = (v + y) + (k + l) * SeqMod
  BY <1>1, <1>2, SeqModAssumption
<1>4. QED
  BY <1>3 DEF Cong

LEMMA CongRefl ==
  ASSUME NEW x \in Int
  PROVE  Cong(x, x)
<1>1. x = x + 0 * SeqMod
  BY SeqModAssumption
<1>2. QED
  BY <1>1 DEF Cong

-----------------------------------------------------------------------------
(* The conversion to int: in range, and congruent.                          *)
LEMMA ToIntFacts ==
  ASSUME NEW x \in SeqNum
  PROVE  /\ ToInt(x) \in SeqInt /\ ToInt(x) \in Int
         /\ ToInt(x) = x \/ ToInt(x) = x - SeqMod
         /\ Cong(ToInt(x), x)
<1> DEFINE h == SeqMod \div 2
<1>1. SeqMod \in Nat /\ SeqMod > 0 /\ h \in Nat /\ SeqMod = 2 * h
  BY SeqModAssumption
<1>2. x \in Int /\ 0 <= x /\ x < SeqMod
  BY <1>1 DEF SeqNum
<1>3. ToInt(x) = IF x < h THEN x ELSE x - SeqMod
  BY DEF ToInt
<1>4. SeqInt = -h .. h - 1
  BY DEF SeqInt
<1> HIDE DEF h
<1>5. ToInt(x) \in SeqInt /\ ToInt(x) \in Int
  BY <1>1, <1>2, <1>3, <1>4
<1>6. ToInt(x) = x \/ ToInt(x) = x - SeqMod
  BY <1>3
<1>7. x = x + 0 * SeqMod /\ x - SeqMod = x + (-1) * SeqMod
  BY <1>1, <1>2
<1>8. QED
  BY <1>5, <1>6, <1>7 DEF Cong

(* What a packet of the channel does to the tracker.                        *)
LEMMA TrackedType ==
  ASSUME NEW t \in Tracker, NEW seq \in SeqNum
  PROVE  /\ Tracked(t, seq) \in Tracker
         /\ Gap(t, seq) \in SeqNum
         /\ Tracked(t, seq).first_packet = FALSE
         /\ Tracked(t, seq).expected_seq = (seq + 1) % SeqMod
         /\ Tracked(t, seq).packet_loss_count =
              IF t.first_packet THEN t.packet_loss_count
                                ELSE ToInt((t.packet_loss_count + Gap(t, seq)) % SeqMod)
<1>1. /\ t.expected_seq \in Int /\ t.packet_loss_count \in Int /\ t.packet_loss_count \in SeqInt
      /\ seq \in Int /\ t.first_packet \in BOOLEAN
  <2>1. SeqMod \div 2 \in Int
    BY SeqModAssumption
  <2>2. QED
    BY <2>1, SeqModAssumption DEF Tracker, SeqNum, SeqInt
<1>2. Gap(t, seq) \in SeqNum /\ Gap(t, seq) \in Int
  <2>1. seq - t.expected_seq \in Int
    BY <1>1
  <2>2. (seq - t.expected_seq) % SeqMod \in SeqNum
    BY <2>1, ModDivision
  <2>3. QED
    BY <2>2, SeqModAssumption DEF Gap, SeqNum
<1>3. (seq + 1) % SeqMod \in SeqNum
  BY <1>1, ModDivision
<1>4. ToInt((t.packet_loss_count + Gap(t, seq)) % SeqMod) \in SeqInt
  <2>1. t.packet_loss_count + Gap(t, seq) \in Int
    BY <1>1, <1>2
  <2>2. (t.packet_loss_count + Gap(t, seq)) % SeqMod \in SeqNum
    BY <2>1, ModDivision
  <2>3. QED
    BY <2>2, ToIntFacts
<1>5. QED
  BY <1>1, <1>2, <1>3, <1>4 DEF Tracked, Tracker

(* A packet that is g packets on from the one expected: the gap is g, and   *)
(* the count of losses, held in an int, grows by g.                         *)
LEMMA GapExact ==
  ASSUME NEW t \in Tracker, NEW g \in SeqNum, NEW seq,
         seq = (t.expected_seq + g) % SeqMod
  PROVE  Gap(t, seq) = g
<1> DEFINE e == t.expected_seq
<1>1. /\ e \in Int /\ 0 <= e /\ e < SeqMod /\ g \in Int /\ 0 <= g /\ g < SeqMod
      /\ SeqMod \in Int /\ e + g \in Int
  BY SeqModAssumption DEF Tracker, SeqNum
<1>2. Gap(t, seq) = (seq - e) % SeqMod
  BY DEF Gap
<1>3. seq = (e + g) % SeqMod
  OBVIOUS
<1> HIDE DEF e
<1>4. CASE e + g < SeqMod
  <2>1. e + g \in SeqNum
    BY <1>1, <1>4 DEF SeqNum
  <2>2. seq = e + g
    BY <1>3, <2>1, ModSmall
  <2>3. seq - e = g
    BY <1>1, <2>2
  <2>4. QED
    BY <1>2, <2>3, ModSmall
<1>5. CASE SeqMod <= e + g
  <2>1. e + g < 2 * SeqMod
    BY <1>1
  <2>2. seq = (e + g) - SeqMod
    BY <1>1, <1>3, <1>5, <2>1, ModOver
  <2>3. seq - e = g - SeqMod /\ g - SeqMod \in Int /\ - SeqMod <= g - SeqMod /\ g - SeqMod < 0
    BY <1>1, <2>2
  <2>4. (g - SeqMod) % SeqMod = (g - SeqMod) + SeqMod
    BY <2>3, ModUnder
  <2>5. QED
    BY <1>1, <1>2, <2>3, <2>4
<1>6. QED
  BY <1>1, <1>4, <1>5

LEMMA LossSum ==
  ASSUME NEW m \in SeqNum, NEW g \in SeqNum
  PROVE  /\ (m + g) % SeqMod \in SeqNum
         /\ ToInt((ToInt(m) + g) % SeqMod) = ToInt((m + g) % SeqMod)
<1>1. m \in Int /\ g \in Int
  BY SeqModAssumption DEF SeqNum
<1>2. ToInt(m) \in Int /\ Cong(ToInt(m), m) /\ Cong(g, g)
  BY <1>1, ToIntFacts, CongRefl
<1>3. Cong(ToInt(m) + g, m + g)
  BY <1>1, <1>2, CongSum
<1>4. (ToInt(m) + g) % SeqMod = (m + g) % SeqMod
  <2>1. ToInt(m) + g \in Int /\ m + g \in Int
    BY <1>1, <1>2
  <2>2. QED
    BY <1>3, <2>1, CongMod
<1>5. (m + g) % SeqMod \in SeqNum
  <2>1. m + g \in Int
    BY <1>1
  <2>2. QED
    BY <2>1, ModDivision
<1>6. QED
  BY <1>4, <1>5

(* One packet further on.                                                   *)
LEMMA NextSeq ==
  ASSUME NEW e \in SeqNum, NEW g \in SeqNum
  PROVE  (((e + g) % SeqMod) + 1) % SeqMod = (e + ((g + 1) % SeqMod)) % SeqMod
<1>1. e \in Int /\ g \in Int /\ g + 1 \in Int /\ e + g \in Int /\ 1 \in Int
  BY SeqModAssumption DEF SeqNum
<1>2. (e + g) % SeqMod \in Int /\ (g + 1) % SeqMod \in Int
  BY <1>1, ModDivision, SeqModAssumption DEF SeqNum
<1>3. Cong(((e + g) % SeqMod) + 1, (e + g) + 1)
  BY <1>1, <1>2, ModCong, CongRefl, CongSum
<1>4. Cong(e + ((g + 1) % SeqMod), e + (g + 1))
  BY <1>1, <1>2, ModCong, CongRefl, CongSum
<1>5. (((e + g) % SeqMod) + 1) % SeqMod = ((e + g) + 1) % SeqMod
  <2>1. ((e + g) % SeqMod) + 1 \in Int /\ (e + g) + 1 \in Int
    BY <1>1, <1>2
  <2>2. QED
    BY <1>3, <2>1, CongMod
<1>6. (e + ((g + 1) % SeqMod)) % SeqMod = (e + (g + 1)) % SeqMod
  <2>1. e + ((g + 1) % SeqMod) \in Int /\ e + (g + 1) \in Int
    BY <1>1, <1>2
  <2>2. QED
    BY <1>4, <2>1, CongMod
<1>7. (e + g) + 1 = e + (g + 1)
  BY <1>1
<1>8. QED
  BY <1>5, <1>6, <1>7
=============================================================================
