--------------------------- MODULE ChecksumProofs ---------------------------
(* The incremental checksum update is right for the words of the code: 16   *)
(* bits, that is M = 65536.                                                 *)
EXTENDS Checksum, TLAPS

\* uint32_t has 2^32 values.
LEMMA Uint32 == M = 65536 => W = 4294967296
  BY DEF W

\* The 32-bit sum with its carry added back is the sum modulo 2^32 - 1, and it is
\* not 0 when the first term is not.
LEMMA AddCarrySum ==
  ASSUME M = 65536,
         NEW x \in Int, 0 <= x, x < 4294967296,
         NEW y \in Int, 0 <= y, y < 4294967296
  PROVE  /\ AddCarry(x, y) \in Int
         /\ 0 <= AddCarry(x, y) /\ AddCarry(x, y) < 4294967296
         /\ x > 0 => AddCarry(x, y) > 0
         /\ \/ AddCarry(x, y) = x + y
            \/ AddCarry(x, y) = x + y - 4294967295
<1>1. CASE x + y < 4294967296
  <2>1. (x + y) % 4294967296 = x + y
    BY <1>1
  <2>2. AddCarry(x, y) = x + y
    BY <1>1, <2>1, Uint32 DEF AddCarry
  <2> QED BY <1>1, <2>2
<1>2. CASE ~(x + y < 4294967296)
  <2>1. (x + y) % 4294967296 = x + y - 4294967296
    BY <1>2
  <2>2. AddCarry(x, y) = x + y - 4294967295
    BY <1>2, <2>1, Uint32 DEF AddCarry
  <2> QED BY <1>2, <2>2
<1> QED BY <1>1, <1>2

\* A fold keeps the sum modulo 2^16 - 1, and a sum that is not 0 stays so.
LEMMA FoldSum ==
  ASSUME M = 65536, NEW sum \in Int, 0 <= sum, sum < 4294967296
  PROVE  /\ FoldOnce(sum) \in Int
         /\ 0 <= FoldOnce(sum) /\ FoldOnce(sum) < 131071
         /\ sum > 0 => FoldOnce(sum) > 0
         /\ sum \div 65536 \in Int
         /\ FoldOnce(sum) = sum - 65535 * (sum \div 65536)
<1>1. /\ sum \div 65536 \in Int /\ 0 <= sum \div 65536 /\ sum \div 65536 < 65536
      /\ sum % 65536 \in Int /\ 0 <= sum % 65536 /\ sum % 65536 < 65536
      /\ sum = 65536 * (sum \div 65536) + (sum % 65536)
  OBVIOUS
<1>2. FoldOnce(sum) = (sum % 65536) + (sum \div 65536)
  BY DEF FoldOnce
<1> QED BY <1>1, <1>2

\* Two folds leave a word: the second fold of a sum that is not 0 is in 1 .. 65535.
LEMMA FoldTwice ==
  ASSUME M = 65536, NEW sum \in Int, 0 < sum, sum < 4294967296
  PROVE  /\ FoldOnce(FoldOnce(sum)) \in Int
         /\ 0 < FoldOnce(FoldOnce(sum)) /\ FoldOnce(FoldOnce(sum)) < 65536
         /\ \E k \in Int : FoldOnce(FoldOnce(sum)) = sum - 65535 * k
<1>1. /\ FoldOnce(sum) \in Int /\ 0 < FoldOnce(sum) /\ FoldOnce(sum) < 131071
      /\ sum \div 65536 \in Int
      /\ FoldOnce(sum) = sum - 65535 * (sum \div 65536)
  BY FoldSum
<1>2. PICK once \in Int : once = FoldOnce(sum)
  BY <1>1
<1>3. 0 < once /\ 0 <= once /\ once < 131071 /\ once < 4294967296
  BY <1>1, <1>2
<1>4. /\ FoldOnce(once) \in Int
      /\ 0 <= FoldOnce(once) /\ FoldOnce(once) < 131071
      /\ once > 0 => FoldOnce(once) > 0
      /\ once \div 65536 \in Int
      /\ FoldOnce(once) = once - 65535 * (once \div 65536)
  BY <1>3, FoldSum
<1>5. FoldOnce(once) < 65536
  <2>1. CASE once < 65536
    BY <1>3, <1>4, <2>1
  <2>2. CASE ~(once < 65536)
    <3>1. once \div 65536 = 1
      BY <1>3, <2>2
    <3> QED BY <1>3, <1>4, <3>1
  <2> QED BY <2>1, <2>2
<1>6. PICK k \in Int : k = (sum \div 65536) + (once \div 65536)
  BY <1>1, <1>4
<1>7. FoldOnce(once) = sum - 65535 * k
  BY <1>1, <1>2, <1>4, <1>6
<1>8. FoldOnce(FoldOnce(sum)) = FoldOnce(once)
  BY <1>2
<1>9. FoldOnce(FoldOnce(sum)) = sum - 65535 * k
  BY <1>7, <1>8
<1>10. 0 < FoldOnce(once)
  BY <1>3, <1>4
<1> QED BY <1>4, <1>5, <1>8, <1>9, <1>10

\* The two words of an address sum to the address modulo 2^16 - 1.
LEMMA WordsSum ==
  ASSUME M = 65536, NEW a \in Int, 0 <= a, a < 4294967296
  PROVE  /\ Words(a) \in Int /\ 0 <= Words(a)
         /\ a \div 65536 \in Int
         /\ Words(a) = a - 65535 * (a \div 65536)
<1>1. Words(a) = FoldOnce(a)
  BY DEF Words, FoldOnce
<1> QED BY <1>1, FoldSum

\* cksum_update replaces the words of `from' by those of `to' in the sum that the
\* checksum complements, and never returns 0xffff.
LEMMA UpdateSum ==
  ASSUME M = 65536,
         NEW csum \in Int, 0 <= csum, csum < 65536,
         NEW from \in Int, 0 <= from, from < 4294967296,
         NEW to \in Int, 0 <= to, to < 4294967296
  PROVE  /\ cksum_update(csum, from, to) \in Int
         /\ 0 <= cksum_update(csum, from, to)
         /\ cksum_update(csum, from, to) < 65535
         /\ \E k \in Int :
              cksum_update(csum, from, to) = csum + Words(from) - Words(to) + 65535 * k
<1>1. PICK csum_c \in Int, from_c \in Int :
         csum_c = 4294967295 - csum /\ from_c = 4294967295 - from
  OBVIOUS
<1>2. /\ 0 < csum_c /\ 0 <= csum_c /\ csum_c < 4294967296
      /\ 0 <= from_c /\ from_c < 4294967296
  BY <1>1
<1>3. PICK ret \in Int :
         /\ ret = AddCarry(csum_c, from_c)
         /\ 0 < ret /\ 0 <= ret /\ ret < 4294967296
         /\ ret = csum_c + from_c \/ ret = csum_c + from_c - 4294967295
  <2>1. /\ AddCarry(csum_c, from_c) \in Int
        /\ 0 <= AddCarry(csum_c, from_c) /\ AddCarry(csum_c, from_c) < 4294967296
        /\ csum_c > 0 => AddCarry(csum_c, from_c) > 0
        /\ \/ AddCarry(csum_c, from_c) = csum_c + from_c
           \/ AddCarry(csum_c, from_c) = csum_c + from_c - 4294967295
    BY <1>2, AddCarrySum
  <2>2. AddCarry(csum_c, from_c) > 0
    BY <1>2, <2>1
  <2> QED BY <2>1, <2>2
<1>4. PICK sum \in Int :
         /\ sum = AddCarry(ret, to)
         /\ 0 < sum /\ sum < 4294967296
         /\ sum = ret + to \/ sum = ret + to - 4294967295
  <2>1. /\ AddCarry(ret, to) \in Int
        /\ 0 <= AddCarry(ret, to) /\ AddCarry(ret, to) < 4294967296
        /\ ret > 0 => AddCarry(ret, to) > 0
        /\ \/ AddCarry(ret, to) = ret + to
           \/ AddCarry(ret, to) = ret + to - 4294967295
    <3>1. 0 <= ret /\ ret < 4294967296
      BY <1>3
    <3> QED BY <3>1, AddCarrySum
  <2>2. AddCarry(ret, to) > 0
    BY <1>3, <2>1
  <2> QED BY <2>1, <2>2
<1>5. PICK f \in Int, k1 \in Int :
         /\ f = FoldOnce(FoldOnce(sum))
         /\ 0 < f /\ f < 65536
         /\ f = sum - 65535 * k1
  <2>1. 0 < sum /\ sum < 4294967296
    BY <1>4
  <2>2. /\ FoldOnce(FoldOnce(sum)) \in Int
        /\ 0 < FoldOnce(FoldOnce(sum)) /\ FoldOnce(FoldOnce(sum)) < 65536
        /\ \E k \in Int : FoldOnce(FoldOnce(sum)) = sum - 65535 * k
    BY <2>1, FoldTwice
  <2>3. PICK k1 \in Int : FoldOnce(FoldOnce(sum)) = sum - 65535 * k1
    BY <2>2
  <2> QED BY <2>2, <2>3
<1>6. cksum_update(csum, from, to) = 65535 - f
  <2>1. cksum_update(csum, from, to) = M - 1 - (FoldOnce(FoldOnce(sum)) % M)
    BY <1>1, <1>3, <1>4, Uint32 DEF cksum_update
  <2>2. f % 65536 = f
    BY <1>5
  <2>3. FoldOnce(FoldOnce(sum)) % M = f
    BY <1>5, <2>2
  <2>4. M - 1 = 65535
    OBVIOUS
  <2> QED BY <2>1, <2>3, <2>4
<1>7. PICK c \in Int : sum = to - csum - from + c * 4294967295
  <2>1. PICK c1 \in Int : ret = c1 * 4294967295 - csum - from
    <3>1. CASE ret = csum_c + from_c
      <4> ret = 2 * 4294967295 - csum - from
        BY <1>1, <3>1
      <4> QED OBVIOUS
    <3>2. CASE ret = csum_c + from_c - 4294967295
      <4> ret = 1 * 4294967295 - csum - from
        BY <1>1, <3>2
      <4> QED OBVIOUS
    <3> QED BY <1>3, <3>1, <3>2
  <2>2. CASE sum = ret + to
    <3> sum = to - csum - from + c1 * 4294967295
      BY <2>1, <2>2
    <3> QED OBVIOUS
  <2>3. CASE sum = ret + to - 4294967295
    <3>1. c1 - 1 \in Int
      OBVIOUS
    <3>2. sum = to - csum - from + (c1 - 1) * 4294967295
      BY <2>1, <2>3
    <3> QED BY <3>1, <3>2
  <2> QED BY <1>4, <2>2, <2>3
<1>8. /\ from \div 65536 \in Int /\ Words(from) = from - 65535 * (from \div 65536)
      /\ to \div 65536 \in Int /\ Words(to) = to - 65535 * (to \div 65536)
      /\ Words(from) \in Int /\ Words(to) \in Int
  BY WordsSum
<1>9. PICK k \in Int :
         k = 1 + k1 - c * 65537 + (from \div 65536) - (to \div 65536)
  BY <1>8
<1>10. cksum_update(csum, from, to) = csum + Words(from) - Words(to) + 65535 * k
  BY <1>5, <1>6, <1>7, <1>8, <1>9
<1> QED BY <1>5, <1>6, <1>10

-----------------------------------------------------------------------------
\* The ranges of the packet's fields as inequalities, for every M (AddrBelow,
\* WordBelow, RestBelow) and for the M of the code (AddrRange, WordRange).
LEMMA AddrBelow == \A a : a \in Addr <=> a \in Int /\ 0 <= a /\ a < W
<1>1. W \in Int
  BY MAssumption DEF W
<1> QED BY <1>1 DEF Addr

\* As AddrBelow, for a checksum.
LEMMA WordBelow == \A w : w \in Word <=> w \in Int /\ 0 <= w /\ w < M
  BY MAssumption DEF Word

\* As AddrBelow, for the words that NAT leaves alone.
LEMMA RestBelow == \A w : w \in NonZero => w \in Int /\ 1 <= w
  BY MAssumption DEF NonZero

\* AddrBelow for 32-bit addresses.
LEMMA AddrRange ==
  ASSUME M = 65536, NEW a
  PROVE  a \in Addr <=> a \in Int /\ 0 <= a /\ a < 4294967296
<1>1. a \in Addr <=> a \in Int /\ 0 <= a /\ a < W
  BY AddrBelow
<1> QED BY <1>1, Uint32

\* WordBelow for 16-bit checksums.
LEMMA WordRange ==
  ASSUME M = 65536, NEW w
  PROVE  w \in Word <=> w \in Int /\ 0 <= w /\ w < 65536
<1>1. w \in Word <=> w \in Int /\ 0 <= w /\ w < M
  BY WordBelow
<1> QED BY <1>1

\* A sum that moves by a multiple of 2^16 - 1 and stays positive keeps its check.
LEMMA SumMoves ==
  ASSUME M = 65536, NEW s \in Int, NEW t \in Int,
         SumIsOnes(s), t > 0, \E k \in Int : t = s + 65535 * k
  PROVE  SumIsOnes(t)
<1>1. s % 65535 = 0
  <2>1. M - 1 = 65535
    OBVIOUS
  <2> QED BY <2>1 DEF SumIsOnes
<1>2. t % 65535 = 0
  <2>1. PICK k \in Int : t = s + 65535 * k
    OBVIOUS
  <2> QED BY <1>1, <2>1
<1>3. M - 1 = 65535
  OBVIOUS
<1> QED BY <1>2, <1>3 DEF SumIsOnes

\* A header of which one address is replaced keeps a valid checksum.
LEMMA HeaderStaysValid ==
  ASSUME M = 65536, NEW a \in Addr, NEW to \in Addr, NEW others \in Int, others > 0,
         NEW csum \in Word, SumIsOnes(Words(a) + others + csum)
  PROVE  /\ cksum_update(csum, a, to) \in Word
         /\ cksum_update(csum, a, to) # M - 1
         /\ SumIsOnes(Words(to) + others + cksum_update(csum, a, to))
<1>1. a \in Int /\ 0 <= a /\ a < 4294967296 /\ to \in Int /\ 0 <= to /\ to < 4294967296
  BY AddrRange
<1>2. csum \in Int /\ 0 <= csum /\ csum < 65536
  <2>1. csum \in Word => csum \in Int /\ 0 <= csum /\ csum < 65536
    BY WordRange
  <2> QED BY <2>1
<1>3. PICK new \in Int : new = cksum_update(csum, a, to)
  BY <1>1, <1>2, UpdateSum
<1>4. 0 <= new /\ new < 65535
  BY <1>1, <1>2, <1>3, UpdateSum
<1>5. PICK k \in Int : new = csum + Words(a) - Words(to) + 65535 * k
  <2>1. \E k \in Int :
          cksum_update(csum, a, to) = csum + Words(a) - Words(to) + 65535 * k
    BY <1>1, <1>2, UpdateSum
  <2> QED BY <1>3, <2>1
<1>6. Words(a) \in Int /\ Words(to) \in Int /\ 0 <= Words(to)
  BY <1>1, WordsSum
<1>7. SumIsOnes(Words(to) + others + new)
  <2>1. PICK s \in Int, t \in Int :
          s = Words(a) + others + csum /\ t = Words(to) + others + new
    BY <1>2, <1>3, <1>6
  <2>2. t = s + 65535 * k /\ t > 0
    BY <1>2, <1>4, <1>5, <1>6, <2>1
  <2>3. SumIsOnes(s)
    BY <2>1
  <2>4. t > 0 /\ \E i \in Int : t = s + 65535 * i
    BY <2>2
  <2>5. SumIsOnes(t)
    BY <2>3, <2>4, SumMoves
  <2> QED BY <2>1, <2>5
<1>8. new \in Word
  <2>1. new < 65536
    BY <1>4
  <2> QED BY <1>4, <2>1, WordRange
<1>9. new # M - 1
  BY <1>4
<1> QED BY <1>3, <1>7, <1>8, <1>9

\* A checksum, passed to cksum_update as a uint32_t, is its own single word.
LEMMA WordIsAddr ==
  ASSUME M = 65536, NEW w \in Word
  PROVE  w \in Addr /\ Words(w) = w
<1>1. w \in Int /\ 0 <= w /\ w < 65536
  BY WordRange
<1>2. w \div 65536 = 0 /\ w % 65536 = w /\ w < 4294967296
  BY <1>1
<1>3. w \in Addr
  BY <1>1, <1>2, AddrRange
<1>4. Words(w) = 0 + w
  BY <1>2 DEF Words
<1> QED BY <1>1, <1>3, <1>4

-----------------------------------------------------------------------------
\* The rewrite of the outer header keeps its checksum right.
LEMMA OuterStep ==
  ASSUME M = 65536, ChecksumInv, NEW to \in Addr, RewriteOuter(to)
  PROVE  /\ address' \in Addr /\ rest' \in NonZero /\ hdr_checksum' \in Word
         /\ OuterValid'
         /\ hdr_checksum' # M - 1
<1>1. /\ address \in Addr /\ rest \in NonZero /\ hdr_checksum \in Word
      /\ SumIsOnes(Words(address) + rest + hdr_checksum)
  BY DEF ChecksumInv, ChecksumTypeOK, ChecksumsValid, OuterValid
<1>2. rest \in Int /\ rest > 0
  <2>1. rest \in Int /\ 1 <= rest
    BY <1>1, RestBelow
  <2> QED BY <2>1
<1>3. /\ cksum_update(hdr_checksum, address, to) \in Word
      /\ cksum_update(hdr_checksum, address, to) # M - 1
      /\ SumIsOnes(Words(to) + rest + cksum_update(hdr_checksum, address, to))
  BY <1>1, <1>2, HeaderStaysValid
<1> QED BY <1>1, <1>3 DEF RewriteOuter, OuterValid

\* The rewrite of the quoted header keeps its checksum and that of ICMP right.
LEMMA InnerStep ==
  ASSUME M = 65536, ChecksumInv, NEW to \in Addr, RewriteInner(to)
  PROVE  /\ inner_address' \in Addr /\ inner_rest' \in NonZero
         /\ inner_hdr_checksum' \in Word
         /\ icmp_rest' \in NonZero /\ icmp_cksum' \in Word
         /\ InnerValid' /\ IcmpValid'
         /\ inner_hdr_checksum' # M - 1 /\ icmp_cksum' # M - 1
<1>1. /\ inner_address \in Addr /\ inner_rest \in NonZero
      /\ inner_hdr_checksum \in Word
      /\ icmp_rest \in NonZero /\ icmp_cksum \in Word
      /\ SumIsOnes(Words(inner_address) + inner_rest + inner_hdr_checksum)
      /\ SumIsOnes(Words(inner_address) + inner_rest + inner_hdr_checksum
                     + icmp_rest + icmp_cksum)
  BY DEF ChecksumInv, ChecksumTypeOK, ChecksumsValid, InnerValid, IcmpValid
<1>2. inner_rest \in Int /\ inner_rest > 0 /\ icmp_rest \in Int /\ icmp_rest > 0
  <2>1. inner_rest \in Int /\ 1 <= inner_rest /\ icmp_rest \in Int /\ 1 <= icmp_rest
    BY <1>1, RestBelow
  <2> QED BY <2>1
<1>3. PICK new : new = cksum_update(inner_hdr_checksum, inner_address, to)
  OBVIOUS
<1>4. /\ new \in Word /\ new # M - 1
      /\ SumIsOnes(Words(to) + inner_rest + new)
  BY <1>1, <1>2, <1>3, HeaderStaysValid
<1>5. PICK mid : mid = cksum_update(icmp_cksum, inner_hdr_checksum, new)
  OBVIOUS
<1>6. PICK last : last = cksum_update(mid, inner_address, to)
  OBVIOUS
<1>7. /\ inner_hdr_checksum \in Addr /\ Words(inner_hdr_checksum) = inner_hdr_checksum
      /\ new \in Addr /\ Words(new) = new
  BY <1>1, <1>4, WordIsAddr
<1>8. /\ Words(inner_address) \in Int /\ 0 <= Words(inner_address)
      /\ Words(to) \in Int /\ 0 <= Words(to)
  <2>1. /\ inner_address \in Int /\ 0 <= inner_address /\ inner_address < 4294967296
        /\ to \in Int /\ 0 <= to /\ to < 4294967296
    BY <1>1, AddrRange
  <2> QED BY <2>1, WordsSum
<1>9. /\ inner_hdr_checksum \in Int /\ 0 <= inner_hdr_checksum
      /\ new \in Int /\ 0 <= new /\ icmp_cksum \in Int
  BY <1>1, <1>4, WordRange
<1>10. /\ mid \in Word
       /\ SumIsOnes(Words(inner_address) + inner_rest + new + icmp_rest + mid)
  <2>1. PICK others \in Int : others = Words(inner_address) + inner_rest + icmp_rest
    BY <1>2, <1>8
  <2>2. others > 0
    BY <1>2, <1>8, <2>1
  <2>3. SumIsOnes(Words(inner_hdr_checksum) + others + icmp_cksum)
    <3>1. Words(inner_hdr_checksum) + others + icmp_cksum
            = Words(inner_address) + inner_rest + inner_hdr_checksum + icmp_rest + icmp_cksum
      BY <1>2, <1>7, <1>8, <1>9, <2>1
    <3> QED BY <1>1, <3>1
  <2>4. mid \in Word /\ SumIsOnes(Words(new) + others + mid)
    BY <1>1, <1>5, <1>7, <2>2, <2>3, HeaderStaysValid
  <2>5. mid \in Int
    BY <2>4, WordRange
  <2>6. Words(new) + others + mid
          = Words(inner_address) + inner_rest + new + icmp_rest + mid
    BY <1>2, <1>7, <1>8, <1>9, <2>1, <2>5
  <2> QED BY <2>4, <2>6
<1>11. /\ last \in Word /\ last # M - 1
       /\ SumIsOnes(Words(to) + inner_rest + new + icmp_rest + last)
  <2>1. PICK others \in Int : others = inner_rest + new + icmp_rest
    BY <1>2, <1>9
  <2>2. others > 0
    BY <1>2, <1>9, <2>1
  <2>3. mid \in Int
    BY <1>10, WordRange
  <2>4. Words(inner_address) + others + mid
          = Words(inner_address) + inner_rest + new + icmp_rest + mid
    BY <1>2, <1>8, <1>9, <2>1, <2>3
  <2>5. SumIsOnes(Words(inner_address) + others + mid)
    BY <1>10, <2>4
  <2>6. last \in Word /\ last # M - 1 /\ SumIsOnes(Words(to) + others + last)
    BY <1>1, <1>6, <1>10, <2>2, <2>5, HeaderStaysValid
  <2>7. last \in Int
    BY <2>6, WordRange
  <2>8. Words(to) + others + last
          = Words(to) + inner_rest + new + icmp_rest + last
    BY <1>2, <1>8, <1>9, <2>1, <2>7
  <2> QED BY <2>6, <2>8
<1>12. /\ inner_address' = to /\ inner_hdr_checksum' = new /\ icmp_cksum' = last
       /\ inner_rest' = inner_rest /\ icmp_rest' = icmp_rest
  BY <1>3, <1>5, <1>6 DEF RewriteInner
<1> QED BY <1>1, <1>4, <1>11, <1>12 DEF InnerValid, IcmpValid

-----------------------------------------------------------------------------
\* Every step keeps every checksum right.
LEMMA ChecksumStep == M = 65536 /\ ChecksumInv /\ [Next]_vars => ChecksumInv'
<1> SUFFICES ASSUME M = 65536, ChecksumInv, [Next]_vars
             PROVE  ChecksumInv'
  OBVIOUS
<1>1. ASSUME NEW to \in Addr, Rewrite(to)
      PROVE  ChecksumInv'
  <2>1. RewriteOuter(to) /\ UNCHANGED inner
    BY <1>1 DEF Rewrite
  <2>2. /\ address' \in Addr /\ rest' \in NonZero /\ hdr_checksum' \in Word
        /\ OuterValid'
    BY <2>1, OuterStep
  <2> QED BY <2>1, <2>2
          DEF inner, ChecksumInv, ChecksumTypeOK, ChecksumsValid, InnerValid, IcmpValid
<1>2. ASSUME NEW to \in Addr, NEW inner_to \in Addr, RewriteError(to, inner_to)
      PROVE  ChecksumInv'
  <2>1. RewriteOuter(to) /\ RewriteInner(inner_to)
    BY <1>2 DEF RewriteError
  <2>2. /\ address' \in Addr /\ rest' \in NonZero /\ hdr_checksum' \in Word
        /\ OuterValid'
    BY <2>1, OuterStep
  <2>3. /\ inner_address' \in Addr /\ inner_rest' \in NonZero
        /\ inner_hdr_checksum' \in Word
        /\ icmp_rest' \in NonZero /\ icmp_cksum' \in Word
        /\ InnerValid' /\ IcmpValid'
    BY <2>1, InnerStep
  <2> QED BY <2>2, <2>3 DEF ChecksumInv, ChecksumTypeOK, ChecksumsValid
<1>3. CASE UNCHANGED vars
  BY <1>3 DEF vars, outer, inner, ChecksumInv, ChecksumTypeOK, ChecksumsValid,
              OuterValid, InnerValid, IcmpValid
<1> QED BY <1>1, <1>2, <1>3 DEF Next

\* However often cksum_update is applied to a packet that arrived with right
\* checksums, with 16-bit words and 32-bit sums, its checksums stay right.
THEOREM ChecksumsStayValid ==
  ASSUME M = 65536
  PROVE  Spec => []ChecksumInv
<1>1. Init => ChecksumInv
  BY DEF Init, ChecksumInv, ChecksumsValid
<1>2. ChecksumInv /\ [Next]_vars => ChecksumInv'
  BY ChecksumStep
<1> QED BY <1>1, <1>2, PTL DEF Spec

\* No rewrite ever produces 0xffff, the second zero of one's complement.
THEOREM NeverAllOnes ==
  ASSUME M = 65536
  PROVE  Spec => UpdatesAreCanonical
<1>1. ASSUME ChecksumInv, [Next]_vars
      PROVE  [/\ address' # address => hdr_checksum' # M - 1
              /\ inner_address' # inner_address =>
                   inner_hdr_checksum' # M - 1 /\ icmp_cksum' # M - 1]_vars
  <2>1. ASSUME NEW to \in Addr, Rewrite(to)
        PROVE  hdr_checksum' # M - 1 /\ inner_address' = inner_address
    <3>1. RewriteOuter(to) /\ UNCHANGED inner
      BY <2>1 DEF Rewrite
    <3>2. hdr_checksum' # M - 1
      BY <1>1, <3>1, OuterStep
    <3> QED BY <3>1, <3>2 DEF inner
  <2>2. ASSUME NEW to \in Addr, NEW inner_to \in Addr, RewriteError(to, inner_to)
        PROVE  /\ hdr_checksum' # M - 1
               /\ inner_hdr_checksum' # M - 1 /\ icmp_cksum' # M - 1
    <3>1. RewriteOuter(to) /\ RewriteInner(inner_to)
      BY <2>2 DEF RewriteError
    <3>2. hdr_checksum' # M - 1
      BY <1>1, <3>1, OuterStep
    <3>3. inner_hdr_checksum' # M - 1 /\ icmp_cksum' # M - 1
      BY <1>1, <3>1, InnerStep
    <3> QED BY <3>2, <3>3
  <2> QED BY <1>1, <2>1, <2>2 DEF Next
<1>2. Spec => []ChecksumInv
  BY ChecksumsStayValid
<1> QED BY <1>1, <1>2, PTL DEF Spec, UpdatesAreCanonical
=============================================================================
