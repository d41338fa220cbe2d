---------------------------- MODULE Identifiers ----------------------------
(***************************************************************************)
(* The library's functions on plain values: the UUIDs of uuid_v4.h with    *)
(* their text, version comparison and the median.                          *)
(*                                                                         *)
(* A UUID is its 16 bytes.  A 256-bit register is its 32 bytes, in two     *)
(* lanes; the tables are those of the shuffles, lowest byte first, with -1 *)
(* where the byte becomes zero.                                            *)
(***************************************************************************)
EXTENDS Integers, SequencesExt

CONSTANTS
  UuidSamples,     (* the 16-byte sequences that are looked at             *)
  Versions,        (* the numbers of the versions compared, at most four   *)
  Garbage,         (* what uninitialised memory may hold                   *)
  Lists,           (* the lists of numbers whose median is taken           *)
  FloatBits        (* the bits of the significand of a float               *)

VARIABLE posed     (* the last question                                    *)

identifierVars == <<posed>>

Bytes(n, Byte(_)) == [i \in 1..n |-> Byte(i - 1)]
Lane(i) == 16 * (i \div 16)
Shuffle(v, table) ==
  Bytes(32, LAMBDA i : IF table[i + 1] < 0 THEN 0
                       ELSE v[Lane(i) + table[i + 1] + 1])

----------------------------------------------------------------------------
(* m128itos: the digits, high one first, then the dashes in the middle of  *)
(* each lane; the bytes pushed out of the lanes are stored over the end.   *)
DashTable ==
  <<0, 1, 2, 3, 4, 5, 6, 7, -1, 8, 9, 10, 11, -1, 12, 13,
    -1, -1, -1, 0, 1, 2, 3, -1, 4, 5, 6, 7, 8, 9, 10, 11>>
Dashes == {8, 13, 18, 23}
Dash == 45
HexDigit(d) == IF d < 10 THEN 48 + d ELSE 87 + d
Digits(u) ==
  Bytes(32, LAMBDA i : LET byte == u[i \div 2 + 1]
                       IN HexDigit(IF i % 2 = 0 THEN byte \div 16 ELSE byte % 16))

Text(u) ==
  LET res == Digits(u)
      spread == Shuffle(res, DashTable)
  IN Bytes(36, LAMBDA i :
       IF i \in {16, 17} THEN res[i - 1]
       ELSE IF i >= 32 THEN res[i - 3]
       ELSE IF i \in Dashes THEN Dash ELSE spread[i + 1])

(* stom128i: the digits packed again and turned into numbers; those in odd *)
(* places are the low halves, added to the others in 32-bit integers.      *)
PackTable ==
  <<0, 1, 2, 3, 4, 5, 6, 7, 9, 10, 11, 12, 14, 15, -1, -1,
    3, 4, 5, 6, 8, 9, 10, 11, 12, 13, 14, 15, -1, -1, -1, -1>>
Packed(s) ==
  LET body == Shuffle(s, PackTable)
  IN Bytes(32, LAMBDA i : IF i \in {14, 15} THEN s[i + 3]
                          ELSE IF i >= 28 THEN s[i + 5] ELSE body[i + 1])
BitSet(n, bit) == (n \div bit) % 2 = 1
HexValue(c) ==
  LET a == (c - 47) % 256
  IN (a - IF BitSet(a, 32) THEN 40 ELSE 1) % 256

(* Four bytes of high digits, shifted by 4 as one integer, and four of low *)
(* ones, added: the carries go from byte to byte.                          *)
Joined(highs, lows) ==
  LET carry[i \in 0..4] ==
        IF i = 0 THEN 0 ELSE (16 * highs[i] + lows[i] + carry[i - 1]) \div 256
  IN [i \in 1..4 |-> (16 * highs[i] + lows[i] + carry[i - 1]) % 256]
FromText(s) ==
  LET d == [i \in 1..32 |-> HexValue(Packed(s)[i])]
      Quad(q) == Joined([i \in 1..4 |-> d[8 * q + 2 * i - 1]],
                        [i \in 1..4 |-> d[8 * q + 2 * i]])
  IN Quad(0) \o Quad(1) \o Quad(2) \o Quad(3)

(* operator< compares two little-endian numbers of 8 bytes, and getUUID    *)
(* marks what the generator gives.                                         *)
WordLess(a, b) ==
  \E i \in 1..8 : a[i] < b[i] /\ \A j \in i + 1..8 : a[j] = b[j]
Less(u, v) ==
  LET low(x) == SubSeq(x, 1, 8)
      high(x) == SubSeq(x, 9, 16)
  IN \/ WordLess(low(u), low(v))
     \/ low(u) = low(v) /\ WordLess(high(u), high(v))
GetUUID(n) ==
  [n EXCEPT ![7] = 64 + (@ % 16), ![9] = 128 + (@ % 64)]

----------------------------------------------------------------------------
(* versioncompare.h: numbers that are not there are not written.           *)
Parse(version, garbage) ==
  [i \in 1..4 |-> IF i <= Len(version) THEN version[i] ELSE garbage]
Lexicographic(a, b) ==
  \E i \in 1..4 : a[i] < b[i] /\ \A j \in 1 .. i - 1 : a[j] = b[j]
(* Variant: one smaller number is enough, wherever it is.                  *)
LessInSome(a, b, ga, gb) ==
  \E i \in 1..4 : Parse(a, ga)[i] < Parse(b, gb)[i]
LessThanVersion(a, b, ga, gb) == Lexicographic(Parse(a, ga), Parse(b, gb))

(* A whole number as a float: the nearest multiple of what its size leaves *)
(* between two floats, the even one of two that are as near.               *)
Spacing(n) ==
  CHOOSE s \in {2 ^ k : k \in 0..n} :
    n < s * 2 ^ FloatBits /\ (s = 1 \/ 2 * n >= s * 2 ^ FloatBits)
ToFloat(n) ==
  LET s == Spacing(n)
      units == n \div s
      rest == 2 * (n % s)
      up == rest > s \/ (rest = s /\ units % 2 = 1)
  IN s * IF up THEN units + 1 ELSE units

(* median.h: nth_element brings the middle one to its place and the        *)
(* smaller ones before it.  Twice the median, which may be a half; the     *)
(* elements become floats, and so does the sum of two of them.             *)
NthElement(list) == SortSeq(list, <)
Largest(s) == CHOOSE x \in ToSet(s) : \A y \in ToSet(s) : y <= x
Median(list) ==
  LET middle == Len(list) \div 2
      placed == NthElement(list)
      med == ToFloat(placed[middle + 1])
  IN IF Len(list) % 2 = 1 THEN 2 * med
     ELSE ToFloat(ToFloat(Largest(SubSeq(placed, 1, middle))) + med)

----------------------------------------------------------------------------
Pose(kind, q) == posed' = [kind |-> kind, q |-> q]
PoseUuid == \E u \in UuidSamples : Pose("uuid", u)
PosePair == \E u, v \in UuidSamples : u # v /\ Pose("pair", <<u, v>>)
PoseVersion ==
  \E a, b \in Versions, ga, gb \in Garbage :
    Pose("version", [a |-> a, b |-> b, ga |-> ga, gb |-> gb])
PoseList == \E l \in Lists : Pose("list", l)

IdentifiersInit == posed = [kind |-> "nothing", q |-> 0]
IdentifiersNext ==
  posed.kind = "nothing" /\ (PoseUuid \/ PosePair \/ PoseVersion \/ PoseList)

----------------------------------------------------------------------------
(* The text of a UUID has its dashes and digits in their places, and is    *)
(* read back as the same UUID.  Texts of other writers are not asked for:  *)
(* stom128i takes upper-case digits for other ones.                        *)
TextIsRight(u) ==
  LET s == Text(u)
  IN FromText(s) = u /\ \A i \in 1..36 : (s[i] = Dash) = (i - 1 \in Dashes)
(* A generated UUID has version 4 and the variant of RFC 4122.             *)
MarksAreRight(u) ==
  LET s == Text(GetUUID(u))
  IN s[15] = HexDigit(4) /\ s[20] \in {HexDigit(d) : d \in 8..11}
(* Of two versions the first number in which they differ decides, whatever *)
(* is in the memory of the numbers that are missing.                       *)
VersionIsRight(q) ==
  LET n == IF Len(q.a) <= Len(q.b) THEN Len(q.a) ELSE Len(q.b)
      differ == {i \in 1..n : q.a[i] # q.b[i]}
      first == CHOOSE i \in differ : \A j \in differ : i <= j
      less == LessThanVersion(q.a, q.b, q.ga, q.gb)
  IN IF differ = {} THEN n = 4 => ~less ELSE less = (q.a[first] < q.b[first])
(* Of the elements, as floats, at most half are above the median and at    *)
(* most half below it, although the mean of the middle ones is rounded.    *)
(* An element that no float is equal to, such as 2^24 + 1, may differ from *)
(* the median of a list of which it is the only one.                       *)
MedianIsRight(l) ==
  LET m == Median(l)
      above == {i \in DOMAIN l : 2 * ToFloat(l[i]) > m}
      below == {i \in DOMAIN l : 2 * ToFloat(l[i]) < m}
  IN 2 * Cardinality(above) <= Len(l) /\ 2 * Cardinality(below) <= Len(l)

(* What the library makes of plain values: UUIDs and their text agree and  *)
(* generated ones are marked, two different UUIDs are ordered one way,     *)
(* versions are compared by their first difference, the median is between  *)
(* the halves of its list.                                                 *)
IdentifiersAreTrue ==
  /\ posed.kind = "uuid" => TextIsRight(posed.q) /\ MarksAreRight(posed.q)
  /\ posed.kind = "pair" =>
       Less(posed.q[1], posed.q[2]) # Less(posed.q[2], posed.q[1])
  /\ posed.kind = "version" => VersionIsRight(posed.q)
  /\ posed.kind = "list" => MedianIsRight(posed.q)
=============================================================================
