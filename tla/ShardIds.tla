------------------------------- MODULE ShardIds -------------------------------
(***************************************************************************)
(* How identifiers are made: the shard identifier of a host out of the     *)
(* bytes of its address, the identifier of a file out of the first digits  *)
(* of its hash, and the identifiers the fingers of a node look for.  All of*)
(* it is int and long arithmetic at the edge of its range, so the width of *)
(* both is a parameter: an int has NUM_FINGERS bits, a long twice as many, *)
(* and an int is made of four bytes.                                       *)
(***************************************************************************)
EXTENDS ChordUtil

CONSTANTS NUM_FINGERS,  \* bits of an int, 32 in the code
          KNUTH         \* the multiplier of intHash, 2654435761 in the code

\* 2654435761 is odd and fits in an unsigned int.
ASSUME IdsAssumption == /\ NUM_FINGERS \in Nat \ {0} /\ NUM_FINGERS % 4 = 0
                        /\ RingSize = 2 ^ NUM_FINGERS
                        /\ KNUTH \in 1 .. RingSize - 1 /\ KNUTH % 2 = 1

ByteSize == 2 ^ (NUM_FINGERS \div 4)
Byte == -(ByteSize \div 2) .. ByteSize \div 2 - 1   \* a Java byte is signed

\* Facts of arithmetic that the provers do not know.
ASSUME PowersAssumption ==
  /\ \A i \in 0 .. NUM_FINGERS :
       2 ^ i \in Nat \ {0} /\ (i < NUM_FINGERS => 2 ^ i < 2 ^ NUM_FINGERS)
  /\ ByteSize ^ 0 = 1 /\ ByteSize ^ 4 = RingSize
  /\ \A i \in 0 .. 3 : ByteSize ^ (i + 1) = ByteSize * ByteSize ^ i

\* The value v has after a cast to a signed type of the given size.
castTo(size, v) == ((v + size \div 2) % size) - size \div 2
castInt(v) == castTo(RingSize, v)
castLong(v) == castTo(RingSize * RingSize, v)
castByte(v) == castTo(ByteSize, v)

\* Java's % takes the sign of the dividend.
javaRem(a, b) == IF a >= 0 THEN a % b ELSE -((-a) % b)

\* The remainder of the largest int instead of the size of the circle.
intHashMistaken(input) == castInt(javaRem((input - INT_MIN) * KNUTH, INT_MAX) + INT_MIN)

\* Util.intHash: the product may overflow the long it is computed in.
intHash(input) ==
  LET unsignedValue == input - INT_MIN
      unsignedHashValue == javaRem(castLong(unsignedValue * KNUTH), RingSize)
  IN  castInt(unsignedHashValue + INT_MIN)

\* Without the mask a negative byte overwrites the bytes before it.
ipByteArrayToIntMistaken(bytes) ==
  LET val[i \in 0 .. 4] ==
        IF i = 0 THEN 0
        ELSE IF bytes[i] < 0 THEN bytes[i]
        ELSE castInt(val[i - 1] * ByteSize + bytes[i])
  IN  val[4]

\* Util.ipByteArrayToInt: shift in the next byte, masked to its unsigned value.
ipByteArrayToInt(bytes) ==
  LET val[i \in 0 .. 4] ==
        IF i = 0 THEN 0
        ELSE castInt(val[i - 1] * ByteSize + (bytes[i] % ByteSize))
  IN  val[4]

\* Util.intToByteArray: the bytes of the unsigned value, highest first.
intToByteArray(int) ==
  [i \in 1 .. 4 |-> castByte(((int % RingSize) \div ByteSize ^ (4 - i)) % ByteSize)]

\* Shard.inetAddressToShardId.
inetAddressToShardId(address) == intHash(ipByteArrayToInt(address))

\* Parsed with a bound instead of a cast.
hexStringToIdentifierMistaken(digits) == IF digits > INT_MAX THEN INT_MAX ELSE digits

\* Util.hexStringToIdentifier: the first eight hex digits of a hash, an unsigned
\* number, parsed as a long and cast to int.
hexStringToIdentifier(digits) == castInt(castLong(digits))

\* The conversion back to a signed identifier forgotten.
computeIdToFindMistaken(shardid, fingerIndex) ==
  castInt(shardid - INT_MIN + 2 ^ (fingerIndex - 1))

\* ChordNode.computeIdToFind: where finger fingerIndex of the node should point.
computeIdToFind(shardid, fingerIndex) ==
  LET unsignedShardId == shardid - INT_MIN
      idToFind == javaRem(unsignedShardId + 2 ^ (fingerIndex - 1), 2 ^ NUM_FINGERS)
  IN  castInt(idToFind + INT_MIN)
=============================================================================
