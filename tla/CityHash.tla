------------------------------ MODULE CityHash ------------------------------
(***************************************************************************)
(* The hash functions of src/src/cityhash/city.cc, which hash_functions.h  *)
(* gives the map as cityHash: CityHash64 or CityHash32, by the width of a  *)
(* pointer.  They pick bytes of the key at offsets from its beginning and  *)
(* from its end, in a way of their own for every range of lengths.         *)
(*                                                                         *)
(* What is modelled is which bytes those are.  A function here stands for  *)
(* the function of that name and returns the offsets it reads, counted     *)
(* from the first byte of the key; s is where its argument points, len     *)
(* what is left from there.  The mixing of what was read is left out.      *)
(***************************************************************************)
EXTENDS Integers

Fetch64(p) == p .. p + 7
Fetch32(p) == p .. p + 3

\* n / d rounded up: the turns of a loop that takes d off n while n > 0.
CeilDiv(n, d) == (n + d - 1) \div d
-----------------------------------------------------------------------------
(***************************************************************************)
(* CityHash32.                                                             *)
(***************************************************************************)
Hash32Len0to4(s, len) == s .. s + len - 1

\* (len >> 1) & 4 is 4 from length 8 on, up to length 12.
Hash32Len5to12(s, len) ==
    Fetch32(s) \cup Fetch32(s + len - 4)
      \cup Fetch32(s + (IF (len \div 2) % 8 >= 4 THEN 4 ELSE 0))

Hash32Len13to24(s, len) ==
    LET half == s + len \div 2
    IN  Fetch32(half - 4) \cup Fetch32(s + 4) \cup Fetch32(s + len - 8)
          \cup Fetch32(half) \cup Fetch32(s) \cup Fetch32(s + len - 4)

Hash32Chunk(s) ==
    Fetch32(s) \cup Fetch32(s + 4) \cup Fetch32(s + 8) \cup Fetch32(s + 12)
      \cup Fetch32(s + 16)

\* n turns of its loop; so for the chunks of the other functions below.
Hash32Chunks(s, n) == UNION {Hash32Chunk(s + 20 * i) : i \in 0 .. n - 1}

CityHash32(s, len) ==
    IF len <= 4 THEN Hash32Len0to4(s, len)
    ELSE IF len <= 12 THEN Hash32Len5to12(s, len)
    ELSE IF len <= 24 THEN Hash32Len13to24(s, len)
    ELSE Hash32Chunk(s + len - 20)
           \cup Hash32Chunks(s, (len - 1) \div 20)
-----------------------------------------------------------------------------
(***************************************************************************)
(* CityHash64, with and without seeds.                                     *)
(***************************************************************************)
HashLen0to16(s, len) ==
    IF len >= 8 THEN Fetch64(s) \cup Fetch64(s + len - 8)
    ELSE IF len >= 4 THEN Fetch32(s) \cup Fetch32(s + len - 4)
    ELSE IF len > 0 THEN {s, s + len \div 2, s + len - 1}
    ELSE {}

\* Mutant: 16 bytes from the beginning in place of 16 from the end.
HashLen17to32_FromStart(s, len) ==
    Fetch64(s) \cup Fetch64(s + 8) \cup Fetch64(s + len - 8) \cup Fetch64(s + 16)

HashLen17to32(s, len) ==
    Fetch64(s) \cup Fetch64(s + 8) \cup Fetch64(s + len - 8) \cup Fetch64(s + len - 16)

\* The 32 bytes at s.
WeakHashLen32WithSeeds(s) ==
    Fetch64(s) \cup Fetch64(s + 8) \cup Fetch64(s + 16) \cup Fetch64(s + 24)

HashLen33to64(s, len) ==
    WeakHashLen32WithSeeds(s) \cup WeakHashLen32WithSeeds(s + len - 32)

\* What CityHash64 reads of the end of a long key, before its loop.  Mutant:
\* one of the two WeakHashLen32WithSeeds is forgotten.
Tail64_Half(s, len) ==
    WeakHashLen32WithSeeds(s + len - 32)
      \cup Fetch64(s + len - 40) \cup Fetch64(s + len - 16) \cup Fetch64(s + len - 56)
      \cup Fetch64(s + len - 48) \cup Fetch64(s + len - 24)

Tail64(s, len) ==
    WeakHashLen32WithSeeds(s + len - 64) \cup WeakHashLen32WithSeeds(s + len - 32)
      \cup Fetch64(s + len - 40) \cup Fetch64(s + len - 16) \cup Fetch64(s + len - 56)
      \cup Fetch64(s + len - 48) \cup Fetch64(s + len - 24)

\* One turn of its loop; CityHash128WithSeed has two such in a turn.
Chunk64(s) ==
    WeakHashLen32WithSeeds(s) \cup WeakHashLen32WithSeeds(s + 32)
      \cup Fetch64(s + 8) \cup Fetch64(s + 48) \cup Fetch64(s + 40) \cup Fetch64(s + 16)

Chunk64s(s, n) == UNION {Chunk64(s + 64 * i) : i \in 0 .. n - 1}

\* The loop runs over (len - 1) & ~63 bytes.
CityHash64(s, len) ==
    IF len <= 16 THEN HashLen0to16(s, len)
    ELSE IF len <= 32 THEN HashLen17to32(s, len)
    ELSE IF len <= 64 THEN HashLen33to64(s, len)
    ELSE Tail64(s, len) \cup Fetch64(s)
           \cup Chunk64s(s, (len - 1) \div 64)

\* CityHash64WithSeed calls this one; the seeds are no part of the key.
CityHash64WithSeeds(s, len) == CityHash64(s, len)
-----------------------------------------------------------------------------
(***************************************************************************)
(* CityHash128.                                                            *)
(***************************************************************************)
Chunk16(s) == Fetch64(s) \cup Fetch64(s + 8)

Chunk16s(s, n) == UNION {Chunk16(s + 16 * i) : i \in 0 .. n - 1}

\* l = len - 16 is signed, and the loop takes 16 off it while it is positive.
CityMurmur(s, len) ==
    IF len <= 16
    THEN HashLen0to16(s, len) \cup (IF len >= 8 THEN Fetch64(s) ELSE {})
    ELSE Chunk16(s + len - 16) \cup Chunk16s(s, CeilDiv(len - 16, 16))

Chunk128(s) == Chunk64(s) \cup Chunk64(s + 64)

Chunk128s(s, n) == UNION {Chunk128(s + 128 * i) : i \in 0 .. n - 1}

\* After the loop over whole 128 bytes, the rest in pieces of 32 from the end:
\* the last piece may begin before the rest, but not before the key.
CityHash128WithSeed(s, len) ==
    IF len < 128 THEN CityMurmur(s, len)
    ELSE Chunk16(s) \cup Fetch64(s + 88)
           \cup Chunk128s(s, len \div 128)
           \cup UNION {WeakHashLen32WithSeeds(s + len - 32 * i) :
                         i \in 1 .. CeilDiv(len % 128, 32)}

CityHash128(s, len) ==
    IF len >= 16 THEN Chunk16(s) \cup CityHash128WithSeed(s + 16, len - 16)
                 ELSE CityHash128WithSeed(s, len)
-----------------------------------------------------------------------------
(***************************************************************************)
(* The functions for processors with a CRC instruction.                    *)
(***************************************************************************)
Chunk40(s) ==
    Fetch64(s) \cup Fetch64(s + 8) \cup Fetch64(s + 16) \cup Fetch64(s + 24)
      \cup Fetch64(s + 32)

Chunk40s(s, n) == UNION {Chunk40(s + 40 * i) : i \in 0 .. n - 1}

Chunk240(s) == Chunk40s(s, 6)

Chunk240s(s, n) == UNION {Chunk240(s + 240 * i) : i \in 0 .. n - 1}

\* Whole 240 bytes, then whole 40 bytes, then the last 40 of the key.
CityHashCrc256Long(s, len) ==
    LET rest  == len % 240
        start == s + len - rest
    IN  Fetch64(s + 56) \cup Fetch64(s + 96) \cup Fetch64(s + 120) \cup Fetch64(s + 184)
          \cup Chunk240s(s, len \div 240)
          \cup Chunk40s(start, rest \div 40)
          \cup (IF rest % 40 > 0 THEN Chunk40(s + len - 40) ELSE {})

\* memcpy of the whole key into a buffer of 240 bytes, and from there.
CityHashCrc256Short(s, len) == s .. s + len - 1

CityHashCrc256(s, len) ==
    IF len >= 240 THEN CityHashCrc256Long(s, len) ELSE CityHashCrc256Short(s, len)

CityHashCrc128WithSeed(s, len) ==
    IF len <= 900 THEN CityHash128WithSeed(s, len) ELSE CityHashCrc256(s, len)

CityHashCrc128(s, len) ==
    IF len <= 900 THEN CityHash128(s, len) ELSE CityHashCrc256(s, len)
-----------------------------------------------------------------------------
\* The bytes of a key of len bytes.
Key(len) == 0 .. len - 1

Readings(len) ==
    {CityHash32(0, len), CityHash64(0, len), CityHash64WithSeeds(0, len),
     CityHash128WithSeed(0, len), CityHash128(0, len), CityHashCrc256(0, len),
     CityHashCrc128WithSeed(0, len), CityHashCrc128(0, len)}

\* All reads are inside the key, and all bytes of the key are read.
ReadsStayInside(len) == \A r \in Readings(len) : r \subseteq Key(len)
EveryByteIsRead(len) == \A r \in Readings(len) : Key(len) \subseteq r
=============================================================================
