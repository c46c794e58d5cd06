--------------------------- MODULE MCHashFunctions ---------------------------
(***************************************************************************)
(* Every small table with every integer key of a range, and with every     *)
(* string that typing one char after the other produces; and every length  *)
(* of a key for the functions of CityHash.                                 *)
(***************************************************************************)
EXTENDS HashFunctions, CityHash, FiniteSets

CONSTANTS MaxModulo,  \* bound: the capacities are 0 .. MaxModulo
          MaxKey,     \* bound: the integer keys are -MaxKey .. MaxKey
          MaxLen,     \* bound: the length of the strings
          MaxCityLen  \* bound: the length of the keys of CityHash

\* A capacity is a size_t, which also holds the 7 that stands for no capacity;
\* the strings are no longer than MAX_S_LEN, which is as far as the code reads.
ASSUME MCHashFunctionsAssumption ==
    /\ MaxModulo \in Nat /\ MaxModulo < SizeMod /\ 7 <= SizeMod
    /\ MaxKey \in Nat
    /\ MaxLen \in 0 .. 4096

VARIABLES iModulo, iKey, sKey, nKeyLen

mcvars == <<iModulo, iKey, sKey, nKeyLen>>

\* char is signed on the usual platforms: a byte above 127 is negative.
Chars == {-3, 0, 97}

Init ==
    /\ iModulo \in 0 .. MaxModulo
    /\ iKey = -MaxKey
    /\ sKey = <<>>
    /\ nKeyLen = 0

NextKey ==
    /\ iKey < MaxKey /\ nKeyLen = 0
    /\ iKey' = iKey + 1
    /\ UNCHANGED <<iModulo, sKey, nKeyLen>>

NextChar ==
    /\ iKey = MaxKey
    /\ Len(sKey) < MaxLen
    /\ \E c \in Chars : sKey' = Append(sKey, c)
    /\ UNCHANGED <<iModulo, iKey, nKeyLen>>

NextLength ==
    /\ iModulo = 0 /\ iKey = -MaxKey
    /\ nKeyLen < MaxCityLen
    /\ nKeyLen' = nKeyLen + 1
    /\ UNCHANGED <<iModulo, iKey, sKey>>

Spec == Init /\ [][NextKey \/ NextChar \/ NextLength]_mcvars
-----------------------------------------------------------------------------
\* size_t does not wrap during a probe that starts at h.
NoWrap(h) == h + Divider(iModulo) <= SizeMod

\* The probe of a string key visits every cell of the table, so that insertImpl
\* finds a free cell and firstIndex's pair finds a new place in extendImpl.
StringProbesAreComplete ==
    LET h == StdStringHash(CString(sKey))
    IN  NoWrap(h) => StringProbe(iModulo, h) = AllCells(iModulo)

\* So does the probe of an integer key whose first hash is positive; a probe
\* that starts at 0 misses cell 0 and nothing else, because 0 is made 1.
IntProbesAreComplete ==
    /\ FirstHash(iKey) > 0 /\ NoWrap(FirstHash(iKey)) =>
          IntProbe(iModulo, iKey) = AllCells(iModulo)
    /\ FirstHash(iKey) = 0 /\ Divider(iModulo) > 1 =>
          IntProbe(iModulo, iKey) = AllCells(iModulo) \ {0}

\* Strings that agree up to a certain char collide in every table, however
\* long: the weight i! of char i is a multiple of 2^w from there on (from char
\* 66 for a size_t of 64 bits).
Factorial[n \in Nat] == IF n = 0 THEN 1 ELSE n * Factorial[n - 1]

LongTailsCollide ==
    \A n \in 0 .. Len(sKey) :
        Factorial[n + 1] % SizeMod = 0 =>
            StdStringHash(CString(sKey)) = StdStringHash(CString(SubSeq(sKey, 1, n)))

\* No function of CityHash reads outside the key: the offsets counted from the
\* end, and those of the last turn of a loop, stay inside at every length, also
\* where one range of lengths ends and the next begins.
CityStaysInside == ReadsStayInside(nKeyLen)

\* And none skips a byte of it, so that keys which differ anywhere are told
\* apart by what is read.
CityReadsEveryByte == EveryByteIsRead(nKeyLen)
=============================================================================
