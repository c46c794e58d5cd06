---------------------------- MODULE HashFunctions ----------------------------
(***************************************************************************)
(* The hash functions of src/src/hash_functions.cpp: the cell that step ik *)
(* of the probe of a key visits in a table of iModulo cells.               *)
(*                                                                         *)
(* Keys are integers, or strings written as sequences of char values.      *)
(* Signed arithmetic is assumed not to overflow (the code's behaviour is   *)
(* undefined for |key| beyond INT_MAX / 7); size_t arithmetic wraps.       *)
(***************************************************************************)
EXTENDS Integers, Sequences

CONSTANTS DEFAULT_A, DEFAULT_B, DEFAULT_P,  \* 7, 23, 3571
          SizeMod                           \* 2^w, w the width of size_t

ASSUME HashFunctionsAssumption ==
    /\ DEFAULT_A \in Int
    /\ DEFAULT_B \in Int
    /\ DEFAULT_P \in Nat \ {0}
    /\ SizeMod \in Nat \ {0}

\* if (!iModulo) iModulo = 7
Divider(iModulo) == IF iModulo = 0 THEN 7 ELSE iModulo

\* a % n of C++, which rounds towards zero, and conversion to size_t.
Remainder(a, n) == IF a >= 0 THEN a % n ELSE -((-a) % n)
ToSizeT(a)      == a % SizeMod

\* stdHashFunction for int and for long long; a negative key may have a
\* negative first hash.  Mutant: the step multiplies the hash.
FirstHash(iKey) == Remainder(DEFAULT_A * iKey + DEFAULT_B, DEFAULT_P)

IntHash_Multiplied(iModulo, iKey, ik) ==
    LET h == ToSizeT(FirstHash(iKey) * (ik + 1))
    IN  (IF h = 0 THEN 1 ELSE h) % Divider(iModulo)

IntHash(iModulo, iKey, ik) ==
    LET h == ToSizeT(FirstHash(iKey) + ik)
    IN  (IF h = 0 THEN 1 ELSE h) % Divider(iModulo)

\* The four functions for strings all end so: h is the hash of the string.
\* Mutant: quadratic steps.
StringStep_Quadratic(iModulo, h, ik) == ToSizeT(h + ik * ik) % Divider(iModulo)

StringStep(iModulo, h, ik) == ToSizeT(h + ik) % Divider(iModulo)

\* stdHashFunction for strings: a std::string goes in as its c_str(), so that
\* the first zero char ends it (or MAX_S_LEN = 4096 chars, which no string here
\* exceeds).  Char i, counted from 1, weighs i!.  Mutant: it weighs i.
CString(s) ==
    LET zeros == {i \in 1 .. Len(s) : s[i] = 0}
    IN  IF zeros = {} THEN s
        ELSE SubSeq(s, 1, (CHOOSE i \in zeros : \A j \in zeros : i <= j) - 1)

StdStringHash_WeightI(s) ==
    LET sum[i \in 0 .. Len(s)] ==
            IF i = 0 THEN 0 ELSE ToSizeT(sum[i - 1] + (s[i] + 1) * i)
    IN  sum[Len(s)]

StdStringHash(s) ==
    LET pow[i \in Nat] == IF i = 0 THEN 1 ELSE ToSizeT(pow[i - 1] * i)
        sum[i \in 0 .. Len(s)] ==
            IF i = 0 THEN 0 ELSE ToSizeT(sum[i - 1] + (s[i] + 1) * pow[i])
    IN  sum[Len(s)]

StringHash(iModulo, s, ik) == StringStep(iModulo, StdStringHash(CString(s)), ik)

(***************************************************************************)
(* The cells the loops of HashMap look at for one key, over a whole probe. *)
(***************************************************************************)
IntProbe(iModulo, iKey) ==
    {IntHash(iModulo, iKey, ik) : ik \in 0 .. Divider(iModulo) - 1}

StringProbe(iModulo, h) ==
    {StringStep(iModulo, h, ik) : ik \in 0 .. Divider(iModulo) - 1}

AllCells(iModulo) == 0 .. Divider(iModulo) - 1
=============================================================================
