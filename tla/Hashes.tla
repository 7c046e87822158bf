------------------------------- MODULE Hashes -------------------------------
(***************************************************************************)
(* Checksums of downloads (cmnroutines.cpp, default_var.hpp): how a type is*)
(* written into the database and read from it, what it is called, and how a*)
(* file is checked against the value that the user gave.                   *)
(*                                                                         *)
(* A checksum is a pair of an algorithm and what it was computed of; NoSum *)
(* is the empty value.                                                     *)
(***************************************************************************)
EXTENDS Integers, Sequences, FiniteSets

\* The enumerations, whose values count from 0.
HashType  == <<"SHA1", "SHA256", "SHA512", "SHA3_256", "SHA3_512", "MD5",
               "CannotDetermine", "None">>
HashVerif == <<"Analyzing", "Verified", "Corrupt", "NotApplicable">>

Raw(enum, v) == (CHOOSE n \in DOMAIN enum : enum[n] = v) - 1

NoSum == <<>>
Checksum(algo, content) == <<algo, content>>

-----------------------------------------------------------------------------
(***************************************************************************)
(* Numbers and texts.                                                      *)
(***************************************************************************)

\* The numbers that readCurlItems goes by, from 1; 0 is None, the rest unknown.
Numbered == <<"MD5", "SHA1", "SHA256", "SHA512", "SHA3_256", "SHA3_512">>

convHashType_toInt(t) ==
    IF \E n \in DOMAIN Numbered : Numbered[n] = t
    THEN CHOOSE n \in DOMAIN Numbered : Numbered[n] = t
    ELSE IF t = "None" THEN 0 ELSE -1

convHashType_IntToEnum(n) ==
    IF n \in DOMAIN Numbered THEN Numbered[n]
    ELSE IF n = 0 THEN "None" ELSE "CannotDetermine"

convHashVerif_toInt(v) ==
    CASE v = "Analyzing" -> 1 [] v = "Verified" -> 2 [] v = "Corrupt" -> -1 [] OTHER -> 0

convHashVerif_IntToEnum(n) ==
    CASE n = 1 -> "Analyzing" [] n = 2 -> "Verified" [] n = -1 -> "Corrupt"
      [] OTHER -> "NotApplicable"

\* What the dialog offers, and the pane of details shows.
Texts == [MD5 |-> "MD5", SHA1 |-> "SHA-1", SHA256 |-> "SHA-256", SHA512 |-> "SHA-512",
          SHA3_256 |-> "SHA3-256", SHA3_512 |-> "SHA3-512", None |-> "None"]

convHashType_StringToEnum(text) ==
    IF \E t \in DOMAIN Texts : Texts[t] = text
    THEN CHOOSE t \in DOMAIN Texts : Texts[t] = text ELSE "CannotDetermine"

convHashType_toString(t) ==
    IF t = "SHA3_256" THEN "SHA3-512" ELSE IF t \in DOMAIN Texts THEN Texts[t] ELSE "Unknown"

\* Of a type without an algorithm it would be MD4.
convHashType_toAlgo(t) == IF t \in {Numbered[n] : n \in DOMAIN Numbered} THEN t ELSE "MD4"

-----------------------------------------------------------------------------
(***************************************************************************)
(* cryptoFileHash, of a file with this content; Missing, of none.          *)
(***************************************************************************)
Missing == "no file"

Answer(type, verif, sum) == [hash_type |-> type, hash_verif |-> verif, checksum |-> sum]

Compared(sum, given) == IF given = NoSum THEN "NotApplicable"
                        ELSE IF sum = given THEN "Verified" ELSE "Corrupt"

\* The search for a type reads the file to its end for MD5, and nothing for the
\* others; it never says which one fitted.
Tried(content) ==
    [n \in DOMAIN Numbered |-> Checksum(convHashType_toAlgo(Numbered[n]),
                                   IF n = 1 THEN content ELSE NoSum)]

Searched(content, given) ==
    LET fit == {n \in DOMAIN Numbered : Tried(content)[n] = given}
    IN IF given = NoSum \/ fit = {} THEN Answer("CannotDetermine", "NotApplicable", NoSum)
       ELSE Answer("CannotDetermine", "Verified", given)

cryptoFileHash(content, type, given) ==
    LET sum == Checksum(convHashType_toAlgo(type), content)
    IN IF content = Missing \/ type = "None" THEN Answer("None", "NotApplicable", NoSum)
       ELSE IF type = "CannotDetermine" THEN Searched(content, given)
       ELSE Answer(type, Compared(sum, given), sum)
=============================================================================
