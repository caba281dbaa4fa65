--------------------------- MODULE EncryptProofs ---------------------------
(***************************************************************************)
(* DecryptsExactly for every set of plaintexts, passwords and settings.    *)
(* It is inductive once an object is known to be no longer than it was     *)
(* written, to be written in full, and to have a key.                      *)
(***************************************************************************)
EXTENDS Encrypt, TLAPS

(* What EncryptData left, cut or not. *)
Sealed ==
    object # None =>
        /\ Derivable(object.kdf, object.params)
        /\ whole >= HeaderSize(object.kdf) + nonceSize
        /\ object.len <= whole

IInv == TypeOK /\ Sealed /\ DecryptsExactly

(* The numbers the environment yields are positive, and fit. *)
LEMMA GetenvFits ==
    ASSUME NEW v \in Settings, NEW max \in Nat, NEW def \in 1 .. max
    PROVE  Getenv(v, max, def) \in 1 .. max
  BY SettingsAssumption DEF Getenv

LEMMA ConfiguredType ==
    ASSUME NEW e \in Environments
    PROVE  Configured(e) \in Params /\ Fits(e.kdf, Configured(e))
<1>1. /\ MaxUint32 \in Nat /\ MaxUint8 \in Nat /\ MaxUint8 <= MaxUint32
      /\ 3 \in 1 .. MaxUint32 /\ 64 * 1024 \in 1 .. MaxUint32 /\ 1 \in 1 .. MaxUint32
      /\ 32768 \in 1 .. MaxUint32 /\ 8 \in 1 .. MaxUint32 /\ 1 \in 1 .. MaxUint8
  BY WidthAssumption
<1>2. e.first \in Settings /\ e.second \in Settings /\ e.third \in Settings
  BY DEF Environments
<1>3. ASSUME NEW v \in Settings, NEW max \in {MaxUint8, MaxUint32}, NEW def \in 1 .. max
      PROVE  Getenv(v, max, def) \in 1 .. max
  BY <1>1, GetenvFits
<1>4. /\ Getenv(e.first, MaxUint32, 3) \in 1 .. MaxUint32
      /\ Getenv(e.second, MaxUint32, 64 * 1024) \in 1 .. MaxUint32
      /\ Getenv(e.third, MaxUint8, 1) \in 1 .. MaxUint8
  BY <1>1, <1>2, <1>3
<1>5. /\ Getenv(e.first, MaxUint32, 32768) \in 1 .. MaxUint32
      /\ Getenv(e.second, MaxUint32, 8) \in 1 .. MaxUint32
      /\ Getenv(e.third, MaxUint32, 1) \in 1 .. MaxUint32
  BY <1>1, <1>2, <1>3
<1>6. CASE e.kdf = "argon2id"
  BY <1>1, <1>4, <1>6 DEF Configured, Params, Fits
<1>7. CASE e.kdf # "argon2id"
  BY <1>5, <1>7 DEF Configured, Params, Fits
<1> QED
  BY <1>6, <1>7

(* Where the nonce begins. *)
LEMMA HeaderType == ASSUME NEW kdf PROVE HeaderSize(kdf) \in Nat /\ ParamSize(kdf) \in Nat
  BY DEF HeaderSize, ParamSize, saltSize

THEOREM InitIInv == Init => IInv
  BY DEF Init, IInv, TypeOK, Sealed, DecryptsExactly, Outcomes

(* Every slice is checked for as far as it reaches; so nothing panics, and  *)
(* all slices are taken of an object that has its header and nonce, and a   *)
(* derivation that is allowed and possible.                                 *)
LEMMA ChecksCover ==
    ASSUME NEW o \in Objects
    PROVE  /\ ~Panics(o)
           /\ Passed(o, 5) <=> /\ o.len >= HeaderSize(o.kdf) + nonceSize
                               /\ ~Excessive(o.kdf, o.params)
                               /\ Derivable(o.kdf, o.params)
<1>1. o.kdf \in KDFs /\ o.len \in Nat
  BY DEF Objects
<1>2. /\ Checked(o.kdf)[1] = Ends(o.kdf)[1] /\ Checked(o.kdf)[2] = Ends(o.kdf)[2]
      /\ Checked(o.kdf)[3] = Ends(o.kdf)[3] /\ Checked(o.kdf)[4] = Ends(o.kdf)[4]
      /\ Checked(o.kdf)[5] = Ends(o.kdf)[5]
  BY <1>1 DEF Checked, Ends, HeaderSize, ParamSize, saltSize, nonceSize, KDFs
<1>3. /\ Ends(o.kdf)[5] = HeaderSize(o.kdf) + nonceSize
      /\ \A i \in 1 .. 5 : Ends(o.kdf)[i] \in Nat /\ Ends(o.kdf)[i] <= Ends(o.kdf)[5]
  BY <1>1 DEF Ends, HeaderSize, ParamSize, saltSize, nonceSize, KDFs
<1>4. \A i \in 1 .. 5 : Checked(o.kdf)[i] = Ends(o.kdf)[i]
  BY <1>2
<1>5. ~Panics(o)
  BY <1>1, <1>3, <1>4 DEF Panics, Passed
<1>6. (\A j \in 1 .. 5 : o.len >= Checked(o.kdf)[j]) <=> o.len >= HeaderSize(o.kdf) + nonceSize
  BY <1>1, <1>3, <1>4
<1> QED
  BY <1>5, <1>6 DEF Passed, Used

LEMMA DecryptStep ==
    ASSUME IInv, NEW pw \in Passwords, DecryptData(pw)
    PROVE  IInv'
<1> DEFINE o == object
<1>1. o \in Objects /\ o # None
  BY DEF IInv, TypeOK, DecryptData
<1>2. /\ Derivable(o.kdf, o.params)
      /\ whole >= HeaderSize(o.kdf) + nonceSize
      /\ o.len <= whole
  BY <1>1 DEF IInv, Sealed
<1>3. o.len \in Nat /\ whole \in Nat /\ HeaderSize(o.kdf) + nonceSize \in Nat
  BY <1>1, HeaderType DEF IInv, TypeOK, Objects, nonceSize
<1>4. result' = IF Passed(o, 5) /\ Opened(o, pw) THEN o.plain ELSE "error"
  BY <1>1, ChecksCover DEF DecryptData
<1>5. result' = IF o.len = whole /\ pw = o.password /\ ~Excessive(o.kdf, o.params)
                THEN o.plain ELSE "error"
  <2>1. Passed(o, 5) <=> o.len >= HeaderSize(o.kdf) + nonceSize /\ ~Excessive(o.kdf, o.params)
    BY <1>1, <1>2, ChecksCover
  <2> QED
    BY <1>2, <1>3, <1>4, <2>1 DEF Opened, Used
<1>6. UNCHANGED <<env, object, whole>> /\ asked' = pw
  BY DEF DecryptData
<1>7. TypeOK'
  <2>1. result' \in Outcomes
    BY <1>1, <1>5 DEF Outcomes, Objects
  <2> QED
    BY <2>1, <1>6 DEF IInv, TypeOK, Fits
<1>8. Sealed'
  BY <1>6 DEF IInv, Sealed
<1>9. DecryptsExactly'
  BY <1>5, <1>6 DEF DecryptsExactly
<1> QED
  BY <1>7, <1>8, <1>9 DEF IInv

LEMMA EncryptStep ==
    ASSUME IInv, NEW plain \in Plaintexts, NEW pw \in Passwords, EncryptData(plain, pw)
    PROVE  IInv'
<1>1. PICK size \in {0, 1} :
        /\ whole' = HeaderSize(env.kdf) + nonceSize + size + tagSize
        /\ object' = [kdf |-> env.kdf, params |-> Configured(env),
                      password |-> pw, plain |-> plain, len |-> whole']
  BY DEF EncryptData
<1>2. /\ env \in Environments /\ env.kdf \in KDFs
      /\ Configured(env) \in Params /\ Fits(env.kdf, Configured(env))
  BY ConfiguredType DEF IInv, TypeOK, Environments
<1>3. whole' \in Nat /\ whole' >= HeaderSize(env.kdf) + nonceSize
  BY <1>1, HeaderType DEF nonceSize, tagSize
<1>4. object' \in Objects /\ Fits(object'.kdf, object'.params)
  BY <1>1, <1>2, <1>3 DEF Objects
<1>5. TypeOK'
  BY <1>3, <1>4 DEF EncryptData, IInv, TypeOK, Outcomes, Fits
<1>6. Sealed'
  BY <1>1, <1>3 DEF Sealed, EncryptData
<1>7. DecryptsExactly'
  BY DEF EncryptData, DecryptsExactly
<1> QED
  BY <1>5, <1>6, <1>7 DEF IInv

LEMMA TruncateStep ==
    ASSUME IInv, Truncate
    PROVE  IInv'
<1>1. PICK n \in Lengths : n < object.len /\ object' = [object EXCEPT !.len = n]
  BY DEF Truncate
<1>2. object \in Objects /\ object # None /\ n \in Nat /\ object.len \in Nat
  BY LengthsAssumption DEF Truncate, IInv, TypeOK, Objects
<1>3. /\ object' \in Objects
      /\ object'.len = n
      /\ object'.kdf = object.kdf
      /\ object'.params = object.params
  BY <1>1, <1>2 DEF Objects
<1>4. UNCHANGED <<env, whole, asked>> /\ result' = "none"
  BY DEF Truncate
<1>5. TypeOK'
  BY <1>2, <1>3, <1>4 DEF IInv, TypeOK, Outcomes, Fits
<1>6. Sealed'
  <2>1. /\ Derivable(object.kdf, object.params)
        /\ whole >= HeaderSize(object.kdf) + nonceSize
        /\ object.len <= whole
    BY <1>2 DEF IInv, Sealed
  <2>2. whole \in Nat
    BY DEF IInv, TypeOK
  <2> QED
    BY <2>1, <2>2, <1>1, <1>2, <1>3, <1>4 DEF Sealed
<1>7. DecryptsExactly'
  BY <1>4 DEF DecryptsExactly
<1> QED
  BY <1>5, <1>6, <1>7 DEF IInv

LEMMA EncryptFailsStep ==
    ASSUME IInv, EncryptFails
    PROVE  IInv'
  BY DEF EncryptFails, IInv, TypeOK, Fits, Sealed, DecryptsExactly, Outcomes

LEMMA ReconfigureStep ==
    ASSUME IInv, Reconfigure
    PROVE  IInv'
<1>1. env' \in Environments
  BY DEF Reconfigure, IInv, TypeOK, Environments
<1> QED
  BY <1>1 DEF Reconfigure, IInv, TypeOK, Fits, Sealed, DecryptsExactly

(* The invariant holds of every behaviour. *)
THEOREM Inductive == Spec => []IInv
<1>1. IInv /\ [Next]_vars => IInv'
  <2> SUFFICES ASSUME IInv, [Next]_vars PROVE IInv'
    OBVIOUS
  <2>1. CASE \E pw \in Passwords :
               DecryptData(pw) \/ \E plain \in Plaintexts : EncryptData(plain, pw)
    BY <2>1, DecryptStep, EncryptStep
  <2>2. CASE EncryptFails
    BY <2>2, EncryptFailsStep
  <2>3. CASE Reconfigure
    BY <2>3, ReconfigureStep
  <2>4. CASE Truncate
    BY <2>4, TruncateStep
  <2>5. CASE UNCHANGED vars
    BY <2>5 DEF vars, IInv, TypeOK, Fits, Sealed, DecryptsExactly
  <2> QED
    BY <2>1, <2>2, <2>3, <2>4, <2>5 DEF Next
<1> QED
  BY InitIInv, <1>1, PTL DEF Spec

(***************************************************************************)
(* Type correctness: what EncryptData makes of the environment is positive *)
(* and has the widths of its header.                                       *)
(***************************************************************************)
THEOREM TypeCorrect == Spec => []TypeOK
<1>1. IInv => TypeOK
  BY DEF IInv
<1> QED
  BY Inductive, <1>1, PTL

(***************************************************************************)
(* EncryptData and DecryptData (encrypt.go): under any sequence of changes *)
(* of the environment, truncations and calls, an object opens exactly when *)
(* it is whole, the password is right and its derivation is affordable,    *)
(* and no object, however short, makes DecryptData slice out of range.     *)
(***************************************************************************)
THEOREM DecryptsExactlyHolds == Spec => []DecryptsExactly
<1>1. IInv => DecryptsExactly
  BY DEF IInv
<1> QED
  BY Inductive, <1>1, PTL

=============================================================================
