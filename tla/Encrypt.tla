------------------------------ MODULE Encrypt ------------------------------
(***************************************************************************)
(* pkg/encrypt: one object, sealed under the key derivation that the       *)
(* environment asks for at that time, and opened later, when the           *)
(* environment and the length of the object may be others.  A key is what  *)
(* it is derived from; the cipher opens what was sealed with the same key, *)
(* in full, and nothing else.                                              *)
(*                                                                         *)
(* A definition with an underscore in its name is a wrong version of the   *)
(* one before the underscore.                                              *)
(***************************************************************************)
EXTENDS Naturals

CONSTANTS
    Plaintexts, Passwords,
    Settings,      \* what an environment variable may hold; Unset if no number
    Unset,
    Lengths,       \* where an object may be cut off
    MaxUint32, MaxUint8,
    None

saltSize == 16
nonceSize == 12
tagSize == 16
maxArgon2Time == 10
maxArgon2Memory == 1024 * 1024
maxArgon2Threads == 32
maxScryptN == 1024 * 1024
maxScryptR == 32
maxScryptP == 32

ASSUME SettingsAssumption == Settings \subseteq Nat \cup {Unset} /\ Unset \notin Nat
ASSUME WidthAssumption ==
    /\ MaxUint32 \in Nat /\ MaxUint32 >= 64 * 1024
    /\ MaxUint8 \in 1 .. MaxUint32
ASSUME LengthsAssumption == Lengths \subseteq Nat
ASSUME NoneAssumption == None \notin [kdf : {"argon2id", "scrypt"},
    params : [first : Nat, second : Nat, third : Nat],
    password : Passwords, plain : Plaintexts, len : Nat]

KDFs == {"argon2id", "scrypt"}

(* The three cost parameters of a derivation, in the widths of the header:  *)
(* time, memory, threads (a byte), or N, r, p.                              *)
Params == [first : 1 .. MaxUint32, second : 1 .. MaxUint32, third : 1 .. MaxUint32]
Fits(kdf, k) == k \in Params /\ (kdf = "argon2id" => k.third <= MaxUint8)

Environments == [kdf : KDFs, first : Settings, second : Settings, third : Settings]
Objects == [kdf : KDFs, params : Params, password : Passwords, plain : Plaintexts, len : Nat]
Outcomes == Plaintexts \cup {"none", "error", "panic"}

VARIABLES
    env,     \* the environment variables
    object,  \* the encrypted object, or None
    whole,   \* its length when it was written
    result,  \* what the last DecryptData returned
    asked    \* the password it was given

vars == <<env, object, whole, result, asked>>

TypeOK ==
    /\ env \in Environments
    /\ object \in Objects \cup {None}
    /\ object # None => Fits(object.kdf, object.params)
    /\ whole \in Nat
    /\ result \in Outcomes
    /\ asked \in Passwords

Init ==
    /\ env \in Environments
    /\ object = None
    /\ whole = 0
    /\ result = "none"
    /\ asked \in Passwords

-----------------------------------------------------------------------------
(* A number that is too wide is cut to the width. *)
Getenv_Wrapping(v, max, def) == IF v = Unset \/ v = 0 THEN def ELSE v % (max + 1)

(* getenvUint, getenvUint8: what is no number of that width, or zero, is    *)
(* ignored.                                                                 *)
Getenv(v, max, def) == IF v = Unset \/ v = 0 \/ v > max THEN def ELSE v

Configured(e) ==
    IF e.kdf = "argon2id"
    THEN [first |-> Getenv(e.first, MaxUint32, 3),
          second |-> Getenv(e.second, MaxUint32, 64 * 1024),
          third |-> Getenv(e.third, MaxUint8, 1)]
    ELSE [first |-> Getenv(e.first, MaxUint32, 32768),
          second |-> Getenv(e.second, MaxUint32, 8),
          third |-> Getenv(e.third, MaxUint32, 1)]

(* scrypt.Key wants a power of two above one, and r * p below 2^30. *)
Derivable(kdf, k) ==
    kdf = "scrypt" =>
        /\ \E n \in 1 .. 30 : k.first = 2^n
        /\ k.second <= (2^30 - 1) \div k.third

(* magic, kdf id, salt length, salt, parameters *)
ParamSize(kdf) == IF kdf = "argon2id" THEN 4 + 4 + 1 ELSE 4 + 4 + 4
HeaderSize(kdf) == 4 + 1 + 1 + saltSize + ParamSize(kdf)

EncryptData(plain, pw) ==
    /\ Derivable(env.kdf, Configured(env))
    /\ \E size \in {0, 1} :  \* of the plaintext
          /\ whole' = HeaderSize(env.kdf) + nonceSize + size + tagSize
          /\ object' = [kdf |-> env.kdf, params |-> Configured(env),
                        password |-> pw, plain |-> plain, len |-> whole']
    /\ result' = "none"
    /\ UNCHANGED <<env, asked>>

EncryptFails ==
    /\ ~Derivable(env.kdf, Configured(env))
    /\ result' = "error"
    /\ object' = None
    /\ UNCHANGED <<env, whole, asked>>

-----------------------------------------------------------------------------
Excessive(kdf, k) ==
    IF kdf = "argon2id"
    THEN \/ k.first = 0 \/ k.first > maxArgon2Time
         \/ k.second = 0 \/ k.second > maxArgon2Memory
         \/ k.third = 0 \/ k.third > maxArgon2Threads
    ELSE \/ k.first = 0 \/ k.first > maxScryptN
         \/ k.second = 0 \/ k.second > maxScryptR
         \/ k.third = 0 \/ k.third > maxScryptP

(* The parameters are those the environment asks for now. *)
Used_Environment(o) == Configured(env)

(* The parameters are read from the header. *)
Used(o) == o.params

(* What DecryptData slices off: magic, kdf id and salt length, salt,        *)
(* parameters, nonce; where each of them ends, ...                          *)
Ends(kdf) == [i \in 1 .. 5 |->
    CASE i = 1 -> 4
      [] i = 2 -> 4 + 2
      [] i = 3 -> 4 + 2 + saltSize
      [] i = 4 -> HeaderSize(kdf)
      [] i = 5 -> HeaderSize(kdf) + nonceSize]

(* The nonce is sliced off without a check of its length. *)
Checked_ButNonce(kdf) == [Ends(kdf) EXCEPT ![5] = 0]

(* ... and the length that is checked before. *)
Checked(kdf) == [i \in 1 .. 5 |->
    CASE i = 1 -> 4
      [] i = 2 -> 4 + 1 + 1
      [] i = 3 -> 4 + 1 + 1 + saltSize
      [] i = 4 -> 4 + 1 + 1 + saltSize + (IF kdf = "argon2id" THEN 9 ELSE 12)
      [] i = 5 -> HeaderSize(kdf) + nonceSize]

(* Nothing has ended the call before the i-th slice; between the last two,  *)
(* the parameters are looked at and the key is derived.                     *)
Passed(o, i) ==
    /\ \A j \in 1 .. i : o.len >= Checked(o.kdf)[j]
    /\ i = 5 => ~Excessive(o.kdf, Used(o)) /\ Derivable(o.kdf, Used(o))

(* A slice goes beyond the end. *)
Panics(o) == \E i \in 1 .. 5 : Passed(o, i) /\ o.len < Ends(o.kdf)[i]

(* gcm.Open: the same key, and every byte. *)
Opened(o, pw) == pw = o.password /\ Used(o) = o.params /\ o.len = whole

DecryptData(pw) ==
    /\ object # None
    /\ asked' = pw
    /\ result' =
          IF Panics(object) THEN "panic"
          ELSE IF Passed(object, 5) /\ Opened(object, pw) THEN object.plain
          ELSE "error"
    /\ UNCHANGED <<env, object, whole>>

-----------------------------------------------------------------------------
(* Another run of the program has another environment: one variable at a   *)
(* time reaches them all.                                                  *)
Reconfigure ==
    /\ \/ \E kdf \in KDFs : env' = [env EXCEPT !.kdf = kdf]
       \/ \E v \in Settings : \/ env' = [env EXCEPT !.first = v]
                              \/ env' = [env EXCEPT !.second = v]
                              \/ env' = [env EXCEPT !.third = v]
    /\ UNCHANGED <<object, whole, result, asked>>

(* An upload or a download that was interrupted leaves a beginning. *)
Truncate ==
    /\ object # None
    /\ \E n \in Lengths :
          n < object.len /\ object' = [object EXCEPT !.len = n]
    /\ result' = "none"
    /\ UNCHANGED <<env, whole, asked>>

Next ==
    \/ \E pw \in Passwords :
          DecryptData(pw) \/ \E plain \in Plaintexts : EncryptData(plain, pw)
    \/ EncryptFails
    \/ Reconfigure
    \/ Truncate

Spec == Init /\ [][Next]_vars

-----------------------------------------------------------------------------
(***************************************************************************)
(* An object opens, under any environment, exactly when it is whole, the   *)
(* password is right, and its derivation is not too costly; every other    *)
(* object is refused with an error, however short it is.                   *)
(***************************************************************************)
DecryptsExactly ==
    object # None /\ result # "none" =>
        result = IF /\ object.len = whole
                    /\ asked = object.password
                    /\ ~Excessive(object.kdf, object.params)
                 THEN object.plain ELSE "error"

=============================================================================
