----------------------------- MODULE Placement ------------------------------
(***************************************************************************)
(* How an item rank becomes a key, and a key the address of the worker     *)
(* thread that stores it: the code of header.h that client, server,        *)
(* preload and both controllers each run on their own.                     *)
(***************************************************************************)
EXTENDS Integers, Sequences, Bitwise, SequencesExt

CONSTANTS
    W,                   \* bits of a uint64_t; TLC's integers allow 15
    KEY_SIZE,
    NUM_SRV, NUM_SRV_WORKERS,
    NoAddress            \* what inet_pton rejects

CHARSET_SIZE == 62

PlacementAssumption ==
    /\ W \in Nat \ {0} /\ KEY_SIZE \in Nat \ {0}
    /\ CHARSET_SIZE ^ (KEY_SIZE - 1) >= 2 ^ W    \* 62^15 > 2^64
    /\ NUM_SRV \in 1 .. 8 /\ NUM_SRV_WORKERS \in 1 .. 16

(* A to Z, a to z, 0 to 9, as characters' codes.                           *)
CHARSET == [i \in 0 .. 61 |-> IF i < 26 THEN 65 + i ELSE IF i < 52 THEN 71 + i ELSE i - 4]

UInt(n) == n % 2 ^ W

complex_transform(n) ==
    LET t[i \in 0 .. 5] == IF i = 0 THEN n ELSE UInt(8 * t[i - 1] - t[i - 1] + 7) IN t[5]

(* KEY_SIZE - 1 digits, the most significant first.                        *)
tostring_key(n) ==
    [i \in 1 .. KEY_SIZE - 1 |->
        CHARSET[(complex_transform(n) \div CHARSET_SIZE ^ (KEY_SIZE - 1 - i)) % CHARSET_SIZE]]

fnv1_16_str(key) == FoldLeft(LAMBDA h, c : ((h * 257) % 2 ^ 16) ^^ c, 33052, key)

(* The constants modulo 2^W, the shifts scaled to W.                       *)
Mixed(v, shift, by) == UInt(((v \div 2 ^ shift) ^^ v) * UInt(by))
hash64_str(key) ==
    LET v == FoldLeft(LAMBDA h, c : UInt(h * 31 + c), 0, key)
        m == Mixed(Mixed(v, W \div 2, 27731), W \div 2, 27731)    \* 0x..6c53
    IN  (m \div 2 ^ (W \div 2)) ^^ m

(* The last two literals of the array are one: a comma is missing.         *)
dst_ip == <<"10.0.1.108", "10.0.1.107", "10.0.1.106", "10.0.1.105", "10.0.1.104",
            "10.0.1.103", NoAddress, NoAddress>>

(* The index in dst_ip, from 0 in the code, and the thread at that host,   *)
(* as the client computes them for a request ...                           *)
DstAddr(key) == (fnv1_16_str(key) % NUM_SRV) + 1
par_id(key) == UInt(hash64_str(key) + UInt(305419896)) % NUM_SRV_WORKERS

(* ... and as the server's load loop does, with an expression of its own.  *)
(* Faulty variant: it takes the hash without the offset.                   *)
LoadDstAddr(key) == (fnv1_16_str(key) % NUM_SRV) + 1
load_par_idFaulty(key) == hash64_str(key) % NUM_SRV_WORKERS
load_par_id(key) == UInt(hash64_str(key) + UInt(305419896)) % NUM_SRV_WORKERS
=============================================================================
