------------------------------- MODULE MCLogin -------------------------------
(* Two devices for Login: a security key that counts its signatures (ES256) *)
(* and one with an EdDSA key.  The clock starts a second before a year.     *)
EXTENDS Login, TLC

CoordinateOf(p) == [length |-> 32, first |-> 0, of |-> p]
MCCose(d) ==
    IF d = "key" THEN [form |-> "cbor", length |-> 77, kty |-> "EC2", crv |-> 1,
                       x |-> CoordinateOf(d), y |-> CoordinateOf(d)]
    ELSE [form |-> "cbor", length |-> 42, kty |-> "OKP", crv |-> 6,
          x |-> CoordinateOf(d), y |-> None]
MCFirstCount(d) == IF d = "key" THEN 1 ELSE 0
MCEventIds == <<"uuid7-a", "uuid7-b">>
MCStart == [days |-> 20818, second_of_day |-> 86399]

(* Challenges are interchangeable: drawn at random, told apart by equality. *)
Symmetry == Permutations(Challenges)
=============================================================================
