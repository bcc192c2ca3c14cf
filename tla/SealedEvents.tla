---------------------------- MODULE SealedEvents ----------------------------
(***************************************************************************)
(* Sealed bytes and their digests (crates/zs-audit/src/chain.rs).          *)
(*                                                                         *)
(* Sealed bytes are opaque to the chain: a number from 1 stands for the    *)
(* bytes of one sealing.  A digest names the bytes it was computed from    *)
(* (SHA-256 is taken to be collision-free), and the chain root, 32 zero    *)
(* bytes, is the digest of no event.                                       *)
(***************************************************************************)
EXTENDS Integers

NoBytes == 0
SealedBytes == Nat \ {NoBytes}

Digest == [sha256 : Nat]
hash_sealed_event(bytes) == [sha256 |-> bytes]
CHAIN_ROOT == [sha256 |-> NoBytes]
=============================================================================
