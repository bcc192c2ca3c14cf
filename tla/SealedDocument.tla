--------------------------- MODULE SealedDocument ---------------------------
(***************************************************************************)
(* What the sealing suites of zs-crypto share (common.rs): validated       *)
(* fields, hexadecimal, canonical JSON, keys and signatures.               *)
(*                                                                         *)
(* A JSON object is a function from the names of its members to their      *)
(* values.  Serialised, it is that function and a layout: "canonical"      *)
(* (members sorted, no space), or any other that parses to the same        *)
(* members.  Texts are strings; a Rust Option that is None is None, a JSON *)
(* null is Null.  A signature names its key and the message it was made    *)
(* on: ECDSA is taken to be unforgeable, SHA-256 collision-free.           *)
(***************************************************************************)
EXTENDS Integers, Sequences, FiniteSetsExt

CONSTANTS None, Null,
          UuidV7           \* the texts of UUIDs of version 7

(* bounded_ascii_string!: not empty, within its bound, printable ASCII     *)
(* without quote nor backslash.                                            *)
Unacceptable == {"", "over long", "quoted"}
bounded_ascii_string(text) == text \notin Unacceptable

(* uuid_string!: an EventId is a UUIDv7, a RequestId any UUID.             *)
EventId(text) == text \in UuidV7
RequestId(text) == EventId(text) \/ text = "uuid4"

-----------------------------------------------------------------------------
(* Digits are written in lower case, and read in both.                     *)
hex_encode(bytes) == [bytes |-> bytes, digits |-> "lower"]
hex_decode(text) == IF text.digits \in {"lower", "upper"} THEN text.bytes
                    ELSE None

key_id_from_public_key(key) == [fingerprint |-> key]

(* Thirty-two bytes, or a shorter string of them.                          *)
Is32(bytes) == bytes # None /\ bytes.length = 32

-----------------------------------------------------------------------------
(* Conditional insertion: the members of a struct that are not None.       *)
Present(struct) ==
    [k \in {k \in DOMAIN struct : struct[k] # None} |-> struct[k]]

Map(option, F(_)) == IF option = None THEN None ELSE F(option)

(* Deserialisation into a struct with deny_unknown_fields: required        *)
(* members are there and not null; an optional one may be either, and then *)
(* is None.                                                                *)
Parses(object, required, optional) ==
    /\ required \subseteq DOMAIN object
    /\ DOMAIN object \subseteq required \cup optional
    /\ \A k \in required : object[k] # Null

Parse(object, required, optional) ==
    [k \in required \cup optional |->
        IF k \in DOMAIN object /\ object[k] # Null THEN object[k] ELSE None]

(* Size of a serialised object: a unit for the name of a member and its    *)
(* punctuation, and what its value takes.                                  *)
ObjectSize(sizes) == MapThenSumSet(LAMBDA k : 1 + sizes[k], DOMAIN sizes)

canonical_bytes(object) == [object |-> object, layout |-> "canonical"]

-----------------------------------------------------------------------------
Components == <<"ecdsa-p256">>

(* The message that is signed: the domain prefix of the suite, a zero      *)
(* byte, the canonical document without its signatures.                    *)
signed_message(domain_prefix, unsigned) ==
    [prefix |-> domain_prefix, document |-> canonical_bytes(unsigned)]

Signature(key, message) == [length |-> 64, signer |-> key, message |-> message]

Component(key_id, signature) ==
    [component |-> Components[1], key_id |-> key_id,
     value |-> hex_encode(signature)]

(* Number and order of the components are those of the suite.              *)
ArityIsRight(components, required) ==
    /\ Len(components) = Len(required)
    /\ \A i \in 1..Len(required) : components[i].component = required[i]

KeysOf(keys, component) == {k \in keys : k.key_id = component.key_id}

(* The signature under the first key of that identifier; identifiers are   *)
(* unique in a key ring.                                                   *)
ComponentIsValid(keys, component, message) ==
    \E k \in KeysOf(keys, component) :
        hex_decode(component.value) = Signature(k.raw, message)

(* Every component is resolved before the verdict on the signatures.       *)
CheckSignatures(keys, components, message) ==
    IF \E i \in DOMAIN components : KeysOf(keys, components[i]) = {}
    THEN "UnknownKeyId"
    ELSE IF \E i \in DOMAIN components :
               ~ComponentIsValid(keys, components[i], message)
    THEN "InvalidSignature"
    ELSE "Ok"

(* A point that is not compressed: 65 bytes, the first of them 0x04.       *)
accept_verifying_key(suite, accepted, key_id, sec1) ==
    IF suite # accepted THEN [error |-> "UnknownSuite"]
    ELSE IF ~(sec1.length = 65 /\ sec1.first = 4) THEN [error |-> "MalformedKey"]
    ELSE [key_id |-> key_id, raw |-> sec1.point]
=============================================================================
