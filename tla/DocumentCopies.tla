--------------------------- MODULE DocumentCopies ---------------------------
(* What may become of a sealed document on its way to a verifier: copies    *)
(* that differ from it in one place.                                        *)
EXTENDS SealedDocument

With(object, k, v) ==
    [m \in DOMAIN object \cup {k} |-> IF m = k THEN v ELSE object[m]]
Without(object, k) == [m \in DOMAIN object \ {k} |-> object[m]]

(* A member is set to null, left out, added, or taken from another object. *)
ObjectCopies(object, other, members) ==
    {With(object, k, Null) : k \in members}
      \cup {Without(object, k) : k \in members}
      \cup {With(object, k, other[k]) : k \in members \cap DOMAIN other}
      \cup {With(object, "note", "text")}

(* Other components, in other number, under another key.                   *)
ComponentCopies(components) ==
    LET c == components[1]
    IN {<<>>, <<c, c>>,
        <<[c EXCEPT !.component = "ml-dsa-65"]>>,
        <<[c EXCEPT !.key_id = key_id_from_public_key("other")]>>,
        <<[c EXCEPT !.value.digits = "upper"]>>,
        <<[c EXCEPT !.value.digits = "none"]>>}
=============================================================================
