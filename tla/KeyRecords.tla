----------------------------- MODULE KeyRecords -----------------------------
(* How a published key record becomes a modulus and an exponent:             *)
(* lacre/dkimkey.py, which the KeyCache and the Registry use,                *)
(* lacre/dkimcore.py, and experiments/dkim-probe/dkim/rfc6376.py they were   *)
(* measured against.  A byte is a number, the algorithm's OID one of them.   *)

EXTENDS Naturals, Sequences, SequencesExt

OID == 99
INTEGER == 2
BITSTRING == 3
SEQUENCE == 48

NO_KEY == [n |-> <<>>, e |-> <<>>]
BAD == [tag |-> 0, value |-> <<>>, next |-> 0]      \* an exception; no element has tag 0 here

Byte(der, at) == der[at + 1]

\* int.from_bytes: most significant first, of what the slice holds.
FromBytes(bytes) ==
    LET upTo[i \in 0..Len(bytes)] == IF i = 0 THEN 0 ELSE upTo[i - 1] * 256 + bytes[i]
    IN  upTo[Len(bytes)]

Slice(der, from, to) == SubSeq(der, from + 1, IF to > Len(der) THEN Len(der) ELSE to)

Element(der, tag, at, size) ==
    IF at + size > Len(der) THEN BAD
    ELSE [tag |-> tag, value |-> Slice(der, at, at + size), next |-> at + size]

\* Mutated form of read_tlv: a length of length that runs past the end is not noticed.
read_tlv_unchecked(der, at) ==
    IF at + 2 > Len(der) THEN BAD
    ELSE LET size == Byte(der, at + 1)
             count == size - 128
             long == FromBytes(Slice(der, at + 2, at + 2 + count))
         IN  IF size < 128 THEN Element(der, Byte(der, at), at + 2, size)
             ELSE IF count = 0 \/ count > 4 THEN BAD
             ELSE [tag |-> Byte(der, at), value |-> Slice(der, at + 2 + count, at + 2 + count + long),
                   next |-> at + 2 + count + long]

\* dkimkey: definite lengths only, in at most four bytes.
read_tlv(der, at) ==
    IF at + 2 > Len(der) THEN BAD
    ELSE LET size == Byte(der, at + 1)
             count == size - 128
         IN  IF size < 128 THEN Element(der, Byte(der, at), at + 2, size)
             ELSE IF count = 0 \/ count > 4 THEN BAD
             ELSE Element(der, Byte(der, at), at + 2 + count,
                          FromBytes(Slice(der, at + 2, at + 2 + count)))

\* rfc6376 and dkimcore: the bytes of a length must be there, too.
_read_der_tlv(der, offset) ==
    IF offset + 2 > Len(der) THEN BAD
    ELSE LET size == Byte(der, offset + 1)
             count == size - 128
         IN  IF size < 128 THEN Element(der, Byte(der, offset), offset + 2, size)
             ELSE IF count = 0 \/ count > 4 \/ offset + 2 + count > Len(der) THEN BAD
             ELSE Element(der, Byte(der, offset), offset + 2 + count,
                          FromBytes(Slice(der, offset + 2, offset + 2 + count)))

\* Whose reader it is.
LACRE == "lacre"
REFERENCE == "rfc6376"

element(by, der, at) == IF by = LACRE THEN read_tlv(der, at) ELSE _read_der_tlv(der, at)

rsa_key(by, der) ==
    LET n == element(by, der, 0)
        e == element(by, der, n.next)
    IN  IF n.tag = INTEGER /\ e.tag = INTEGER THEN [n |-> n.value, e |-> e.value] ELSE NO_KEY

\* A SubjectPublicKeyInfo, or the bare key a few records still carry.
decode_spki(by, der) ==
    LET outer == element(by, der, 0)
        first == element(by, outer.value, 0)
        bits == element(by, outer.value, first.next)
        key == element(by, bits.value, 1)
    IN  IF outer.tag # SEQUENCE THEN NO_KEY
        ELSE IF first.tag = INTEGER THEN rsa_key(by, outer.value)
        ELSE IF /\ first.tag = SEQUENCE /\ Contains(first.value, OID)
                /\ bits.tag = BITSTRING /\ bits.value # <<>> /\ bits.value[1] = 0
                /\ key.tag = SEQUENCE
             THEN rsa_key(by, key.value)
             ELSE NO_KEY

\* A tag that is not there is "", and p= is its bytes.
Supported(tags) == tags.v \in {"DKIM1", ""} /\ tags.k \in {"rsa", ""} /\ tags.p # <<>>

\* dkimkey.
key_from_tags(tags) == IF Supported(tags) THEN decode_spki(LACRE, tags.p) ELSE NO_KEY

\* rfc6376.
public_key_from_record(tags) ==
    IF Supported(tags) THEN decode_spki(REFERENCE, tags.p) ELSE NO_KEY
=============================================================================
