------------------------------- MODULE Signing -------------------------------
(***************************************************************************)
(* signing: order limits, orders, piece hashes and exit messages are signed,       *)
(* pass through programs of other versions, which parse and write them again, and   *)
(* are verified. A message is its fields by number; a program knows the fields up   *)
(* to its version, keeps the others as they came (XXX_unrecognized) and writes       *)
(* them last. The protobuf encoding is external: it leaves a zero value out, except     *)
(* in a field that is declared nullable=false, which is always written.              *)
(*                                                                                 *)
(* A signature names its key and the bytes it is for: it verifies with that key      *)
(* and those bytes only. Key 0 is an empty piece key.                                *)
(***************************************************************************)
EXTENDS Integers, Sequences, SequencesExt, FiniteSets

CONSTANTS
  MsgVersions,   \* versions of the programs: the number of fields they know
  FieldValues,   \* values of a field, 0 the zero value
  AlwaysFields,  \* fields written when zero, on the wire and for signing: serial numbers, ids
  NonNullFields, \* fields written when zero on the wire only: times, the uplink's public key
  SignKeys,      \* keys
  NoMsg          \* nothing sent, no signature

ASSUME SigningAssumption ==
  /\ MsgVersions \subseteq Nat \ {0} /\ 0 \in FieldValues /\ FieldValues \subseteq Nat
  /\ AlwaysFields \cap NonNullFields = {}
  \* no program is older than the fields that are always signed
  /\ \A v \in MsgVersions : AlwaysFields \subseteq 1 .. v
  /\ NoMsg \notin [key : SignKeys, bytes : Seq(Nat \X FieldValues)]

MsgKinds == {"limit", "order", "hash", "exit"}

VARIABLES
  wire,      \* the message on its way: [kind, fields, sig], fields a sequence of <<number, value>>
  signed,    \* history: [kind, key, fields] as they were signed
  changed,   \* history: the message was changed on its way
  verdict    \* [key, ok, fields], or NoMsg before the message was verified

signVars == <<wire, signed, changed, verdict>>

------------------------------------------------------------------------------
(* Protobuf. *)

\* The elements of a sequence that are in a set, in their order.
Kept(s, S) ==
  LET upto[n \in 0 .. Len(s)] ==
        IF n = 0 THEN <<>> ELSE IF s[n] \in S THEN Append(upto[n - 1], s[n]) ELSE upto[n - 1]
  IN  upto[Len(s)]

\* Known fields by number, then the others as they are; zero values only of fields in zeros.
Encoded(zeros, msg) ==
  Kept([i \in DOMAIN msg.known |-> <<i, msg.known[i]>>], (Nat \X (FieldValues \ {0})) \cup (zeros \X {0}))
    \o msg.unrecognized

\* Marshal of OrderLimit, PieceHash, Order and the exit messages: only the first two have
\* fields that are nullable=false and that their signing form leaves out when zero.
Marshal(kind, msg) ==
  Encoded(IF kind \in {"limit", "hash"} THEN AlwaysFields \cup NonNullFields ELSE AlwaysFields, msg)

Unmarshal(version, fields) ==
  [known |-> [i \in 1 .. version |->
                IF \E j \in DOMAIN fields : fields[j][1] = i
                THEN fields[CHOOSE j \in DOMAIN fields : fields[j][1] = i][2] ELSE 0],
   unrecognized |-> Kept(fields, (Nat \ 1 .. version) \X FieldValues)]

------------------------------------------------------------------------------
(* Encoding for signing. *)

\* Bug form: what the program does not know is not covered.
EncodeKnownOnly(msg) == Encoded(AlwaysFields, [msg EXCEPT !.unrecognized = <<>>])

\* EncodeOrderLimit and the others: a message without its signature. OrderLimitSigning and
\* PieceHashSigning have pointers for the fields the message itself always writes, and a
\* zero one is not set; what is unrecognized is taken over as it came.
EncodeForSigning(msg) == Encoded(AlwaysFields, msg)

\* HashAndSign, or PiecePrivateKey.Sign, which refuses an empty key.
HashAndSign(key, bytes) == [key |-> key, bytes |-> bytes]

HashAndVerifySignature(key, bytes, sig) == sig # NoMsg /\ sig = HashAndSign(key, bytes)

\* Orders and piece hashes with unrecognized fields are refused.
VerifySignature(kind, key, msg, sig) ==
  /\ kind \in {"order", "hash"} => msg.unrecognized = <<>>
  /\ key # 0
  /\ HashAndVerifySignature(key, EncodeForSigning(msg), sig)

------------------------------------------------------------------------------

\* SignOrderLimit, SignUplinkOrder, SignPieceHash, SignUplinkPieceHash, SignExitCompleted
\* and SignExitFailed: a copy with the signature.
Sign(kind, version, fields, key) ==
  /\ wire = NoMsg /\ key # 0
  /\ LET msg == [known |-> fields, unrecognized |-> <<>>]
     IN  /\ wire' = [kind |-> kind, fields |-> Marshal(kind, msg), sig |-> HashAndSign(key, EncodeForSigning(msg))]
         /\ signed' = [kind |-> kind, key |-> key, version |-> version, fields |-> fields]
  /\ UNCHANGED <<changed, verdict>>

\* Another program reads the message and passes it on.
Relay(version) ==
  /\ wire # NoMsg /\ verdict = NoMsg
  /\ wire' = [wire EXCEPT !.fields = Marshal(wire.kind, Unmarshal(version, @))]
  /\ UNCHANGED <<signed, changed, verdict>>

\* It also changes a field, or loses the signature.
RelayChanged(version) ==
  /\ wire # NoMsg /\ verdict = NoMsg /\ ~changed
  /\ LET msg == Unmarshal(version, wire.fields)
     IN  \/ \E i \in 1 .. version, v \in FieldValues :
              /\ msg.known[i] # v
              /\ wire' = [wire EXCEPT !.fields = Marshal(wire.kind, [msg EXCEPT !.known[i] = v])]
         \/ /\ msg.unrecognized # <<>>
            /\ wire' = [wire EXCEPT !.fields = Marshal(wire.kind, [msg EXCEPT !.unrecognized = <<>>])]
         \/ wire' = [wire EXCEPT !.sig = NoMsg]
  /\ changed' = TRUE
  /\ UNCHANGED <<signed, verdict>>

\* The verifier knows whose signature it wants.
Verify(version, key) ==
  /\ wire # NoMsg /\ verdict = NoMsg
  /\ LET msg == Unmarshal(version, wire.fields)
     IN  verdict' = [key |-> key, version |-> version, fields |-> wire.fields,
                     ok |-> VerifySignature(wire.kind, key, msg, wire.sig)]
  /\ UNCHANGED <<wire, signed, changed>>

SignInit == wire = NoMsg /\ signed = NoMsg /\ changed = FALSE /\ verdict = NoMsg

SignNext ==
  \/ \E kind \in MsgKinds, version \in MsgVersions, key \in SignKeys :
       \E fields \in [1 .. version -> FieldValues] : Sign(kind, version, fields, key)
  \/ \E version \in MsgVersions : Relay(version) \/ RelayChanged(version)
  \/ \E version \in MsgVersions, key \in SignKeys : Verify(version, key)

------------------------------------------------------------------------------

\* Programs of different versions agree on what was signed: what verifies is the message
\* the holder of the key has signed, field by field. What nobody changed verifies unless it
\* came with a field the verifier does not know: an order or a piece hash may have none, and
\* another message none that was written though it is zero, which the signer left out and
\* the verifier cannot (encode.go:13-109, verify.go:20-115, sign.go:29-131).
VerifiedAsSigned ==
  verdict # NoMsg =>
    /\ verdict.ok =>
         /\ verdict.key = signed.key
         /\ \A i \in 1 .. signed.version : Unmarshal(signed.version, verdict.fields).known[i] = signed.fields[i]
    /\ ~changed /\ verdict.key = signed.key =>
         (verdict.ok <=> \A p \in ToSet(verdict.fields) :
                           p[1] > verdict.version => wire.kind \in {"limit", "exit"} /\ p[2] # 0)
==============================================================================
