----------------------------- MODULE Certificate -----------------------------
(***************************************************************************)
(* Certificates, chains and node ids: peertls, peertls/extensions and the parts    *)
(* of identity and storj that read them.                                           *)
(*                                                                                 *)
(* A certificate is its public key, the key that signed it and its extensions in   *)
(* order. A key stands for both halves of its pair and for its double hash: a      *)
(* signature verifies with the key that made it and no other. Serial numbers,      *)
(* subjects and key usages are left out.                                           *)
(***************************************************************************)
EXTENDS Integers, Sequences, FiniteSets, SequencesExt

CONSTANTS
  CertKeys,     \* key pairs
  Versions,     \* numbers of the identity versions in storj.IDVersions
  NoCert        \* no certificate, key, extension or node id

ASSUME CertAssumption == NoCert \notin CertKeys /\ Versions \subseteq 0 .. 255 /\ 0 \in Versions

LeafIndex == 1
CAIndex == 2

------------------------------------------------------------------------------
(* Extensions. *)

VersionExt(v) == [id |-> "version", value |-> v]

\* What a signature of a certificate covers.
TBS(cert) == [key |-> cert.key, exts |-> cert.exts]
SignedExt(signer, leaf) == [id |-> "signed", value |-> [signer |-> signer, tbs |-> TBS(leaf)]]

\* A revocation names the key it revokes and is signed by a CA.
NewRevocationExt(caKey, cert, time) ==
  [id |-> "revocation", value |-> [key |-> cert.key, time |-> time, signer |-> caKey]]

\* Verify: the signature is the passed certificate's.
RevocationVerifies(rev, cert) == rev.signer = cert.key

\* Where a certificate has extensions with that id.
ExtOf(cert, id) == {i \in DOMAIN cert.exts : cert.exts[i].id = id}

\* The first of them, in the order of the certificate.
FirstExtOf(cert, id) ==
  cert.exts[CHOOSE i \in ExtOf(cert, id) : \A j \in ExtOf(cert, id) : i <= j]

\* All extensions of a chain in one map: a later certificate wins.
NewExtensionsMap(chain) ==
  LET all == FlattenSeq([i \in DOMAIN chain |-> chain[i].exts])
      Of(id) == SelectSeq(all, LAMBDA e : e.id = id)
  IN  [id \in {all[i].id : i \in DOMAIN all} |-> Last(Of(id))]

------------------------------------------------------------------------------
(* Certificates and chains. *)

\* The new certificate has the template's added extensions before its old ones.
CreateCertificate(signee, signer, added, old) ==
  [key |-> signee, signer |-> signer, exts |-> added \o old]

CreateSelfSignedCertificate(key, added, old) == CreateCertificate(key, key, added, old)

verifyCertSignature(parent, child) == child.signer = parent.key

\* Bug form: the leaf is not looked at.
ChainSignaturesFromCA(certs) ==
  \A i \in CAIndex .. Len(certs) :
    verifyCertSignature(certs[IF i < Len(certs) THEN i + 1 ELSE i], certs[i])

\* Every certificate is signed by the next one, the last by itself.
verifyChainSignatures(certs) ==
  \A i \in DOMAIN certs :
    verifyCertSignature(certs[IF i < Len(certs) THEN i + 1 ELSE i], certs[i])

\* The identity's CA is signed by one of the whitelist.
VerifyCAWhitelist(cas, chain) == \E ca \in cas : verifyCertSignature(ca, chain[CAIndex])

------------------------------------------------------------------------------
(* Node ids. *)

\* A certificate without a version extension is V0; an unknown version is an error.
IDVersionFromCert(cert) ==
  LET v == IF ExtOf(cert, "version") = {} THEN 0 ELSE FirstExtOf(cert, "version").value
  IN  IF v \in Versions THEN v ELSE NoCert

\* The version number replaces the last byte of the double hash of the key.
NodeIDFromKey(key, version) == [hash |-> key, version |-> version]

ASSUME NodeIDAssumption == \A k \in CertKeys, v \in Versions : NodeIDFromKey(k, v) # NoCert

NodeIDFromCert(cert) ==
  LET v == IDVersionFromCert(cert)
  IN  IF v = NoCert THEN NoCert ELSE NodeIDFromKey(cert.key, v)

\* The caller passes a chain that has a CA.
PeerIdentityFromChain(chain) ==
  IF NodeIDFromCert(chain[CAIndex]) = NoCert THEN NoCert
  ELSE [leaf |-> chain[LeafIndex], ca |-> chain[CAIndex], rest |-> Tail(Tail(chain)),
        id |-> NodeIDFromCert(chain[CAIndex])]

\* What CertsFromPEM returns is looked at first.
PeerIdentityFromPEM(chain) == IF Len(chain) < CAIndex THEN NoCert ELSE PeerIdentityFromChain(chain)

\* The same for the chain of a CA, which has no leaf.
PeerCAFromChain(chain) ==
  IF chain = <<>> \/ NodeIDFromCert(Head(chain)) = NoCert THEN NoCert
  ELSE [cert |-> Head(chain), rest |-> Tail(chain), id |-> NodeIDFromCert(Head(chain))]

\* PeerIDVersions: "none", "any", "latest", or ranges (begin..end, one number, or text that is not a
\* number) tried in order. Numbers are converted to a byte.
IDVersionInVersions(v, allowed) ==
  \/ allowed.kind = "any"
  \/ allowed.kind = "latest" /\ v = Cardinality(Versions) - 1
  \/ allowed.kind = "ranges" /\
       \E i \in DOMAIN allowed.ranges :
         /\ \E n \in allowed.ranges[i].begin .. allowed.ranges[i].end : n % 256 = v
         /\ \A j \in 1 .. i : allowed.ranges[j].ok
==============================================================================
