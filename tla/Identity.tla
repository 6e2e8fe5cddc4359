------------------------------ MODULE Identity ------------------------------
(***************************************************************************)
(* The life of a node's identity: identity.NewCA with its key generating           *)
(* goroutines (GenerateKeys), NewIdentity, Revoke and AddExtension, and the four   *)
(* files a CA and an identity are saved to and loaded from. Writing a file is not  *)
(* atomic: a failure or a crash can leave it cut, and a crash can come between     *)
(* two files. One caller makes CAs and identities one after the other and saves    *)
(* them over one another.                                                          *)
(***************************************************************************)
EXTENDS Certificate

CONSTANTS
  Workers,        \* opts.Concurrency goroutines
  MaxKeys,        \* bound: keys made
  MaxCAs,         \* bound: calls of NewCA
  MaxSaves,       \* bound: Saves begun
  MaxRevocations, \* bound: revocations made
  MaxExts         \* bound: extensions of a leaf

ASSUME IdentityAssumption ==
  /\ IsFiniteSet(Workers) /\ Workers # {} /\ {MaxKeys, MaxCAs, MaxSaves, MaxRevocations, MaxExts} \subseteq Nat
  /\ CertKeys \subseteq Nat /\ 0 .. MaxKeys \subseteq CertKeys

VARIABLES
  genPc,      \* NewCA: "wait", "cert", "assemble", "done", "failed"
  worker,     \* [pc, key] of each generating goroutine
  errchan,    \* results of the goroutines, "nil" or "err"
  genDone,    \* the context of the generation is done
  selected,   \* selectedKey and selectedID
  caCert,     \* the certificate NewCA has made
  parent,     \* whether NewCA has a parent CA; its key is 0
  minted,     \* the last key made; keys are made in order
  ca,         \* the FullCertificateAuthority in memory
  ident,      \* the FullIdentity in memory
  disk,       \* the files: [state, content], state "none", "cut" or "whole"
  saving,     \* files still to be written by the Save in progress, with their content
  casMade,    \* bound: number of calls of NewCA
  saves,      \* bound: number of Saves
  clock,      \* time.Now().Unix() at the last revocation
  cut,        \* history: whose Saves were cut short or failed, of {"ca", "id"}
  revoked     \* history: Revoke has given an identity another leaf

genVars == <<genPc, worker, errchan, genDone, selected, caCert, parent, casMade>>
nodeVars == <<ca, ident, minted, clock, revoked>>
diskVars == <<disk, saving, saves, cut>>
identityVars == <<genVars, nodeVars, diskVars>>

NoFile == [state |-> "none", content |-> NoCert]
CutFile == [state |-> "cut", content |-> NoCert]
WholeFile(c) == [state |-> "whole", content |-> c]

CAFiles == {"caCert", "caKey"}
IdFiles == {"idCert", "idKey"}

\* opts.ParentCert of NewCA.
ParentCert == CreateSelfSignedCertificate(0, <<VersionExt(0)>>, <<>>)

------------------------------------------------------------------------------
(* GenerateKeys: every goroutine generates keys until one is good enough. *)

\* A key of at least minDifficulty.
GenerateKey(w) ==
  /\ worker[w].pc = "gen" /\ ~genDone /\ minted < MaxKeys
  /\ minted' = minted + 1
  /\ worker' = [worker EXCEPT ![w] = [pc |-> "found", key |-> minted + 1]]
  /\ UNCHANGED <<genPc, errchan, genDone, selected, caCert, parent, casMade, ca, ident, clock, revoked, diskVars>>

\* The context is done, or there is no randomness: errchan has room for everyone.
GenerateFails(w) ==
  /\ worker[w].pc = "gen"
  /\ worker' = [worker EXCEPT ![w] = [pc |-> "done", key |-> NoCert]]
  /\ errchan' = Append(errchan, "err")
  /\ UNCHANGED <<genPc, genDone, selected, caCert, parent, casMade, nodeVars, diskVars>>

\* Bug form: the last goroutine to find a key wins.
SelectKeyLast(w) ==
  /\ selected' = NodeIDFromKey(worker[w].key, 0)

\* The callback's locked part: the first good key is kept, with its id.
SelectKey(w) ==
  /\ selected' = IF selected = NoCert THEN NodeIDFromKey(worker[w].key, 0) ELSE selected

FoundGood(w) ==
  /\ worker[w].pc = "found"
  /\ SelectKey(w)
  /\ worker' = [worker EXCEPT ![w] = [pc |-> "done", key |-> NoCert]]
  /\ errchan' = Append(errchan, "nil")
  /\ UNCHANGED <<genPc, genDone, caCert, parent, casMade, nodeVars, diskVars>>

\* Not difficult enough: on to the next key. The highscore is for the log only.
FoundWeak(w) ==
  /\ worker[w].pc = "found"
  /\ worker' = [worker EXCEPT ![w] = [pc |-> "gen", key |-> NoCert]]
  /\ UNCHANGED <<genPc, errchan, genDone, selected, caCert, parent, casMade, nodeVars, diskVars>>

GenerateCancel ==
  /\ genPc = "wait" /\ ~genDone
  /\ genDone' = TRUE
  /\ UNCHANGED <<genPc, worker, errchan, selected, caCert, parent, casMade, nodeVars, diskVars>>

\* The first result ends the generation and cancels the other goroutines, which
\* may still be about to call back.
GenerateKeys ==
  /\ genPc = "wait" /\ errchan # <<>>
  /\ genPc' = IF Head(errchan) = "nil" THEN "cert" ELSE "failed"
  /\ errchan' = Tail(errchan)
  /\ genDone' = TRUE
  /\ UNCHANGED <<worker, selected, caCert, parent, casMade, nodeVars, diskVars>>

\* NewCA goes on without the lock: the certificate is made from the selected key ...
NewCACert ==
  /\ genPc = "cert"
  /\ caCert' = CreateCertificate(selected.hash, IF parent THEN 0 ELSE selected.hash, <<VersionExt(0)>>, <<>>)
  /\ genPc' = "assemble"
  /\ UNCHANGED <<worker, errchan, genDone, selected, parent, casMade, nodeVars, diskVars>>

\* ... and the CA put together from it, the selected key and the selected id.
NewCA ==
  /\ genPc = "assemble"
  /\ ca' = [cert |-> caCert, key |-> selected.hash, id |-> selected,
            rest |-> IF parent THEN <<ParentCert>> ELSE <<>>]
  /\ genPc' = "done"
  /\ UNCHANGED <<worker, errchan, genDone, selected, caCert, parent, casMade, ident, minted, clock, revoked, diskVars>>

\* What NewCA begins with, and what is left of it after the end of the process.
NoGeneration(pc, workers) ==
  /\ genPc' = pc /\ errchan' = <<>> /\ genDone' = FALSE /\ selected' = NoCert /\ caCert' = NoCert
  /\ worker' = [w \in Workers |-> [pc |-> workers, key |-> NoCert]]

\* The caller's call has returned.
Idle == genPc \in {"done", "failed"} /\ saving = <<>>

\* Another call of NewCA has a key, an id and goroutines of its own; late goroutines of the
\* last call have only theirs to write to.
GenerateAgain ==
  /\ Idle /\ casMade < MaxCAs
  /\ NoGeneration("wait", "gen") /\ casMade' = casMade + 1
  /\ UNCHANGED <<parent, nodeVars, diskVars>>

------------------------------------------------------------------------------
(* Identities. *)

\* A fresh leaf key, and a leaf signed with the CA's key.
LeafWith(exts) == CreateCertificate(minted + 1, ca.key, exts, <<>>)

CanMint == Idle /\ ca # NoCert /\ minted < MaxKeys /\ IDVersionFromCert(ca.cert) # NoCert

NewIdentity ==
  /\ CanMint
  /\ ident' = [leaf |-> LeafWith(<<>>), ca |-> ca.cert, rest |-> ca.rest, key |-> minted + 1, id |-> ca.id]
  /\ minted' = minted + 1
  /\ UNCHANGED <<genVars, ca, clock, revoked, diskVars>>

\* The caller makes an identity manageable with the CA that has its id.
Manageable == ca # NoCert /\ ident # NoCert /\ ca.id = ident.id

RevokedBy == NewRevocationExt(ca.key, ident.leaf, clock + 1)

\* ManageableFullIdentity.Revoke: a new leaf carries the revocation of the old one.
\* The identity takes the new leaf and nothing else.
Revoke ==
  /\ CanMint /\ Manageable /\ clock < MaxRevocations
  /\ ident' = [ident EXCEPT !.leaf = LeafWith(<<RevokedBy>>)]
  /\ minted' = minted + 1 /\ clock' = clock + 1 /\ revoked' = TRUE
  /\ UNCHANGED <<genVars, ca, diskVars>>

\* FullCertificateAuthority.Revoke: only a self-signed CA can be signed again. A second
\* one puts two extensions of one id in the certificate: AddExtraExtension looks at the
\* added ones only. (Where the x509 parser refuses that, nothing changes.)
RevokeCA ==
  /\ Idle /\ ca # NoCert /\ ca.rest = <<>> /\ clock < MaxRevocations
  /\ clock' = clock + 1
  /\ ca' = [ca EXCEPT !.cert = CreateSelfSignedCertificate(ca.key,
              <<NewRevocationExt(ca.key, ca.cert, clock + 1)>>, ca.cert.exts)]
  /\ UNCHANGED <<genVars, ident, minted, revoked, diskVars>>

\* ManageablePeerIdentity.AddExtension, with a signature of the leaf by the parent CA:
\* the leaf is made again with the same key.
AddExtension ==
  /\ Idle /\ Manageable /\ Len(ident.leaf.exts) < MaxExts
  /\ ident' = [ident EXCEPT !.leaf =
       CreateCertificate(ident.leaf.key, ca.key, <<SignedExt(0, ident.leaf)>>, ident.leaf.exts)]
  /\ UNCHANGED <<genVars, ca, minted, clock, revoked, diskVars>>

------------------------------------------------------------------------------
(* Files. *)

IdentChain == <<ident.leaf, ident.ca>> \o ident.rest
CAChain == <<ca.cert>> \o ca.rest

\* Save writes the certificate file, then the key file.
Save(certFile, chain, keyFile, key) ==
  /\ Idle /\ saves < MaxSaves
  /\ saving' = << [file |-> certFile, content |-> chain], [file |-> keyFile, content |-> key] >>
  /\ saves' = saves + 1
  /\ UNCHANGED <<genVars, nodeVars, disk, cut>>

SaveCA == ca # NoCert /\ Save("caCert", CAChain, "caKey", ca.key)
SaveIdentity == ident # NoCert /\ Save("idCert", IdentChain, "idKey", ident.key)

writeFile ==
  /\ saving # <<>>
  /\ disk' = [disk EXCEPT ![Head(saving).file] = WholeFile(Head(saving).content)]
  /\ saving' = Tail(saving)
  /\ UNCHANGED <<genVars, nodeVars, saves, cut>>

\* What a write that did not get to its end leaves: what was there, a file nothing can be read
\* from, or the first certificates of a chain, each of which is a block of its own.
CutShort(item) ==
  {disk[item.file], CutFile} \cup
    (IF item.file \in {"caCert", "idCert"}
     THEN {WholeFile(SubSeq(item.content, 1, n)) : n \in 1 .. Len(item.content) - 1} ELSE {})

CutWrite ==
  /\ \E c \in CutShort(Head(saving)) : disk' = [disk EXCEPT ![Head(saving).file] = c]
  /\ cut' = cut \cup {IF Head(saving).file \in CAFiles THEN "ca" ELSE "id"}

\* The directory is not writable, or the write fails half way. An identity's key is
\* written all the same, a CA's is not.
writeFileFails ==
  /\ saving # <<>>
  /\ CutWrite
  /\ saving' = IF Head(saving).file = "caCert" THEN <<>> ELSE Tail(saving)
  /\ UNCHANGED <<genVars, nodeVars, saves>>

\* The process ends: what it was writing may be cut, what it had in memory is gone.
Crash ==
  /\ NoGeneration("failed", "done")
  /\ ca' = NoCert /\ ident' = NoCert /\ saving' = <<>>
  /\ IF saving = <<>> THEN UNCHANGED <<disk, cut>> ELSE CutWrite
  /\ UNCHANGED <<parent, casMade, minted, clock, revoked, saves>>

\* A file that is missing or has nothing to read is an error (a CA's certificate file without
\* a certificate is a panic: nothing is loaded). That the key belongs to the certificate is
\* not checked.
Readable(f) == disk[f].state = "whole"

LoadCA ==
  /\ Idle /\ \A f \in CAFiles : Readable(f)
  /\ LET p == PeerCAFromChain(disk["caCert"].content)
     IN  /\ p # NoCert
         /\ ca' = [cert |-> p.cert, key |-> disk["caKey"].content, id |-> p.id, rest |-> p.rest]
  /\ UNCHANGED <<genVars, ident, minted, clock, revoked, diskVars>>

Load ==
  /\ Idle /\ \A f \in IdFiles : Readable(f)
  /\ LET p == PeerIdentityFromPEM(disk["idCert"].content)
     IN  /\ p # NoCert
         /\ ident' = [leaf |-> p.leaf, ca |-> p.ca, rest |-> p.rest, key |-> disk["idKey"].content, id |-> p.id]
  /\ UNCHANGED <<genVars, ca, minted, clock, revoked, diskVars>>

------------------------------------------------------------------------------

IdentityInit ==
  /\ genPc = "wait" /\ errchan = <<>> /\ genDone = FALSE /\ selected = NoCert /\ caCert = NoCert
  /\ worker = [w \in Workers |-> [pc |-> "gen", key |-> NoCert]]
  /\ parent \in BOOLEAN
  /\ minted = 0 /\ ca = NoCert /\ ident = NoCert /\ clock = 0 /\ casMade = 1 /\ revoked = FALSE
  /\ disk = [f \in CAFiles \cup IdFiles |-> NoFile]
  /\ saving = <<>> /\ saves = 0 /\ cut = {}

Generation ==
  \/ \E w \in Workers : GenerateKey(w) \/ GenerateFails(w) \/ FoundGood(w) \/ FoundWeak(w)
  \/ GenerateCancel \/ GenerateKeys \/ NewCACert \/ NewCA \/ GenerateAgain

IdentityNext ==
  \/ Generation
  \/ NewIdentity \/ Revoke \/ RevokeCA \/ AddExtension
  \/ SaveCA \/ SaveIdentity \/ writeFile \/ writeFileFails \/ Crash \/ LoadCA \/ Load

------------------------------------------------------------------------------

\* A node keeps its identity: whatever generating goroutines, revocations, added
\* extensions, saves of one CA or identity over another, crashes and loads did, the CA's
\* certificate is of the CA's key and its id is that key's; an identity has the id of its
\* CA's certificate, its leaf is signed with the CA's key, and its chain verifies. The
\* identity's key is its leaf's until a Revoke. Each holds as long as no Save of the files
\* it depends on was cut: after that, a CA or an identity can be loaded with the key of
\* another
\* (certificate_authority.go:89-194, 254-306, 379-415; identity.go:136-181, 326-372, 469-497).
IdentityConsistent ==
  /\ ca # NoCert /\ "ca" \notin cut => ca.id = NodeIDFromCert(ca.cert) /\ ca.key = ca.cert.key
  /\ ident # NoCert /\ "ca" \notin cut =>
       /\ ident.id = NodeIDFromCert(ident.ca)
       /\ ident.leaf.signer = ident.ca.key
       /\ "id" \notin cut => verifyChainSignatures(IdentChain)
  /\ ident # NoCert /\ "id" \notin cut /\ ~revoked => ident.key = ident.leaf.key
==============================================================================
