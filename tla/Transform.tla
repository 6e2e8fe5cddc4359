------------------------------ MODULE Transform ------------------------------
(***************************************************************************)
(* Encryption of data block by block: the ciphers as Transformers, padding, and     *)
(* the reader and ranger that apply a Transformer to another one (transform.go,      *)
(* aesgcm.go, secretbox.go, encryption.go, pad.go, bits.go). AES-GCM and secretbox    *)
(* are external: a sealed block opens under the nonce it was sealed with and not       *)
(* when it was changed.                                                               *)
(***************************************************************************)
EXTENDS Ranger

CONSTANTS
  Overhead,       \* bytes an AEAD adds to a block
  NonceBytes,     \* length of a nonce
  GCMNonceBytes,  \* length of a nonce of AES-GCM
  ByteValues      \* number of values of a byte of a nonce

uint32Size == 4

RECURSIVE IncrementFrom(_, _, _)
IncrementFrom(buf, amount, idx) ==
  IF amount = 0 \/ idx > Len(buf) THEN [buf |-> buf, truncated |-> amount # 0]
  ELSE LET inc == amount % ByteValues
           sum == (buf[idx] + inc) % ByteValues
           carry == IF sum < buf[idx] THEN 1 ELSE 0
       IN  IncrementFrom([buf EXCEPT ![idx] = sum], amount \div ByteValues + carry, idx + 1)

\* incrementBytes: byte by byte from the first, the carry joins the rest.
IncrementBytes(buf, amount) == IncrementFrom(buf, amount, 1)

\* calcGCMNonce and calcNonce.
CalcNonce(startingNonce, blockNum) == IncrementBytes(startingNonce, blockNum).buf

\* Seal of a block: every byte of it depends on nonce and data; Open.
Seal(nonce, block) == [i \in 1..(Len(block) + Overhead) |-> [nonce |-> nonce, block |-> block, at |-> i]]
Opens(nonce, sealed) == sealed = Seal(nonce, sealed[1].block)

\* A Transformer: an encrypter or decrypter with its block sizes and its nonce.
NoopTransformer == [cipher |-> "null", in |-> 1, out |-> 1, nonce |-> <<>>, op |-> "none"]

\* The beginning of a nonce.
ToAESGCMNonce(nonce) == SubSeq(nonce, 1, GCMNonceBytes)

NewAESGCMEncrypter(startingNonce, encryptedBlockSize) ==
  [cipher |-> "aesgcm", in |-> encryptedBlockSize - Overhead, out |-> encryptedBlockSize, nonce |-> startingNonce, op |-> "seal"]
NewAESGCMDecrypter(startingNonce, encryptedBlockSize) ==
  [cipher |-> "aesgcm", in |-> encryptedBlockSize, out |-> encryptedBlockSize - Overhead, nonce |-> startingNonce, op |-> "open"]
NewSecretboxEncrypter(startingNonce, encryptedBlockSize) ==
  [cipher |-> "secretbox", in |-> encryptedBlockSize - Overhead, out |-> encryptedBlockSize, nonce |-> startingNonce, op |-> "seal"]
NewSecretboxDecrypter(startingNonce, encryptedBlockSize) ==
  [cipher |-> "secretbox", in |-> encryptedBlockSize, out |-> encryptedBlockSize - Overhead, nonce |-> startingNonce, op |-> "open"]

\* NewEncrypter and NewDecrypter; encrypted blocks no larger than the overhead, and
\* ciphers that do not work on blocks, are refused.
ValidCipher(cipher, encryptedBlockSize) ==
  cipher = "null" \/ (cipher \in {"aesgcm", "secretbox"} /\ encryptedBlockSize > Overhead)

NewEncrypter(cipher, nonce, encryptedBlockSize) ==
  CASE cipher = "aesgcm" -> NewAESGCMEncrypter(ToAESGCMNonce(nonce), encryptedBlockSize)
    [] cipher = "secretbox" -> NewSecretboxEncrypter(nonce, encryptedBlockSize)
    [] OTHER -> NoopTransformer

NewDecrypter(cipher, nonce, encryptedBlockSize) ==
  CASE cipher = "aesgcm" -> NewAESGCMDecrypter(ToAESGCMNonce(nonce), encryptedBlockSize)
    [] cipher = "secretbox" -> NewSecretboxDecrypter(nonce, encryptedBlockSize)
    [] OTHER -> NoopTransformer

CanTransform(t, in, blockNum) == t.op = "open" => Opens(CalcNonce(t.nonce, blockNum), in)

TransformBlock(t, in, blockNum) ==
  CASE t.op = "none" -> in
    [] t.op = "seal" -> Seal(CalcNonce(t.nonce, blockNum), in)
    [] t.op = "open" -> in[1].block

\* A message as a whole, under a key: <<result>>, or <<>> when it is refused. What is
\* empty stays empty under every cipher.
EncryptAESGCM(data, key, nonce) == Seal(<<key, nonce>>, data)
DecryptAESGCM(sealed, key, nonce) == IF Opens(<<key, nonce>>, sealed) THEN <<sealed[1].block>> ELSE <<>>
EncryptSecretBox(data, key, nonce) == Seal(<<key, nonce>>, data)
DecryptSecretBox(sealed, key, nonce) == IF Opens(<<key, nonce>>, sealed) THEN <<sealed[1].block>> ELSE <<>>

Encrypt(data, cipher, key, nonce) ==
  CASE data = <<>> \/ cipher = "null" -> <<data>>
    [] data # <<>> /\ cipher = "aesgcm" -> <<EncryptAESGCM(data, key, ToAESGCMNonce(nonce))>>
    [] data # <<>> /\ cipher = "secretbox" -> <<EncryptSecretBox(data, key, nonce)>>
    [] OTHER -> <<>>

Decrypt(sealed, cipher, key, nonce) ==
  CASE sealed = <<>> \/ cipher = "null" -> <<sealed>>
    [] sealed # <<>> /\ cipher = "aesgcm" -> DecryptAESGCM(sealed, key, ToAESGCMNonce(nonce))
    [] sealed # <<>> /\ cipher = "secretbox" -> DecryptSecretBox(sealed, key, nonce)
    [] OTHER -> <<>>

------------------------------------------------------------------------------
(* transformedReader: its state, and one Read into a buffer of n bytes. *)

TransformReaderSize(rd, t, startingBlockNum, expectedSize) ==
  [r |-> rd, t |-> t, blockNum |-> startingBlockNum, outbuf |-> <<>>,
   expectedSize |-> expectedSize, bytesRead |-> 0, n |-> 0, got |-> <<>>, err |-> "nil"]

FillReaderNoSize(tr) ==
  LET b == IF Len(tr.r.data) < tr.t.in THEN Len(tr.r.data) ELSE tr.t.in
      in == SubSeq(tr.r.data, 1, b)
      rest == [tr EXCEPT !.r.data = SubSeq(@, b + 1, Len(@)), !.bytesRead = @ + b]
  IN  IF b < tr.t.in
      THEN [rest EXCEPT !.err = IF b # 0 /\ tr.r.end = "EOF" THEN "unexpected" ELSE tr.r.end]
      ELSE IF ~CanTransform(tr.t, in, tr.blockNum) THEN [rest EXCEPT !.err = "decrypt"]
      ELSE [rest EXCEPT !.outbuf = TransformBlock(tr.t, in, tr.blockNum), !.blockNum = @ + 1]

\* The next block, read in full and transformed. An end before expectedSize is
\* unexpected, also between two blocks.
FillReader(tr) ==
  LET b == IF Len(tr.r.data) < tr.t.in THEN Len(tr.r.data) ELSE tr.t.in
      in == SubSeq(tr.r.data, 1, b)
      rest == [tr EXCEPT !.r.data = SubSeq(@, b + 1, Len(@)), !.bytesRead = @ + b]
  IN  IF b < tr.t.in
      THEN [rest EXCEPT !.err =
              IF tr.r.end = "EOF" /\ (b # 0 \/ rest.bytesRead < tr.expectedSize) THEN "unexpected" ELSE tr.r.end]
      ELSE IF ~CanTransform(tr.t, in, tr.blockNum) THEN [rest EXCEPT !.err = "decrypt"]
      ELSE [rest EXCEPT !.outbuf = TransformBlock(tr.t, in, tr.blockNum), !.blockNum = @ + 1]

TransformRead(tr, n) ==
  LET filled == IF tr.outbuf = <<>> THEN FillReader([tr EXCEPT !.err = "nil"]) ELSE [tr EXCEPT !.err = "nil"]
      k == IF Len(filled.outbuf) < n THEN Len(filled.outbuf) ELSE n
  IN  IF filled.err # "nil" THEN [filled EXCEPT !.got = <<>>]
      ELSE [filled EXCEPT !.got = SubSeq(filled.outbuf, 1, k), !.outbuf = SubSeq(@, k + 1, Len(@))]

\* Read to the end, or to the first error.
RECURSIVE TransformReadAll(_, _)
TransformReadAll(tr, sofar) ==
  LET next == TransformRead(tr, tr.t.out)
  IN  IF next.err # "nil" THEN Reader(sofar, next.err) ELSE TransformReadAll(next, sofar \o next.got)

------------------------------------------------------------------------------
(* transformedRanger. *)

\* Transform refuses a ranger that is not a whole number of blocks.
ValidTransform(r, t) == r.size % t.in = 0
TransformedSize(r, t) == (r.size \div t.in) * t.out

EncompassingBlocksLoose(offset, length, blockSize) ==
  [first |-> offset \div blockSize,
   count |-> IF length <= 0 THEN 0 ELSE 1 + (offset + length) \div blockSize - offset \div blockSize]

CalcEncompassingBlocks(offset, length, blockSize) ==
  LET first == offset \div blockSize
      last == (offset + length) \div blockSize
  IN  IF length <= 0 THEN [first |-> first, count |-> 0]
      ELSE IF (offset + length) % blockSize = 0 THEN [first |-> first, count |-> last - first]
      ELSE [first |-> first, count |-> 1 + last - first]

\* Range: the reader of the blocks that hold the range, after the bytes before the
\* range are swallowed. They are fewer than a block, so one Read takes them all.
\* The caller limits the reader to the length.
TransformedRange(r, t, offset, length) ==
  LET blocks == CalcEncompassingBlocks(offset, length, t.out)
      under == RangeOf(r, blocks.first * t.in, blocks.count * t.in)
      tr == TransformReaderSize(under, t, blocks.first, blocks.count * t.in)
      skip == offset - blocks.first * t.out
  IN  IF blocks.count = 0 THEN TransformReaderSize(EmptyReader, NoopTransformer, 0, 0)
      ELSE IF under.end = "refused" THEN [tr EXCEPT !.err = "refused"]
      ELSE IF skip = 0 THEN tr
      ELSE LET swallowed == TransformRead(tr, skip)
           IN  IF swallowed.err = "EOF" THEN [swallowed EXCEPT !.err = "unexpected"] ELSE swallowed

------------------------------------------------------------------------------
(* Padding. *)

MakePadding(dataLen, blockSize) ==
  LET rem == (dataLen + uint32Size) % blockSize
      padding == uint32Size + (IF rem > 0 THEN blockSize - rem ELSE 0)
  IN  [i \in 1..padding |-> IF i = padding THEN padding ELSE 0]

\* Pad on a ranger and PadReader on a reader.
Pad(r, blockSize) == Concat2(r, ByteRanger(MakePadding(r.size, blockSize)))

PadReader(rd, blockSize) ==
  MultiReadCloser(rd, Reader(MakePadding(Len(rd.data), blockSize), "EOF"))

\* The amount UnpadSlow reads from the last bytes; it is what Unpad is given.
PaddingOf(lastBytes) == lastBytes[uint32Size]

CalcEncryptedSize(dataSize, t) == ((dataSize + uint32Size + t.in - 1) \div t.in) * t.out
==============================================================================
