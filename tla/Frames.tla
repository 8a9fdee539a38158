------------------------------- MODULE Frames -------------------------------
(***************************************************************************)
(* How a request and its answer look on the connection: what client.cpp    *)
(* sends (Fetch...Path, Write...Path, sendend) and how server::init takes  *)
(* it apart, what ORAM::FetchPath sends and how Fetch...Path takes that    *)
(* apart, and where AES.cpp puts the initialisation vector of a bucket.    *)
(*                                                                         *)
(* A unit of a frame is [is, n, of]: a digit n, a count n, a letter n for  *)
(* the layer it stands for; block n of the ciphertext of bucket of, or its *)
(* initialisation vector; each of the last two is 16 bytes.  "exit", the   *)
(* ACK of 255 bytes and the single zero byte are units of their own.       *)
(*                                                                         *)
(* An operator named X_Something, before the operator X, is a wrong X: a    *)
(* bug the properties are shown to tell from the code.                      *)
(***************************************************************************)
EXTENDS Integers, SequencesExt

CONSTANT PlainBlocks   \* whole blocks of 16 bytes in a bucket's plaintext

Unit(is, n, of) == [is |-> is, n |-> n, of |-> of]
Exit == Unit("exit", 0, 0)
Ack == Unit("ack", 0, 0)
Zero == Unit("zero", 0, 0)

(* to_string and sprintf("%d"), and atoi: a number in decimal *)
Decimal[n \in Nat] ==
  IF n < 10 THEN <<n>> ELSE Append(Decimal[n \div 10], n % 10)
Digits(n) == [i \in DOMAIN Decimal[n] |-> Unit("digit", Decimal[n][i], 0)]
Leading(s) ==
  LET i == SelectInSeq(s, LAMBDA u : u.is # "digit")
  IN  IF i = 0 THEN s ELSE SubSeq(s, 1, i - 1)
Atoi(s) ==
  LET number[i \in 0 .. Len(Leading(s))] ==
        IF i = 0 THEN 0 ELSE 10 * number[i - 1] + s[i].n
  IN  number[Len(Leading(s))]

-----------------------------------------------------------------------------
(* GetCiphertextLength, in blocks: padding fills the last one, and takes    *)
(* one of its own when the plaintext ends with a block.                    *)
CipherBlocks == PlainBlocks + 1

(* AES::Encrypt of bucket b, and the blocks AES::Decrypt takes for the text *)
(* and for the vector                                                      *)
Encrypted(b) ==
  Append([i \in 1 .. CipherBlocks |-> Unit("cipher", i, b)], Unit("iv", 0, b))
VectorOf(s) == Last(s)
TextOf(s) == SubSeq(s, 1, CipherBlocks)

(* What comes of decrypting a slice of an answer: bucket b, if it is a     *)
(* whole ciphertext with its own vector, else noise.                       *)
Noise == -1
Decrypted(s) ==
  IF Len(s) = CipherBlocks + 1 /\ \E b \in {s[1].of} : /\ TextOf(s) = TextOf(Encrypted(b))
                                                       /\ VectorOf(s) = Unit("iv", 0, b)
    THEN s[1].of ELSE Noise

-----------------------------------------------------------------------------
(* requests *)
Fetch(layer, leaf) == [op |-> "fetch", layer |-> layer, num |-> leaf]
Write(layer, index) == [op |-> "write", layer |-> layer, num |-> index]
Ended == [op |-> "exit", layer |-> 0, num |-> 0]
Ignored == [op |-> "ignored", layer |-> 0, num |-> 0]

(* the tag of a layer: '0' and 'a' for the leaves, '1' and 'b' for mid2,   *)
(* '2' and 'c' for mid1                                                    *)
Tag(layer) == 3 - layer

Frame(r) ==
  CASE r.op = "fetch" -> Append(Digits(r.num), Unit("digit", Tag(r.layer), 0))
    [] r.op = "write" -> Encrypted(r.num) \o Digits(r.num)
                           \o <<Unit("count", Len(Digits(r.num)), 0),
                                Unit("letter", Tag(r.layer), 0)>>
    [] OTHER          -> <<Exit>>

(* what server::init makes of the bytes one recv gave it *)
FetchedLeaf_Tagged(s) == Atoi(s)
FetchedLeaf(s) == Atoi(s) \div 10
WrittenIndex_OneOff(s) ==
  LET n == s[Len(s) - 1].n IN Atoi(SubSeq(s, Len(s) - n, Len(s) - 1))
WrittenIndex(s) ==
  LET n == s[Len(s) - 1].n IN Atoi(SubSeq(s, Len(s) - 1 - n, Len(s) - 2))
IsExit_Terminated(s) == s = <<Exit, Zero>>
IsExit(s) == s = <<Exit>>

Parsed(s) ==
  CASE s # <<>> /\ Last(s).is = "digit"  -> Fetch(Tag(Last(s).n), FetchedLeaf(s))
    [] s # <<>> /\ Last(s).is = "letter" -> Write(Tag(Last(s).n), WrittenIndex(s))
    [] IsExit(s) -> Ended
    [] OTHER     -> Ignored

(* ORAM::FetchPath: the buckets one after the other, or a zero byte *)
PathFrame_Empty(buckets) == FlattenSeq([i \in DOMAIN buckets |-> Encrypted(buckets[i])])
PathFrame(buckets) ==
  IF buckets = <<>> THEN <<Zero>>
  ELSE FlattenSeq([i \in DOMAIN buckets |-> Encrypted(buckets[i])])

(* Fetch...Path: slices of a ciphertext and a vector each, as long as one  *)
(* begins within what was received                                         *)
Slice_NoVector == CipherBlocks
Slice == CipherBlocks + 1
Sliced(s) ==
  IF s = <<Zero>> THEN <<>>
  ELSE [i \in 1 .. (Len(s) + Slice - 1) \div Slice |->
          Decrypted(SubSeq(s, (i - 1) * Slice + 1,
                           IF i * Slice <= Len(s) THEN i * Slice ELSE Len(s)))]
=============================================================================
