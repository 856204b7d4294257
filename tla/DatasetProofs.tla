--------------------------- MODULE DatasetProofs ---------------------------
(***************************************************************************)
(* Proofs about Dataset: whatever crashes, and whenever a trainer reads,   *)
(* the files belong together, every token has an embedding, and the        *)
(* targets are the window, one token on.                                   *)
(***************************************************************************)
EXTENDS Dataset, SequenceTheorems, FiniteSetTheorems, TLAPS

-----------------------------------------------------------------------------
(* The encoding *)

\* The characters of a text are finitely many characters.
LEMMA CharsType ==
    ASSUME NEW t \in Seq(Char)
    PROVE  /\ Chars(t) \in SUBSET Char
           /\ Chars(t) \subseteq Nat
           /\ IsFiniteSet(Chars(t))
           /\ Cardinality(Chars(t)) \in Nat
           /\ Cardinality(Chars(t)) < DefaultVocab
<1>1. Chars(t) \in SUBSET Char
  <2>1. DOMAIN t = 1..Len(t) /\ \A i \in 1..Len(t) : t[i] \in Char
    BY LenProperties
  <2>2. QED
    BY <2>1 DEF Chars, ToSet
<1>2. IsFiniteSet(Chars(t)) /\ Cardinality(Chars(t)) <= Cardinality(Char)
  BY <1>1, FS_Subset, DatasetAssumption
<1>3. Cardinality(Chars(t)) \in Nat /\ Cardinality(Char) \in Nat
  BY <1>2, FS_CardinalityType, DatasetAssumption
<1>4. Char \subseteq Nat /\ DefaultVocab \in Nat /\ Cardinality(Char) < DefaultVocab
  BY <1>3, DatasetAssumption
<1>5. Cardinality(Chars(t)) < DefaultVocab
  BY <1>2, <1>3, <1>4
<1>6. QED
  BY <1>1, <1>2, <1>3, <1>4, <1>5

\* A character's number is below the size of the vocabulary.
LEMMA StoiType ==
    ASSUME NEW t \in Seq(Char), NEW ch \in Chars(t)
    PROVE  /\ Stoi(t, ch) \in Nat
           /\ Stoi(t, ch) < Cardinality(Chars(t))
<1> DEFINE S == {c \in Chars(t) : c < ch}
<1>1. S \subseteq Chars(t) \ {ch}
  <2>1. ~(ch < ch)
    BY CharsType
  <2>2. QED
    BY <2>1
<1>2. /\ IsFiniteSet(Chars(t) \ {ch})
      /\ Cardinality(Chars(t) \ {ch}) = Cardinality(Chars(t)) - 1
  BY CharsType, FS_RemoveElement
<1>3. /\ IsFiniteSet(S)
      /\ Cardinality(S) <= Cardinality(Chars(t) \ {ch})
  BY <1>1, <1>2, FS_Subset
<1>4. Cardinality(S) \in Nat
  BY <1>3, FS_CardinalityType
<1> HIDE DEF S
<1>5. QED
  BY <1>2, <1>3, <1>4, CharsType DEF Stoi, S

\* A text and the sequence of its tokens.
LEMMA EncodeType ==
    ASSUME NEW t \in Seq(Char)
    PROVE  /\ Len(t) \in Nat
           /\ Encode(t) \in Seq(Nat)
           /\ Len(Encode(t)) = Len(t)
           /\ \A i \in 1..Len(t) : Encode(t)[i] < Cardinality(Chars(t))
<1>1. Len(t) \in Nat /\ \A i \in 1..Len(t) : t[i] \in Chars(t)
  BY LenProperties DEF Chars, ToSet
<1>2. \A i \in 1..Len(t) : Stoi(t, t[i]) \in Nat /\ Stoi(t, t[i]) < Cardinality(Chars(t))
  BY <1>1, StoiType
<1>3. Encode(t) \in Seq(Nat) /\ Len(Encode(t)) = Len(t)
  BY <1>1, <1>2 DEF Encode
<1>4. QED
  BY <1>1, <1>2, <1>3 DEF Encode

\* Both halves are tokens of the vocabulary.
LEMMA HalfType ==
    ASSUME NEW t \in Seq(Char), NEW s \in Split
    PROVE  /\ Half(t, s) \in Seq(Nat)
           /\ Len(Half(t, s)) \in Nat
           /\ \A i \in 1..Len(Half(t, s)) : Half(t, s)[i] < Cardinality(Chars(t))
           /\ Half(t, s) # <<>> => Chars(t) # {}
<1> DEFINE cut == (9 * Len(t)) \div 10
           e   == Encode(t)
<1>1. /\ Len(t) \in Nat
      /\ cut \in 0..Len(t)
      /\ e \in Seq(Nat)
      /\ \A i \in 1..Len(t) : e[i] \in Nat /\ e[i] < Cardinality(Chars(t))
  BY EncodeType, LenProperties
<1> HIDE DEF cut, e
<1>2. \A m \in 1..(Len(t) + 1), n \in 0..Len(t) :
         /\ SubSeq(e, m, n) \in Seq(Nat)
         /\ Len(SubSeq(e, m, n)) \in Nat
         /\ \A i \in 1..Len(SubSeq(e, m, n)) : SubSeq(e, m, n)[i] < Cardinality(Chars(t))
         /\ SubSeq(e, m, n) # <<>> => Len(t) > 0
  <2> SUFFICES ASSUME NEW m \in 1..(Len(t) + 1), NEW n \in 0..Len(t)
               PROVE  /\ SubSeq(e, m, n) \in Seq(Nat)
                      /\ Len(SubSeq(e, m, n)) \in Nat
                      /\ \A i \in 1..Len(SubSeq(e, m, n)) :
                            SubSeq(e, m, n)[i] < Cardinality(Chars(t))
                      /\ SubSeq(e, m, n) # <<>> => Len(t) > 0
    OBVIOUS
  <2>1. \A i \in m..n : e[i] \in Nat
    BY <1>1
  <2>2. /\ SubSeq(e, m, n) \in Seq(Nat)
        /\ Len(SubSeq(e, m, n)) = IF m <= n THEN n - m + 1 ELSE 0
        /\ \A i \in 1..(n - m + 1) : SubSeq(e, m, n)[i] = e[m + i - 1]
    BY <1>1, <2>1, SubSeqProperties
  <2>3. \A i \in 1..Len(SubSeq(e, m, n)) : m + i - 1 \in 1..Len(t) /\ i \in 1..(n - m + 1)
    BY <1>1, <2>2
  <2>4. SubSeq(e, m, n) # <<>> => Len(t) > 0
    BY <1>1, <2>2, SubSeqEmpty
  <2>5. QED
    BY <1>1, <2>2, <2>3, <2>4
<1>3. Len(t) > 0 => Chars(t) # {}
  <2>1. DOMAIN t = 1..Len(t)
    BY LenProperties
  <2>2. Len(t) > 0 => t[1] \in Chars(t)
    BY <1>1, <2>1 DEF Chars, ToSet
  <2>3. QED
    BY <2>2
<1>4. Half(t, s) = SubSeq(e, 1, cut) \/ Half(t, s) = SubSeq(e, cut + 1, Len(t))
  BY DEF Half, cut, e
<1>5. /\ 1 \in 1..(Len(t) + 1)
      /\ cut + 1 \in 1..(Len(t) + 1)
      /\ cut \in 0..Len(t)
      /\ Len(t) \in 0..Len(t)
  BY <1>1
<1>6. CASE Half(t, s) = SubSeq(e, 1, cut)
  BY <1>2, <1>3, <1>5, <1>6
<1>7. CASE Half(t, s) = SubSeq(e, cut + 1, Len(t))
  BY <1>2, <1>3, <1>5, <1>7
<1>8. QED
  BY <1>4, <1>6, <1>7

-----------------------------------------------------------------------------
(* Files that are being written *)

\* The elements of a prefix.
LEMMA PrefixElements ==
    ASSUME NEW b \in Seq(Nat), NEW h \in Seq(Nat), IsPrefix(b, h)
    PROVE  /\ Len(b) <= Len(h)
           /\ \A i \in 1..Len(b) : i \in 1..Len(h) /\ b[i] = h[i]
<1>1. /\ Len(b) \in Nat
      /\ Len(h) \in Nat
      /\ Len(b) <= Len(h)
      /\ SubSeq(b, 1, Len(b)) = SubSeq(h, 1, Len(b))
  BY LenProperties DEF IsPrefix
<1>2. \A i \in 1..Len(b) : b[i] \in Nat /\ h[i] \in Nat
  BY <1>1, LenProperties
<1>3. \A i \in 1..(Len(b) - 1 + 1) : SubSeq(b, 1, Len(b))[i] = b[1 + i - 1]
  BY <1>1, <1>2, SubSeqProperties
<1>4. \A i \in 1..(Len(b) - 1 + 1) : SubSeq(h, 1, Len(b))[i] = h[1 + i - 1]
  BY <1>1, <1>2, SubSeqProperties
<1>5. QED
  BY <1>1, <1>3, <1>4

\* A file that grows is a prefix of what is written.
LEMMA GrownIsPrefix ==
    ASSUME NEW S, NEW b \in Seq(S), NEW h \in Seq(S)
    PROVE  Grown(b, h) \in Seq(S) /\ IsPrefix(Grown(b, h), h)
<1> DEFINE k == IF Len(b) + Chunk < Len(h) THEN Len(b) + Chunk ELSE Len(h)
<1>1. k \in 0..Len(h) /\ Len(h) \in Nat
  BY LenProperties, DatasetAssumption
<1> HIDE DEF k
<1>2. \A i \in 1..k : h[i] \in S
  BY <1>1, LenProperties
<1> DEFINE g == SubSeq(h, 1, k)
<1>3. /\ g \in Seq(S)
      /\ Len(g) = k
      /\ \A i \in 1..k : g[i] = h[i]
  BY <1>1, <1>2, SubSeqProperties
<1> HIDE DEF g
<1>4. SubSeq(g, 1, k) = g
  <2>1. \A i \in 1..k : g[i] \in S
    BY <1>2, <1>3
  <2>2. /\ SubSeq(g, 1, k) \in Seq(S)
        /\ Len(SubSeq(g, 1, k)) = k
        /\ \A i \in 1..k : SubSeq(g, 1, k)[i] = g[i]
    BY <1>1, <2>1, SubSeqProperties
  <2>3. QED
    BY <1>3, <2>2, SeqEqual
<1>5. IsPrefix(g, h)
  BY <1>1, <1>3, <1>4 DEF IsPrefix, g
<1>6. Grown(b, h) = g
  BY DEF Grown, g, k
<1>7. QED
  BY <1>3, <1>5, <1>6

-----------------------------------------------------------------------------
(* The invariant *)

\* The text is on disk, and stays as it is.
Frozen == "input" \in has /\ pc # "input"

\* The preparation works on the text that is on disk, and before there is one
\* nothing has been derived from it.
FileInv ==
    /\ pc \in {"meta", "dump", "open train", "train", "open val", "val"} => text = input
    /\ pc # "start" => "input" \in has
    /\ ~Frozen => meta.state = "absent" /\ \A s \in Split : bin[s] = <<>>
    /\ FilesAgree

\* A trainer has the vocabulary of the text on disk, or one that has room for any,
\* and maps of a text that is not empty.
ReaderInv ==
    /\ reader.pc = "start" => x = <<>> /\ y = <<>>
    /\ reader.pc = "map" => \/ reader.vocab = DefaultVocab
                            \/ Frozen /\ reader.vocab = Cardinality(Chars(input))
    /\ \A s \in Split : reader.len[s] > 0 => Frozen /\ Chars(input) # {}
    /\ TokensInVocabulary
    /\ TargetsFollow

IInv == DatasetTypeOK /\ FileInv /\ ReaderInv

\* Nothing is on disk, and no trainer has started.
LEMMA InitInv == Init => IInv
<1> SUFFICES ASSUME Init PROVE IInv
  OBVIOUS
<1>1. <<>> \in Seq(Char) /\ <<>> \in Seq(Nat) /\ DOMAIN <<>> = {}
  OBVIOUS
<1>2. DatasetTypeOK
  BY <1>1 DEF Init, DatasetTypeOK, Split
<1>3. FileInv
  BY DEF Init, FileInv, Frozen, FilesAgree
<1>4. ReaderInv
  BY <1>1 DEF Init, ReaderInv, TokensInVocabulary, TargetsFollow, Split
<1>5. QED
  BY <1>2, <1>3, <1>4 DEF IInv

\* What a trainer knows survives a step of the preparation that leaves a frozen
\* text as it is.
LEMMA ReaderKept ==
    ASSUME ReaderInv, UNCHANGED readVars, Frozen => Frozen' /\ input' = input
    PROVE  ReaderInv'
<1>1. reader' = reader /\ x' = x /\ y' = y
  BY DEF readVars
<1>2. TokensInVocabulary' /\ TargetsFollow'
  BY <1>1 DEF ReaderInv, TokensInVocabulary, TargetsFollow
<1>3. Frozen => Chars(input') = Chars(input)
  OBVIOUS
<1>4. reader'.pc = "map" => \/ reader'.vocab = DefaultVocab
                            \/ Frozen' /\ reader'.vocab = Cardinality(Chars(input'))
  BY <1>1, <1>3 DEF ReaderInv
<1>5. \A s \in Split : reader'.len[s] > 0 => Frozen' /\ Chars(input') # {}
  BY <1>1, <1>3 DEF ReaderInv
<1>6. QED
  BY <1>1, <1>2, <1>4, <1>5 DEF ReaderInv

\* The preparation keeps the invariant.
LEMMA PrepareKeeps == ASSUME IInv, Prepare PROVE IInv'
<1> USE DEF IInv
<1>1. CASE DownloadShakespeare
  <2>1. DatasetTypeOK'
    <3>1. <<>> \in Seq(Char) /\ Texts \subseteq Seq(Char)
      BY DatasetAssumption
    <3>2. /\ text' \in Seq(Char)
          /\ input' \in Seq(Char)
          /\ has' \subseteq {"input"} \cup Split
          /\ pc' \in {"input", "read"}
      BY <1>1, <3>1 DEF DownloadShakespeare, DatasetTypeOK
    <3>3. UNCHANGED <<meta, bin, reader, x, y, crashes, runs>>
      BY <1>1 DEF DownloadShakespeare, readVars
    <3>4. QED
      BY <3>2, <3>3 DEF DatasetTypeOK
  <2>2. FileInv'
    BY <1>1 DEF DownloadShakespeare, FileInv, Frozen, FilesAgree, Downloads
  <2>3. ReaderInv'
    BY <1>1, ReaderKept DEF DownloadShakespeare, FileInv, Frozen, Downloads
  <2>4. QED
    BY <2>1, <2>2, <2>3
<1>2. CASE WriteInput
  <2>1. input' \in Seq(Char)
    BY <1>2, GrownIsPrefix DEF WriteInput, DatasetTypeOK
  <2>2. DatasetTypeOK'
    BY <1>2, <2>1 DEF WriteInput, DatasetTypeOK, readVars, Split
  <2>3. FileInv'
    BY <1>2 DEF WriteInput, FileInv, Frozen, FilesAgree
  <2>4. ReaderInv'
    BY <1>2, ReaderKept DEF WriteInput, Frozen
  <2>5. QED
    BY <2>2, <2>3, <2>4
<1>3. CASE ReadText
  <2>1. DatasetTypeOK'
    BY <1>3 DEF ReadText, DatasetTypeOK, readVars, Split
  <2>2. FileInv'
    BY <1>3 DEF ReadText, FileInv, Frozen, FilesAgree
  <2>3. ReaderInv'
    BY <1>3, ReaderKept DEF ReadText, Frozen
  <2>4. QED
    BY <2>1, <2>2, <2>3
<1>4. CASE SaveMeta
  <2>1. Chars(text) \in SUBSET Char
    BY CharsType DEF DatasetTypeOK
  <2>2. UNCHANGED <<text, has, input, bin, reader, x, y, crashes, runs>>
    BY <1>4 DEF SaveMeta, readVars
  <2>3. /\ pc \in {"meta", "dump"}
        /\ pc' \in {"dump", "open train"}
        /\ \/ meta' = [state |-> "torn", chars |-> {}]
           \/ meta' = [state |-> "whole", chars |-> Chars(text)]
    BY <1>4 DEF SaveMeta
  <2>4. DatasetTypeOK'
    <3>1. meta' \in [state : {"absent", "torn", "whole"}, chars : SUBSET Char]
      <4>1. CASE meta' = [state |-> "torn", chars |-> {}]
        BY <4>1
      <4>2. CASE meta' = [state |-> "whole", chars |-> Chars(text)]
        BY <2>1, <4>2
      <4>3. QED
        BY <2>3, <4>1, <4>2
    <3>2. QED
      BY <2>2, <2>3, <3>1 DEF DatasetTypeOK
  <2>5. text = input /\ "input" \in has
    BY <2>3 DEF FileInv
  <2>6. FilesAgree'
    <3>1. meta'.state = "whole" => meta'.chars = Chars(text)
      <4>1. CASE meta' = [state |-> "torn", chars |-> {}]
        BY <4>1
      <4>2. CASE meta' = [state |-> "whole", chars |-> Chars(text)]
        BY <4>2
      <4>3. QED
        BY <2>3, <4>1, <4>2
    <3>2. QED
      BY <2>2, <2>5, <3>1 DEF FileInv, FilesAgree
  <2>7. FileInv'
    BY <2>2, <2>3, <2>5, <2>6 DEF FileInv, Frozen
  <2>8. ReaderInv'
    BY <1>4, ReaderKept DEF SaveMeta, Frozen
  <2>9. QED
    BY <2>4, <2>7, <2>8
<1>5. ASSUME NEW s \in Split, OpenBin(s) PROVE IInv'
  <2>1. pc \in {"open train", "open val"} /\ s \in {"train", "val"}
    BY <1>5 DEF OpenBin, Split
  <2>2. \A r \in Split : bin'[r] = IF r = s THEN <<>> ELSE bin[r]
    BY <1>5 DEF OpenBin, DatasetTypeOK
  <2>3. DatasetTypeOK'
    <3>1. <<>> \in Seq(Nat)
      OBVIOUS
    <3>2. bin' \in [Split -> Seq(Nat)]
      BY <1>5, <3>1 DEF OpenBin, DatasetTypeOK
    <3>3. pc' \in {"train", "val"} /\ has' \subseteq {"input"} \cup Split
      BY <1>5, <2>1 DEF OpenBin, DatasetTypeOK
    <3>4. UNCHANGED <<text, input, meta, reader, x, y, crashes, runs>>
      BY <1>5 DEF OpenBin, readVars
    <3>5. QED
      BY <3>2, <3>3, <3>4 DEF DatasetTypeOK
  <2>4. FileInv'
    BY <1>5, <2>1, <2>2 DEF OpenBin, FileInv, Frozen, FilesAgree
  <2>5. ReaderInv'
    BY <1>5, <2>1, ReaderKept DEF OpenBin, Frozen
  <2>6. QED
    BY <2>3, <2>4, <2>5
<1>6. ASSUME NEW s \in Split, WriteBin(s) PROVE IInv'
  <2> DEFINE h == Half(input, s)
  <2>1. /\ pc = s
        /\ pc \in {"train", "val"}
        /\ text = input
        /\ "input" \in has
    BY <1>6 DEF WriteBin, Split, FileInv
  <2>2. /\ Grown(bin[s], h) \in Seq(Nat)
        /\ IsPrefix(Grown(bin[s], h), h)
    BY GrownIsPrefix, HalfType DEF DatasetTypeOK
  <2>3. \/ bin' = bin
        \/ bin' = [bin EXCEPT ![s] = Grown(bin[s], h)]
    BY <1>6, <2>1 DEF WriteBin
  <2> HIDE DEF h
  <2>4. \A r \in Split : bin'[r] = bin[r] \/ (r = s /\ bin'[r] = Grown(bin[s], h))
    BY <2>3 DEF DatasetTypeOK
  <2>5. bin' \in [Split -> Seq(Nat)]
    BY <2>2, <2>3 DEF DatasetTypeOK
  <2>6. /\ pc' \in {"train", "val", "open val", "done"}
        /\ runs' \in Nat
        /\ UNCHANGED <<text, has, input, meta, reader, x, y, crashes>>
    <3>1. UNCHANGED <<text, has, input, meta, reader, x, y, crashes>>
      BY <1>6 DEF WriteBin, readVars
    <3>2. CASE Len(bin[s]) < Len(Half(text, s))
      BY <1>6, <2>1, <3>1, <3>2 DEF WriteBin, DatasetTypeOK
    <3>3. CASE ~(Len(bin[s]) < Len(Half(text, s)))
      <4>1. /\ pc' = IF s = "train" THEN "open val" ELSE "done"
            /\ runs' = IF s = "train" THEN runs ELSE runs + 1
        BY <1>6, <3>3 DEF WriteBin
      <4>2. pc' \in {"train", "val", "open val", "done"}
        BY <4>1
      <4>3. runs' \in Nat
        <5>1. runs \in Nat
          BY DEF DatasetTypeOK
        <5>2. runs + 1 \in Nat
          BY <5>1
        <5>3. runs' = runs \/ runs' = runs + 1
          BY <4>1
        <5>4. QED
          BY <5>1, <5>2, <5>3
      <4>4. QED
        BY <3>1, <4>2, <4>3
    <3>4. QED
      BY <3>2, <3>3
  <2>7. DatasetTypeOK'
    BY <2>5, <2>6 DEF DatasetTypeOK
  <2>8. FilesAgree'
    <3>1. \A r \in Split : bin'[r] # <<>> => IsPrefix(bin'[r], Half(input, r))
      BY <2>2, <2>4 DEF FileInv, FilesAgree, h
    <3>2. QED
      BY <2>6, <3>1 DEF FileInv, FilesAgree
  <2>9. FileInv'
    BY <2>1, <2>6, <2>8 DEF FileInv, Frozen
  <2>10. ReaderInv'
    BY <2>1, <2>6, ReaderKept DEF Frozen, readVars
  <2>11. QED
    BY <2>7, <2>9, <2>10
<1>7. QED
  BY <1>1, <1>2, <1>3, <1>4, <1>5, <1>6 DEF Prepare

\* A text that was being written when its writer is killed stays as it is.
LEMMA RestartKeeps == ASSUME IInv, Crash \/ RunAgain PROVE IInv'
<1> USE DEF IInv
<1>1. /\ pc' = "start"
      /\ text' = <<>>
      /\ crashes' \in {crashes, crashes + 1}
      /\ UNCHANGED <<has, input, meta, bin, reader, x, y, runs>>
  BY DEF Crash, RunAgain, readVars
<1>2. DatasetTypeOK'
  <2>1. <<>> \in Seq(Char)
    OBVIOUS
  <2>2. crashes' \in Nat
    <3>1. crashes \in Nat
      BY DEF DatasetTypeOK
    <3>2. QED
      BY <1>1, <3>1
  <2>3. QED
    BY <1>1, <2>1, <2>2 DEF DatasetTypeOK
<1>3. FileInv'
  BY <1>1 DEF FileInv, Frozen, FilesAgree
<1>4. ReaderInv'
  BY <1>1, ReaderKept DEF Frozen, readVars
<1>5. QED
  BY <1>2, <1>3, <1>4

\* What a trainer does leaves the files as they are.
LEMMA FilesKept ==
    ASSUME FileInv, UNCHANGED prepVars
    PROVE  FileInv' /\ (Frozen' <=> Frozen) /\ input' = input
BY DEF FileInv, Frozen, FilesAgree, prepVars

\* A function on an interval that begins at one is a sequence.
LEMMA IntervalSequence ==
    ASSUME NEW n \in Nat, NEW f \in [1..n -> Nat]
    PROVE  f \in Seq(Nat) /\ Len(f) = n
OBVIOUS

\* What a trainer that has its vocabulary may read: numbers below its size.
LEMMA DataType ==
    ASSUME IInv, NEW s \in Split, reader.pc = "map", reader.len[s] > 0
    PROVE  /\ reader.len[s] \in Nat
           /\ Data(s) \in Seq(Nat)
           /\ Len(Data(s)) = reader.len[s]
           /\ \A k \in 1..reader.len[s] : Data(s)[k] < reader.vocab
<1> USE DEF IInv
<1> DEFINE n == reader.len[s]
<1>1. /\ n \in Nat
      /\ reader.vocab \in Nat
      /\ bin[s] \in Seq(Nat)
      /\ Len(bin[s]) \in Nat
      /\ input \in Seq(Char)
  BY LenProperties DEF DatasetTypeOK
<1>2. /\ IsFiniteSet(Chars(input))
      /\ Cardinality(Chars(input)) \in Nat
      /\ Cardinality(Chars(input)) < DefaultVocab
  BY <1>1, CharsType
<1>3. 0 < Cardinality(Chars(input))
  <2>1. Chars(input) # {}
    BY DEF ReaderInv
  <2>2. QED
    BY <1>2, <2>1, FS_EmptySet
<1>4. Cardinality(Chars(input)) <= reader.vocab
  BY <1>1, <1>2, DatasetAssumption DEF ReaderInv
<1>5. \A k \in 1..Len(bin[s]) : bin[s][k] \in Nat /\ bin[s][k] < reader.vocab
  <2> SUFFICES ASSUME NEW k \in 1..Len(bin[s])
               PROVE  bin[s][k] \in Nat /\ bin[s][k] < reader.vocab
    OBVIOUS
  <2>1. bin[s] # <<>>
    BY <1>1
  <2>2. IsPrefix(bin[s], Half(input, s))
    BY <2>1 DEF FileInv, FilesAgree
  <2>3. k \in 1..Len(Half(input, s)) /\ bin[s][k] = Half(input, s)[k]
    BY <1>1, <2>2, HalfType, PrefixElements
  <2>4. bin[s][k] < Cardinality(Chars(input))
    BY <1>1, <2>3, HalfType
  <2>5. bin[s][k] \in Nat
    BY <1>1, LenProperties
  <2>6. QED
    BY <1>1, <1>2, <1>4, <2>4, <2>5
<1>6. \A k \in 1..n : (IF k <= Len(bin[s]) THEN bin[s][k] ELSE 0) \in 0..(reader.vocab - 1)
  BY <1>1, <1>2, <1>3, <1>4, <1>5
<1>7. Data(s) \in Seq(Nat) /\ Len(Data(s)) = n
  <2>1. \A k \in 1..n : (IF k <= Len(bin[s]) THEN bin[s][k] ELSE 0) \in Nat
    BY <1>1, <1>6
  <2>2. Data(s) \in [1..n -> Nat]
    BY <2>1 DEF Data
  <2>3. QED
    BY <1>1, <2>2, IntervalSequence
<1>8. QED
  BY <1>1, <1>6, <1>7, SMTT(30) DEF Data

\* A window that lies inside the array.
LEMMA SliceType ==
    ASSUME NEW d \in Seq(Nat), NEW i \in Nat, NEW n \in Nat, 0 < n, i + n <= Len(d)
    PROVE  /\ Slice(d, i, i + n) \in Seq(Nat)
           /\ Len(Slice(d, i, i + n)) = n
           /\ \A k \in 1..n : Slice(d, i, i + n)[k] = d[i + k]
<1>1. Len(d) \in Nat /\ \A k \in 1..Len(d) : d[k] \in Nat
  BY LenProperties
<1>2. Slice(d, i, i + n) = SubSeq(d, i + 1, i + n)
  <2>1. (IF i + n < Len(d) THEN i + n ELSE Len(d)) = i + n
    BY <1>1
  <2>2. QED
    BY <2>1 DEF Slice
<1>3. \A k \in (i + 1)..(i + n) : d[k] \in Nat
  BY <1>1
<1>4. /\ SubSeq(d, i + 1, i + n) \in Seq(Nat)
      /\ Len(SubSeq(d, i + 1, i + n)) = IF i + 1 <= i + n THEN (i + n) - (i + 1) + 1 ELSE 0
      /\ \A k \in 1..((i + n) - (i + 1) + 1) :
            SubSeq(d, i + 1, i + n)[k] = d[(i + 1) + k - 1]
  BY <1>3, SubSeqProperties
<1>5. /\ i + 1 <= i + n
      /\ (i + n) - (i + 1) + 1 = n
      /\ \A k \in 1..n : (i + 1) + k - 1 = i + k
  OBVIOUS
<1>6. /\ Len(Slice(d, i, i + n)) = n
      /\ Slice(d, i, i + n) \in Seq(Nat)
  BY <1>2, <1>4, <1>5
<1>7. \A k \in 1..n : Slice(d, i, i + n)[k] = d[i + k]
  BY <1>2, <1>4, <1>5
<1>8. QED
  BY <1>6, <1>7

\* A batch that starts where get_batch lets it start lies inside the array, and
\* so do its targets.
LEMMA StartFits ==
    ASSUME NEW n \in Nat, NEW i \in Starts(n)
    PROVE  /\ i \in Nat
           /\ i + 1 \in Nat
           /\ i + BlockSize <= n
           /\ i + 1 + BlockSize <= n
<1>1. BlockSize \in Nat /\ i \in 0 .. (n - BlockSize - 1)
  BY DatasetAssumption DEF Starts
<1>2. QED
  BY <1>1

\* A block of the array is as long as a block.
LEMMA BlockType ==
    ASSUME NEW d \in Seq(Nat), NEW i \in Nat, i + BlockSize <= Len(d)
    PROVE  /\ Slice(d, i, i + BlockSize) \in Seq(Nat)
           /\ Len(Slice(d, i, i + BlockSize)) = BlockSize
           /\ \A k \in 1..BlockSize : Slice(d, i, i + BlockSize)[k] = d[i + k]
<1>1. BlockSize \in Nat /\ 0 < BlockSize
  BY DatasetAssumption
<1>2. QED
  BY <1>1, SliceType

\* A window and its targets are tokens of the vocabulary, the targets one on.
LEMMA GetBatchKeeps ==
    ASSUME IInv, NEW s \in Split, GetBatch(s)
    PROVE  IInv'
<1> USE DEF IInv
<1>1. reader.pc = "map" /\ reader.len[s] > 0 /\ UNCHANGED <<prepVars, crashes, runs>>
  BY DEF GetBatch
<1>2. FileInv' /\ (Frozen' <=> Frozen) /\ input' = input
  BY <1>1, FilesKept
<1>3. CASE Starts(reader.len[s]) = {}
  <2>1. reader' = [reader EXCEPT !.pc = "failed"] /\ UNCHANGED <<x, y>>
    BY <1>3 DEF GetBatch
  <2>2. /\ reader' \in [pc : {"start", "map", "failed"}, vocab : Nat, len : [Split -> Nat]]
        /\ reader'.pc = "failed" /\ reader'.vocab = reader.vocab /\ reader'.len = reader.len
    BY <2>1 DEF DatasetTypeOK
  <2>3. DatasetTypeOK'
    BY <1>1, <2>1, <2>2 DEF DatasetTypeOK, prepVars
  <2>4. ReaderInv'
    BY <1>2, <2>1, <2>2 DEF ReaderInv, TokensInVocabulary, TargetsFollow
  <2>5. QED
    BY <1>2, <2>3, <2>4
<1>4. CASE Starts(reader.len[s]) # {}
  <2> DEFINE d == Data(s)
  <2>1. PICK i \in Starts(reader.len[s]) :
            /\ x' = Slice(d, i, i + BlockSize)
            /\ y' = Slice(d, i + 1, i + 1 + BlockSize)
            /\ UNCHANGED reader
    BY <1>4 DEF GetBatch
  <2>2. /\ d \in Seq(Nat)
        /\ Len(d) \in Nat
        /\ Len(d) = reader.len[s]
        /\ \A k \in 1..Len(d) : d[k] < reader.vocab
    BY <1>1, DataType
  <2> HIDE DEF d
  <2>3. BlockSize \in Nat /\ BlockSize > 0
    BY DatasetAssumption
  <2>4. /\ i \in Nat
        /\ i + 1 \in Nat
        /\ i + BlockSize <= Len(d)
        /\ i + 1 + BlockSize <= Len(d)
    BY <2>2, <2>3, StartFits
  <2>5. /\ x' \in Seq(Nat)
        /\ Len(x') = BlockSize
        /\ \A k \in 1..BlockSize : x'[k] = d[i + k]
    BY <2>1, <2>2, <2>3, <2>4, BlockType
  <2>6. /\ y' \in Seq(Nat)
        /\ Len(y') = BlockSize
        /\ \A k \in 1..BlockSize : y'[k] = d[i + 1 + k]
    BY <2>1, <2>2, <2>3, <2>4, BlockType
  <2>7. DatasetTypeOK'
    BY <1>1, <2>1, <2>5, <2>6 DEF DatasetTypeOK, prepVars
  <2>8. DOMAIN x' = 1..BlockSize /\ DOMAIN y' = 1..BlockSize
    BY <2>5, <2>6, LenProperties
  <2>9. TokensInVocabulary'
    <3>1. \A k \in 1..BlockSize : i + k \in 1..Len(d) /\ i + 1 + k \in 1..Len(d)
      BY <2>2, <2>3, <2>4
    <3>2. \A k \in 1..BlockSize : x'[k] < reader.vocab /\ y'[k] < reader.vocab
      BY <2>2, <2>5, <2>6, <3>1
    <3>3. reader' = reader
      BY <2>1
    <3>4. QED
      BY <2>8, <3>2, <3>3 DEF TokensInVocabulary
  <2>10. TargetsFollow'
    <3>1. \A k \in 1..(BlockSize - 1) :
             /\ k \in 1..BlockSize
             /\ k + 1 \in 1..BlockSize
             /\ i + 1 + k = i + (k + 1)
      BY <2>3, <2>4
    <3>2. \A k \in 1..(BlockSize - 1) : y'[k] = x'[k + 1]
      BY <2>5, <2>6, <3>1
    <3>3. QED
      BY <2>5, <2>6, <3>2 DEF TargetsFollow
  <2>11. ReaderInv'
    BY <1>1, <1>2, <2>1, <2>9, <2>10 DEF ReaderInv
  <2>12. QED
    BY <1>2, <2>7, <2>11
<1>5. QED
  BY <1>3, <1>4

\* A trainer keeps the invariant.
LEMMA TrainKeeps == ASSUME IInv, Train PROVE IInv'
<1> USE DEF IInv
<1> DEFINE Readers == [pc : {"start", "map", "failed"}, vocab : Nat, len : [Split -> Nat]]
<1>1. ASSUME UNCHANGED <<x, y, prepVars, crashes, runs>>,
             reader' \in Readers,
             reader'.pc # "start",
             reader'.pc = "map" =>
                 \/ reader'.vocab = reader.vocab /\ reader.pc = "map"
                 \/ x = <<>> /\ y = <<>> /\ ( \/ reader'.vocab = DefaultVocab
                                              \/ Frozen /\ reader'.vocab = Cardinality(Chars(input))),
             TokensInVocabulary',
             \A s \in Split : reader'.len[s] > 0 => Frozen /\ Chars(input) # {}
      PROVE  IInv'
  <2>1. FileInv' /\ (Frozen' <=> Frozen) /\ input' = input
    BY <1>1, FilesKept
  <2>2. DatasetTypeOK'
    BY <1>1 DEF DatasetTypeOK, prepVars
  <2>3. TargetsFollow'
    BY <1>1 DEF ReaderInv, TargetsFollow
  <2>4. ReaderInv'
    BY <1>1, <2>1, <2>3 DEF ReaderInv
  <2>5. QED
    BY <2>1, <2>2, <2>4
<1>2. CASE ReadMeta
  <2>1. reader.pc = "start" /\ x = <<>> /\ y = <<>> /\ UNCHANGED <<x, y, prepVars, crashes, runs>>
    BY <1>2 DEF ReadMeta, ReaderInv
  <2>2. TokensInVocabulary'
    BY <2>1 DEF TokensInVocabulary
  <2>3. reader \in Readers /\ meta.state \in {"absent", "torn", "whole"}
    BY DEF DatasetTypeOK
  <2>4. \A s \in Split : reader.len[s] > 0 => Frozen /\ Chars(input) # {}
    BY DEF ReaderInv
  <2>5. CASE meta.state = "absent"
    <3>1. reader' = [reader EXCEPT !.pc = "map", !.vocab = DefaultVocab]
      BY <1>2, <2>5 DEF ReadMeta
    <3>2. /\ reader' \in Readers
          /\ reader'.pc = "map"
          /\ reader'.vocab = DefaultVocab
          /\ reader'.len = reader.len
      BY <2>3, <3>1, DatasetAssumption
    <3>3. QED
      BY <1>1, <2>1, <2>2, <2>4, <3>2
  <2>6. CASE meta.state = "torn"
    <3>1. reader' = [reader EXCEPT !.pc = "failed"]
      BY <1>2, <2>6 DEF ReadMeta
    <3>2. reader' \in Readers /\ reader'.pc = "failed" /\ reader'.len = reader.len
      BY <2>3, <3>1
    <3>3. QED
      BY <1>1, <2>1, <2>2, <2>4, <3>2
  <2>7. CASE meta.state = "whole"
    <3>1. reader' = [reader EXCEPT !.pc = "map", !.vocab = Cardinality(meta.chars)]
      BY <1>2, <2>7 DEF ReadMeta
    <3>2. Frozen /\ meta.chars = Chars(input)
      BY <2>7 DEF FileInv, FilesAgree
    <3>3. Cardinality(Chars(input)) \in Nat
      BY CharsType DEF DatasetTypeOK
    <3>4. /\ reader' \in Readers
          /\ reader'.pc = "map"
          /\ reader'.vocab = Cardinality(Chars(input))
          /\ reader'.len = reader.len
      BY <2>3, <3>1, <3>2, <3>3
    <3>5. QED
      BY <1>1, <2>1, <2>2, <2>4, <3>2, <3>4
  <2>8. QED
    BY <2>3, <2>5, <2>6, <2>7
<1>3. ASSUME NEW s \in Split, MapSplit(s) PROVE IInv'
  <2>1. reader.pc = "map" /\ UNCHANGED <<x, y, prepVars, crashes, runs>> /\ reader \in Readers
    BY <1>3 DEF MapSplit, DatasetTypeOK
  <2>2. \A r \in Split : reader.len[r] > 0 => Frozen /\ Chars(input) # {}
    BY DEF ReaderInv
  <2>3. CASE s \in has /\ bin[s] # <<>>
    <3>1. reader' = [reader EXCEPT !.len[s] = Len(bin[s])]
      BY <1>3, <2>3 DEF MapSplit
    <3>2. bin[s] \in Seq(Nat) /\ Len(bin[s]) \in Nat /\ Len(bin[s]) > 0
      <4>1. bin[s] \in Seq(Nat)
        BY DEF DatasetTypeOK
      <4>2. QED
        BY <2>3, <4>1
    <3>3. /\ reader' \in Readers
          /\ reader'.pc = "map"
          /\ reader'.vocab = reader.vocab
          /\ \A r \in Split : reader'.len[r] = IF r = s THEN Len(bin[s]) ELSE reader.len[r]
      BY <2>1, <3>1, <3>2
    <3>4. Frozen /\ Chars(input) # {}
      <4>1. Frozen /\ IsPrefix(bin[s], Half(input, s))
        BY <2>3 DEF FileInv, FilesAgree
      <4>2. input \in Seq(Char) /\ Half(input, s) \in Seq(Nat)
        BY HalfType DEF DatasetTypeOK
      <4>3. Len(bin[s]) <= Len(Half(input, s))
        BY <3>2, <4>1, <4>2, PrefixElements
      <4>4. Half(input, s) # <<>>
        BY <3>2, <4>3
      <4>5. QED
        BY <4>1, <4>2, <4>4, HalfType
    <3>5. TokensInVocabulary'
      BY <2>1, <3>3 DEF ReaderInv, TokensInVocabulary
    <3>6. QED
      BY <1>1, <2>1, <2>2, <3>3, <3>4, <3>5
  <2>4. CASE ~(s \in has /\ bin[s] # <<>>)
    <3>1. reader' = [reader EXCEPT !.pc = "failed"]
      BY <1>3, <2>4 DEF MapSplit
    <3>2. /\ reader' \in Readers
          /\ reader'.pc = "failed"
          /\ reader'.vocab = reader.vocab
          /\ reader'.len = reader.len
      BY <2>1, <3>1
    <3>3. TokensInVocabulary'
      BY <2>1, <3>2 DEF ReaderInv, TokensInVocabulary
    <3>4. QED
      BY <1>1, <2>1, <2>2, <3>2, <3>3
  <2>5. QED
    BY <2>3, <2>4
<1>4. ASSUME NEW s \in Split, GetBatch(s) PROVE IInv'
  BY <1>4, GetBatchKeeps
<1>5. CASE BusError
  <2>1. /\ reader' = [reader EXCEPT !.pc = "failed"]
        /\ reader \in Readers
        /\ UNCHANGED <<x, y, prepVars, crashes, runs>>
    BY <1>5 DEF BusError, DatasetTypeOK
  <2>2. /\ reader' \in Readers
        /\ reader'.pc = "failed"
        /\ reader'.vocab = reader.vocab
        /\ reader'.len = reader.len
    BY <2>1
  <2>3. TokensInVocabulary'
    BY <2>1, <2>2 DEF ReaderInv, TokensInVocabulary
  <2>4. \A r \in Split : reader.len[r] > 0 => Frozen /\ Chars(input) # {}
    BY DEF ReaderInv
  <2>5. QED
    BY <1>1, <2>1, <2>2, <2>3, <2>4
<1>6. QED
  BY <1>2, <1>3, <1>4, <1>5 DEF Train

\* Every step keeps the invariant, and so does none.
LEMMA NextKeeps == ASSUME IInv, [Next]_vars PROVE IInv'
<1>1. CASE Next
  BY <1>1, PrepareKeeps, RestartKeeps, TrainKeeps DEF Next
<1>2. CASE UNCHANGED vars
  <2>1. UNCHANGED prepVars /\ UNCHANGED readVars /\ UNCHANGED <<crashes, runs>>
    BY <1>2 DEF vars
  <2>2. FileInv' /\ ReaderInv'
    BY <2>1, FilesKept, ReaderKept DEF IInv
  <2>3. DatasetTypeOK'
    BY <2>1 DEF IInv, DatasetTypeOK, prepVars, readVars
  <2>4. QED
    BY <2>2, <2>3 DEF IInv
<1>3. QED
  BY <1>1, <1>2

-----------------------------------------------------------------------------
(* What a run that completed leaves *)

\* A half is whole before the next file is opened.
HalvesWhole ==
    /\ pc \in {"open val", "val", "done"} => bin["train"] = Half(input, "train")
    /\ pc = "done" => bin["val"] = Half(input, "val")

\* A prefix that is as long as the sequence is the sequence.
LEMMA WholePrefix ==
    ASSUME NEW b \in Seq(Nat), NEW h \in Seq(Nat), b # <<>> => IsPrefix(b, h),
           ~(Len(b) < Len(h))
    PROVE  b = h
<1>1. Len(b) \in Nat /\ Len(h) \in Nat
  BY LenProperties
<1>2. CASE b = <<>>
  <2>1. Len(h) = 0
    BY <1>1, <1>2
  <2>2. QED
    BY <1>2, <2>1
<1>3. CASE b # <<>>
  <2>1. Len(b) = Len(h) /\ \A i \in 1..Len(b) : b[i] = h[i]
    BY <1>1, <1>3, PrefixElements
  <2>2. QED
    BY <2>1, SeqEqual
<1>4. QED
  BY <1>2, <1>3

\* No step makes a half that is whole anything else, while its run goes on.
LEMMA WholeKeeps == ASSUME IInv, HalvesWhole, [Next]_vars PROVE HalvesWhole'
<1> USE DEF IInv
<1>1. CASE pc' \in {"start", "input", "read", "meta", "dump", "open train", "train"}
  BY <1>1 DEF HalvesWhole
<1>2. CASE UNCHANGED prepVars
  BY <1>2 DEF HalvesWhole, prepVars
<1>3. CASE pc' = "val" /\ OpenBin("val")
  BY <1>3 DEF OpenBin, HalvesWhole, DatasetTypeOK, Split
<1>4. ASSUME NEW s \in Split, WriteBin(s) PROVE HalvesWhole'
  <2>1. /\ pc = s
        /\ pc \in {"train", "val"}
        /\ text = input
        /\ UNCHANGED <<text, input>>
    BY <1>4 DEF WriteBin, Split, FileInv
  <2>2. CASE Len(bin[s]) < Len(Half(text, s))
    <3>1. bin' = [bin EXCEPT ![s] = Grown(bin[s], Half(text, s))] /\ pc' = pc
      BY <1>4, <2>2 DEF WriteBin
    <3>2. s # "train" => bin'["train"] = bin["train"]
      BY <3>1 DEF DatasetTypeOK, Split
    <3>3. QED
      BY <2>1, <3>1, <3>2 DEF HalvesWhole
  <2>3. CASE ~(Len(bin[s]) < Len(Half(text, s)))
    <3>1. /\ pc' = IF s = "train" THEN "open val" ELSE "done"
          /\ bin' = bin
      BY <1>4, <2>3 DEF WriteBin
    <3>2. bin[s] = Half(input, s)
      <4>1. bin[s] \in Seq(Nat) /\ Half(input, s) \in Seq(Nat)
        BY HalfType DEF DatasetTypeOK
      <4>2. bin[s] # <<>> => IsPrefix(bin[s], Half(input, s))
        BY DEF FileInv, FilesAgree
      <4>3. QED
        BY <2>1, <2>3, <4>1, <4>2, WholePrefix
    <3>3. QED
      BY <2>1, <3>1, <3>2 DEF HalvesWhole
  <2>4. QED
    BY <2>2, <2>3
<1>5. CASE Prepare
  <2>1. CASE DownloadShakespeare
    BY <1>1, <2>1 DEF DownloadShakespeare
  <2>2. CASE WriteInput
    BY <1>1, <2>2 DEF WriteInput
  <2>3. CASE ReadText
    BY <1>1, <2>3 DEF ReadText
  <2>4. CASE SaveMeta
    BY <1>1, <2>4 DEF SaveMeta
  <2>5. ASSUME NEW s \in Split, OpenBin(s) PROVE HalvesWhole'
    BY <1>1, <1>3, <2>5 DEF OpenBin, Split
  <2>6. QED
    BY <1>4, <1>5, <2>1, <2>2, <2>3, <2>4, <2>5 DEF Prepare
<1>6. CASE Crash \/ RunAgain
  BY <1>1, <1>6 DEF Crash, RunAgain
<1>7. CASE Train
  BY <1>2, <1>7 DEF Train, ReadMeta, MapSplit, GetBatch, BusError
<1>8. CASE UNCHANGED vars
  BY <1>2, <1>8 DEF vars
<1>9. QED
  BY <1>5, <1>6, <1>7, <1>8 DEF Next

\* Characters are numbered in their order.
LEMMA StoiIncreases ==
    ASSUME NEW t \in Seq(Char), NEW c \in Chars(t), NEW d \in Chars(t), c < d
    PROVE  Stoi(t, c) < Stoi(t, d)
<1> DEFINE C == {b \in Chars(t) : b < c}
           D == {b \in Chars(t) : b < d}
<1>1. Chars(t) \subseteq Nat /\ IsFiniteSet(Chars(t))
  BY CharsType
<1>2. /\ C \cup {c} \subseteq D
      /\ c \notin C
      /\ C \subseteq Chars(t) /\ D \subseteq Chars(t)
  BY <1>1
<1>3. IsFiniteSet(C) /\ IsFiniteSet(D)
  BY <1>1, <1>2, FS_Subset
<1> HIDE DEF C, D
<1>4. /\ IsFiniteSet(C \cup {c})
      /\ Cardinality(C \cup {c}) = Cardinality(C) + 1
  BY <1>2, <1>3, FS_AddElement
<1>5. Cardinality(C \cup {c}) <= Cardinality(D)
  BY <1>2, <1>3, FS_Subset
<1>6. Cardinality(C) \in Nat /\ Cardinality(D) \in Nat
  BY <1>3, FS_CardinalityType
<1>7. Cardinality(C) < Cardinality(D)
  BY <1>4, <1>5, <1>6
<1>8. QED
  BY <1>7 DEF Stoi, C, D

\* itos is the inverse of stoi.
LEMMA ItosInverse ==
    ASSUME NEW t \in Seq(Char), NEW c \in Chars(t)
    PROVE  Itos(t, Stoi(t, c)) = c
<1>1. Chars(t) \subseteq Nat
  BY CharsType
<1>2. ASSUME NEW d \in Chars(t), Stoi(t, d) = Stoi(t, c) PROVE d = c
  <2>1. Stoi(t, c) \in Nat
    BY StoiType
  <2>2. ~(c < d) /\ ~(d < c)
    BY <1>2, <2>1, StoiIncreases
  <2>3. QED
    BY <1>1, <2>2
<1>3. QED
  BY <1>2 DEF Itos

\* The two halves together are the tokens of the text.
LEMMA HalvesJoin ==
    ASSUME NEW t \in Seq(Char)
    PROVE  /\ Len(Half(t, "train") \o Half(t, "val")) = Len(t)
           /\ \A i \in 1..Len(t) : (Half(t, "train") \o Half(t, "val"))[i] = Stoi(t, t[i])
<1> DEFINE n   == Len(t)
           cut == (9 * n) \div 10
           e   == Encode(t)
           a   == SubSeq(e, 1, cut)
           b   == SubSeq(e, cut + 1, n)
<1>1. /\ n \in Nat
      /\ cut \in 0..n
      /\ e \in Seq(Nat) /\ Len(e) = n
      /\ \A i \in 1..n : e[i] \in Nat
      /\ \A i \in 1..n : e[i] = Stoi(t, t[i])
  BY EncodeType, LenProperties DEF Encode
<1>2. a = Half(t, "train") /\ b = Half(t, "val")
  BY DEF Half
<1> HIDE DEF cut, e, n
<1>3. /\ a \in Seq(Nat)
      /\ Len(a) = cut
      /\ \A i \in 1..cut : a[i] = e[i]
  <2>1. \A i \in 1..cut : e[i] \in Nat
    BY <1>1
  <2>2. /\ a \in Seq(Nat)
        /\ Len(a) = IF 1 <= cut THEN cut - 1 + 1 ELSE 0
        /\ \A i \in 1..(cut - 1 + 1) : a[i] = e[1 + i - 1]
    BY <1>1, <2>1, SubSeqProperties
  <2>3. QED
    BY <1>1, <2>2
<1>4. /\ b \in Seq(Nat)
      /\ Len(b) = n - cut
      /\ \A i \in 1..(n - cut) : b[i] = e[cut + i]
  <2>1. \A i \in (cut + 1)..n : e[i] \in Nat
    BY <1>1
  <2>2. /\ b \in Seq(Nat)
        /\ Len(b) = IF cut + 1 <= n THEN n - (cut + 1) + 1 ELSE 0
        /\ \A i \in 1..(n - (cut + 1) + 1) : b[i] = e[(cut + 1) + i - 1]
    BY <1>1, <2>1, SubSeqProperties
  <2>3. QED
    BY <1>1, <2>2
<1> HIDE DEF a, b
<1>5. /\ Len(a \o b) = Len(a) + Len(b)
      /\ \A i \in 1..(Len(a) + Len(b)) :
            (a \o b)[i] = IF i <= Len(a) THEN a[i] ELSE b[i - Len(a)]
  <2>1. a \in Seq(Nat) /\ b \in Seq(Nat)
    BY <1>3, <1>4
  <2>2. QED
    BY <2>1, ConcatProperties
<1>6. /\ Len(a) = cut /\ Len(b) = n - cut
      /\ Len(a) + Len(b) = n
  BY <1>1, <1>3, <1>4
<1> DEFINE ab == a \o b
<1>7. /\ Len(ab) = n
      /\ \A i \in 1..n : ab[i] = IF i <= cut THEN a[i] ELSE b[i - cut]
  BY <1>5, <1>6
<1> HIDE DEF ab
<1>8. ASSUME NEW i \in 1..n PROVE ab[i] = e[i]
  <2>1. CASE i <= cut
    <3>1. i \in 1..cut
      BY <1>1, <2>1
    <3>2. ab[i] = a[i]
      BY <1>7, <2>1
    <3>3. QED
      BY <1>3, <3>1, <3>2
  <2>2. CASE ~(i <= cut)
    <3>1. i - cut \in 1..(n - cut) /\ cut + (i - cut) = i
      BY <1>1, <2>2
    <3>2. ab[i] = b[i - cut]
      BY <1>7, <2>2
    <3>3. b[i - cut] = e[cut + (i - cut)]
      BY <1>4, <3>1
    <3>4. QED
      BY <3>1, <3>2, <3>3
  <2>3. QED
    BY <2>1, <2>2
<1>9. QED
  BY <1>1, <1>2, <1>7, <1>8 DEF n, ab

-----------------------------------------------------------------------------
(* The theorems *)

\* The invariant holds in every reachable state.
LEMMA Invariance == Spec => []IInv
<1>1. Init => IInv
  BY InitInv
<1>2. IInv /\ [Next]_vars => IInv'
  BY NextKeeps
<1>3. QED
  BY <1>1, <1>2, PTL DEF Spec

\* Every variable of prepare_shakespeare and of a trainer keeps its type.
THEOREM DatasetTypeCorrect == Spec => []DatasetTypeOK
<1>1. IInv => DatasetTypeOK
  BY DEF IInv
<1>2. QED
  BY <1>1, Invariance, PTL

\* Whenever prepare_shakespeare is killed and however often it is run again,
\* meta.pkl and the two halves are those of input.txt.
THEOREM FilesBelongTogether == Spec => []FilesAgree
<1>1. IInv => FilesAgree
  BY DEF IInv, FileInv
<1>2. QED
  BY <1>1, Invariance, PTL

\* get_batch returns no token the model that was built from meta.pkl, or without
\* one, has no embedding for.
THEOREM TokensHaveEmbedding == Spec => []TokensInVocabulary
<1>1. IInv => TokensInVocabulary
  BY DEF IInv, ReaderInv
<1>2. QED
  BY <1>1, Invariance, PTL

\* get_batch returns whole windows, and as their targets the same one token on,
\* wherever randint lets them begin.
THEOREM TargetsAreNext == Spec => []TargetsFollow
<1>1. IInv => TargetsFollow
  BY DEF IInv, ReaderInv
<1>2. QED
  BY <1>1, Invariance, PTL

\* A run of prepare_shakespeare that completes, whatever runs were killed before
\* it, leaves files that itos turns into input.txt again.
THEOREM CompletedRunsDecode == Spec => []RoundTrip
<1>1. Init => HalvesWhole
  BY DEF Init, HalvesWhole
<1>2. IInv /\ HalvesWhole /\ [Next]_vars => HalvesWhole'
  BY WholeKeeps
<1>3. IInv /\ HalvesWhole => RoundTrip
  <2> SUFFICES ASSUME IInv, HalvesWhole, pc = "done"
               PROVE  LET tokens == bin["train"] \o bin["val"] IN
                      /\ Len(tokens) = Len(input)
                      /\ \A i \in 1..Len(input) : Itos(input, tokens[i]) = input[i]
    BY DEF RoundTrip
  <2> DEFINE tokens == bin["train"] \o bin["val"]
  <2>1. input \in Seq(Char) /\ tokens = Half(input, "train") \o Half(input, "val")
    BY DEF IInv, DatasetTypeOK, HalvesWhole
  <2>2. /\ Len(tokens) = Len(input)
        /\ \A i \in 1..Len(input) : tokens[i] = Stoi(input, input[i])
    BY <2>1, HalvesJoin
  <2>3. \A i \in 1..Len(input) : input[i] \in Chars(input)
    BY <2>1, LenProperties DEF Chars, ToSet
  <2>4. QED
    BY <2>1, <2>2, <2>3, ItosInverse
<1>4. QED
  BY <1>1, <1>2, <1>3, Invariance, PTL DEF Spec

=============================================================================
