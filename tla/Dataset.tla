------------------------------ MODULE Dataset ------------------------------
(***************************************************************************)
(* The data the trainers read: prepare_shakespeare.py, which writes the    *)
(* text, its vocabulary and the two halves of its tokens, may crash        *)
(* between any two writes and is run again, and get_batch, which maps the  *)
(* tokens and cuts windows out of them, at any time.                       *)
(*                                                                         *)
(* A file grows by Chunk elements at a time.  The array and pickle         *)
(* libraries, and what the site answers, are the environment.              *)
(***************************************************************************)
EXTENDS Integers, Sequences, FiniteSets, SequencesExt

CONSTANTS
    Char,          \* characters, by their code points
    Texts,         \* what a download may answer
    BlockSize,     \* block_size
    Chunk,         \* what is written of a file at once
    DefaultVocab,  \* 50304, the vocabulary without a meta.pkl
    MaxCrashes,    \* bound: crashes in a behaviour
    MaxRuns        \* bound: completed runs in a behaviour

ASSUME DatasetAssumption ==
    /\ Char \subseteq Nat
    /\ IsFiniteSet(Char)
    /\ Texts \subseteq Seq(Char)
    /\ {BlockSize, Chunk} \subseteq Nat \ {0}
    /\ DefaultVocab \in Nat
    /\ DefaultVocab > Cardinality(Char)
    /\ {MaxCrashes, MaxRuns} \subseteq Nat

VARIABLES
    pc,       \* where prepare_shakespeare is
    text,     \* its text
    has,      \* the files that exist, of input.txt, train.bin and val.bin
    input,    \* input.txt
    meta,     \* meta.pkl, and the characters of its stoi and itos
    bin,      \* bin[s]: train.bin and val.bin
    reader,   \* a trainer: where it is, its vocab_size, the length of its maps
    x, y,     \* its last window, and the targets
    crashes,  \* bound: crashes so far
    runs      \* bound: completed runs so far

prepVars == <<pc, text, has, input, meta, bin>>
readVars == <<reader, x, y>>
vars == <<prepVars, readVars, crashes, runs>>

Split == {"train", "val"}

-----------------------------------------------------------------------------
(* The encoding *)

Chars(t) == ToSet(t)

\* Mutants: characters are numbered from one, or from below zero.
Stoi_FromOne(t, ch) == Cardinality({c \in Chars(t) : c <= ch})
Stoi_Below(t, ch) == Cardinality({c \in Chars(t) : c < ch}) - 1

\* chars = sorted(list(set(text))): a character's number is that of the
\* characters before it.
Stoi(t, ch) == Cardinality({c \in Chars(t) : c < ch})

Encode(t) == [i \in 1..Len(t) |-> Stoi(t, t[i])]

\* Mutant: the token between the halves is in neither.
Half_Gap(t, s) ==
    LET cut == (9 * Len(t)) \div 10 IN
    IF s = "train" THEN SubSeq(Encode(t), 1, cut) ELSE SubSeq(Encode(t), cut + 2, Len(t))

\* data[:int(n*0.9)] and data[int(n*0.9):]
Half(t, s) ==
    LET cut == (9 * Len(t)) \div 10 IN
    IF s = "train" THEN SubSeq(Encode(t), 1, cut) ELSE SubSeq(Encode(t), cut + 1, Len(t))

-----------------------------------------------------------------------------

Init ==
    /\ pc = "start"
    /\ text = <<>>
    /\ has = {}
    /\ input = <<>>
    /\ meta = [state |-> "absent", chars |-> {}]
    /\ bin = [s \in Split |-> <<>>]
    /\ reader = [pc |-> "start", vocab |-> 0, len |-> [s \in Split |-> 0]]
    /\ x = <<>>
    /\ y = <<>>
    /\ crashes = 0
    /\ runs = 0

-----------------------------------------------------------------------------
(* prepare_shakespeare *)

\* Mutant: the text is downloaded every time.
Downloads_Always == TRUE

\* not os.path.exists(input.txt)
Downloads == "input" \notin has

\* The answer is not looked at before it is written.
DownloadShakespeare ==
    /\ pc = "start"
    /\ IF Downloads
       THEN /\ text' \in Texts
            /\ has' = has \cup {"input"}
            /\ input' = <<>>
            /\ pc' = "input"
       ELSE /\ pc' = "read"
            /\ UNCHANGED <<text, has, input>>
    /\ UNCHANGED <<meta, bin, readVars, crashes, runs>>

\* A file of which more has been written.
Grown(file, whole) ==
    SubSeq(whole, 1, IF Len(file) + Chunk < Len(whole) THEN Len(file) + Chunk ELSE Len(whole))

WriteInput ==
    /\ pc = "input"
    /\ IF Len(input) < Len(text)
       THEN input' = Grown(input, text) /\ UNCHANGED pc
       ELSE pc' = "read" /\ UNCHANGED input
    /\ UNCHANGED <<text, has, meta, bin, readVars, crashes, runs>>

ReadText ==
    /\ pc = "read"
    /\ text' = input
    /\ pc' = "meta"
    /\ UNCHANGED <<has, input, meta, bin, readVars, crashes, runs>>

\* The file is truncated, then written.
SaveMeta ==
    /\ \/ /\ pc = "meta"
          /\ meta' = [state |-> "torn", chars |-> {}]
          /\ pc' = "dump"
       \/ /\ pc = "dump"
          /\ meta' = [state |-> "whole", chars |-> Chars(text)]
          /\ pc' = "open train"
    /\ UNCHANGED <<text, has, input, bin, readVars, crashes, runs>>

\* Mutant: a file that exists is not opened for writing again.
MayOpen_Exclusive(s) == s \notin has

MayOpen(s) == TRUE

\* tofile
OpenBin(s) ==
    /\ pc = IF s = "train" THEN "open train" ELSE "open val"
    /\ MayOpen(s)
    /\ has' = has \cup {s}
    /\ bin' = [bin EXCEPT ![s] = <<>>]
    /\ pc' = s
    /\ UNCHANGED <<text, input, meta, readVars, crashes, runs>>

WriteBin(s) ==
    /\ pc = s
    /\ IF Len(bin[s]) < Len(Half(text, s))
       THEN /\ bin' = [bin EXCEPT ![s] = Grown(@, Half(text, s))]
            /\ UNCHANGED <<pc, runs>>
       ELSE /\ pc' = IF s = "train" THEN "open val" ELSE "done"
            /\ runs' = IF s = "train" THEN runs ELSE runs + 1
            /\ UNCHANGED bin
    /\ UNCHANGED <<text, has, input, meta, readVars, crashes>>

\* The process is killed, and run again.
Crash ==
    /\ pc # "done"
    /\ crashes < MaxCrashes
    /\ crashes' = crashes + 1
    /\ pc' = "start"
    /\ text' = <<>>
    /\ UNCHANGED <<has, input, meta, bin, readVars, runs>>

RunAgain ==
    /\ pc = "done"
    /\ runs < MaxRuns
    /\ pc' = "start"
    /\ text' = <<>>
    /\ UNCHANGED <<has, input, meta, bin, readVars, crashes, runs>>

-----------------------------------------------------------------------------
(* A trainer *)

\* vocab_size of meta.pkl, which cannot be loaded while it is torn.
ReadMeta ==
    /\ reader.pc = "start"
    /\ reader' = CASE meta.state = "absent" -> [reader EXCEPT !.pc = "map", !.vocab = DefaultVocab]
                   [] meta.state = "torn"   -> [reader EXCEPT !.pc = "failed"]
                   [] meta.state = "whole"  -> [reader EXCEPT !.pc = "map",
                                                              !.vocab = Cardinality(meta.chars)]
    /\ UNCHANGED <<x, y, prepVars, crashes, runs>>

\* np.memmap takes the length the file has, which must not be zero.  The map is
\* cached.
MapSplit(s) ==
    /\ reader.pc = "map"
    /\ reader.len[s] = 0
    /\ reader' = IF s \in has /\ bin[s] # <<>>
                 THEN [reader EXCEPT !.len[s] = Len(bin[s])]
                 ELSE [reader EXCEPT !.pc = "failed"]
    /\ UNCHANGED <<x, y, prepVars, crashes, runs>>

\* Mutant: a window may begin where the last target would be past the end.
Starts_PastEnd(n) == 0 .. (n - BlockSize)

\* torch.randint(len(data) - block_size)
Starts(n) == 0 .. (n - BlockSize - 1)

\* The map of s: what the file has been cut short of reads as zero.
Data(s) == [k \in 1..reader.len[s] |-> IF k <= Len(bin[s]) THEN bin[s][k] ELSE 0]

\* data[i:j], which ends with the array
Slice(data, i, j) == SubSeq(data, i + 1, IF j < Len(data) THEN j ELSE Len(data))

\* randint of no start at all raises.
GetBatch(s) ==
    /\ reader.pc = "map"
    /\ reader.len[s] > 0
    /\ IF Starts(reader.len[s]) = {}
       THEN reader' = [reader EXCEPT !.pc = "failed"] /\ UNCHANGED <<x, y>>
       ELSE \E i \in Starts(reader.len[s]) :
              /\ x' = Slice(Data(s), i, i + BlockSize)
              /\ y' = Slice(Data(s), i + 1, i + 1 + BlockSize)
              /\ UNCHANGED reader
    /\ UNCHANGED <<prepVars, crashes, runs>>

\* A page of a map that the file no longer has kills the process.
BusError ==
    /\ reader.pc = "map"
    /\ \E s \in Split : Len(bin[s]) < reader.len[s]
    /\ reader' = [reader EXCEPT !.pc = "failed"]
    /\ UNCHANGED <<x, y, prepVars, crashes, runs>>

-----------------------------------------------------------------------------

Prepare ==
    \/ DownloadShakespeare \/ WriteInput \/ ReadText \/ SaveMeta
    \/ \E s \in Split : OpenBin(s) \/ WriteBin(s)

Train == ReadMeta \/ (\E s \in Split : MapSplit(s) \/ GetBatch(s)) \/ BusError

Next == Prepare \/ Crash \/ RunAgain \/ Train

Spec == Init /\ [][Next]_vars

\* A preparation goes on, and is run again after a crash.
FairSpec == Spec /\ WF_vars(Prepare)

-----------------------------------------------------------------------------
(* Safety *)

\* Every variable has its type.
DatasetTypeOK ==
    /\ pc \in {"start", "input", "read", "meta", "dump", "open train", "train",
               "open val", "val", "done"}
    /\ text \in Seq(Char)
    /\ has \subseteq {"input"} \cup Split
    /\ input \in Seq(Char)
    /\ meta \in [state : {"absent", "torn", "whole"}, chars : SUBSET Char]
    /\ bin \in [Split -> Seq(Nat)]
    /\ reader \in [pc : {"start", "map", "failed"}, vocab : Nat, len : [Split -> Nat]]
    /\ x \in Seq(Nat)
    /\ y \in Seq(Nat)
    /\ crashes \in Nat
    /\ runs \in Nat

\* The files belong together at any time: the vocabulary is that of input.txt,
\* and each half is the beginning of its half of input.txt's tokens.  (The files
\* are written one after the other, in runs that crash and are repeated.)
FilesAgree ==
    /\ meta.state = "whole" => meta.chars = Chars(input)
    /\ \A s \in Split : bin[s] # <<>> => IsPrefix(bin[s], Half(input, s))

\* itos
Itos(t, k) == CHOOSE ch \in Chars(t) : Stoi(t, ch) = k

\* After a run that completed the two halves together are input.txt again.
RoundTrip ==
    pc = "done" =>
        LET tokens == bin["train"] \o bin["val"] IN
        /\ Len(tokens) = Len(input)
        /\ \A i \in 1..Len(input) : Itos(input, tokens[i]) = input[i]

\* A trainer never reads a token its model has no embedding for, whenever it
\* started, and whatever run of the preparation the files are from.
TokensInVocabulary ==
    \A i \in DOMAIN x : x[i] < reader.vocab /\ (i \in DOMAIN y => y[i] < reader.vocab)

\* The targets are the window, one token on.
TargetsFollow ==
    x # <<>> =>
        /\ Len(x) = BlockSize
        /\ Len(y) = BlockSize
        /\ \A i \in 1..(BlockSize - 1) : y[i] = x[i + 1]

-----------------------------------------------------------------------------
(* Liveness *)

\* A preparation completes once it is not killed, whatever the killed ones left.
PreparationCompletes == []<>(pc = "done")

=============================================================================
