------------------------------- MODULE TiedOffGguf -----------------------------
(***************************************************************************)
(* create_tied_off_gguf.py: a GGUF whose output projection is tied to the  *)
(* embedding is rewritten, byte for byte, with a copy of token_embd.weight *)
(* as output.weight behind the existing data.  dump_gguf_tensors.py and    *)
(* llama.cpp read the result.                                              *)
(*                                                                         *)
(* A file is its header and infos (their size: their bytes are copied),    *)
(* padding up to the data section, and the data section as a sequence of   *)
(* cells.  The script may be interrupted while it writes, run again, and   *)
(* run on its own output.                                                  *)
(***************************************************************************)
EXTENDS Integers, Sequences, FiniteSetsExt

CONSTANTS
  DefaultAlignment,  \* 32
  NoKey,             \* general.alignment is not among the KV entries
  Pad,               \* a zero byte of padding
  Cells,             \* bytes of tensor data
  Names,             \* tensor names
  Sources            \* the tied GGUF files the converter may have made

Embd == "token_embd.weight"
Output == "output.weight"

--------------------------------------------------------------------------------
(***************************************************************************)
(* The format, as the gguf reader has it.                                  *)
(***************************************************************************)
Alignment(f) == IF f.align = NoKey THEN DefaultAlignment ELSE f.align

AlignUp(n, a) == ((n + a - 1) \div a) * a

\* data_offset: the infos' end, aligned.
DataStart(f) == AlignUp(f.head, Alignment(f))

Infos(f) == 1 .. Len(f.infos)

End(t) == t.off + t.size

Has(f, name) == \E i \in Infos(f) : f.infos[i].name = name

\* The cells of an info, addressed from data_offset.
Read(f, t) ==
  [k \in 0 .. t.size - 1 |-> f.data[DataStart(f) + t.off + k + 1 - (f.head + f.pad)]]

\* The reader maps every tensor when it opens a file, and fails on one that ends
\* beyond the file.
Accepts(f) ==
  \A i \in Infos(f) : DataStart(f) + End(f.infos[i]) <= f.head + f.pad + Len(f.data)

Info == [name : Names, dims : Nat, size : Nat \ {0}, off : Nat]

GgufFile == [head : Nat, align : {NoKey} \cup (Nat \ {0}), nested : BOOLEAN, pad : Nat,
             infos : Seq(Info), data : Seq(Cells \cup {Pad})]

\* A well-formed file: data where the reader looks for it, tensors aligned, one
\* after the other, and nothing but padding up to alignment after the last.
WellFormed(f) ==
  /\ f \in GgufFile
  /\ f.infos # <<>>
  /\ f.head + f.pad = DataStart(f)
  /\ \A i, j \in Infos(f) : f.infos[i].name = f.infos[j].name => i = j
  /\ \A i \in Infos(f) : f.infos[i].off % Alignment(f) = 0
  /\ \A i, j \in Infos(f) : i < j => End(f.infos[i]) <= f.infos[j].off
  /\ End(f.infos[Len(f.infos)]) <= Len(f.data)
  /\ Len(f.data) <= AlignUp(End(f.infos[Len(f.infos)]), Alignment(f))

ASSUME SourcesAssumption ==
  /\ DefaultAlignment \in Nat \ {0}
  /\ NoKey \notin Nat
  /\ {Embd, Output} \subseteq Names
  /\ \A f \in Sources : WellFormed(f)

--------------------------------------------------------------------------------
(***************************************************************************)
(* The script.                                                             *)
(***************************************************************************)
\* embd: the tensor of that name.
EmbdInfo(f) == f.infos[CHOOSE i \in Infos(f) : f.infos[i].name = Embd]

\* _info_entry_size of output.weight, a name of 13 bytes.
OutputInfoSize(dims) == 8 + 13 + 4 + dims * 8 + 4 + 8

\* Mutant of ExistingDataEnd: where the last tensor starts, not where it ends.
ExistingDataStart(f) == Max({f.infos[i].off : i \in Infos(f)})

\* max_end - original_data_start
ExistingDataEnd(f) == Max({End(f.infos[i]) : i \in Infos(f)})

\* Mutant of Padding: a file that is aligned already gets a whole block.
PaddingNeverZero(n, a) == a - (n % a)

\* (alignment - n % alignment) % alignment
Padding(n, a) == (a - (n % a)) % a

\* Mutant of OutputOffset: the offset is the end of the data, not aligned.
OutputOffsetUnaligned(f) == ExistingDataEnd(f)

OutputOffset(f) == AlignUp(ExistingDataEnd(f), Alignment(f))

Zeros(n) == [i \in 1 .. n |-> Pad]

\* The new file: header and infos with one entry more, padding to the new
\* data_start, the old data section, padding from its size, the embedding.
Untied(f) ==
  LET a == Alignment(f)
      embd == EmbdInfo(f)
      new == [name |-> Output, dims |-> embd.dims, size |-> embd.size,
              off |-> OutputOffset(f)]
      head == f.head + OutputInfoSize(embd.dims)
  IN [head |-> head, align |-> f.align, nested |-> f.nested,
      pad |-> Padding(head, a),
      infos |-> Append(f.infos, new),
      data |-> f.data \o Zeros(Padding(Len(f.data), a))
                      \o SubSeq(f.data, embd.off + 1, End(embd))]

\* "output.weight already exists - copying as-is"
Result(f) == IF Has(f, Output) THEN f ELSE Untied(f)

\* What is on disk of a file whose data is written up to cell n.
Cut(f, n) == [f EXCEPT !.data = SubSeq(@, 1, n)]

\* No token_embd.weight, or _skip_kv meets an array of arrays: exit 1 before
\* the output is opened.
Refused(f) == ~Has(f, Output) /\ (~Has(f, Embd) \/ f.nested)

--------------------------------------------------------------------------------
VARIABLES
  src,     \* the file at --input
  onDisk,  \* --output: "absent", "broken" (not even its header), "file"
  dst,     \* its contents when onDisk = "file"
  made,    \* history: the input that output was made from
  step     \* "idle", "write"

ggufVars == <<src, onDisk, dst, made, step>>

GgufInit ==
  /\ src \in Sources
  /\ onDisk = "absent"
  /\ dst = src
  /\ made = src
  /\ step = "idle"

\* create_tied_off up to open(output_path, "wb"), which empties the output.
CreateTiedOff ==
  /\ step = "idle"
  /\ Accepts(src)
  /\ ~Refused(src)
  /\ made' = src
  /\ onDisk' = "broken"
  /\ step' = "write"
  /\ UNCHANGED <<src, dst>>

\* Exit code 1, or the reader's error: nothing is written.
Refuse ==
  /\ step = "idle"
  /\ ~Accepts(src) \/ Refused(src)
  /\ UNCHANGED ggufVars

\* f.write(out), or the copy, runs to its end.
Written ==
  /\ step = "write"
  /\ onDisk' = "file"
  /\ dst' = Result(made)
  /\ step' = "idle"
  /\ UNCHANGED <<src, made>>

\* It stops within the header or infos, or after n cells of the data.
WrittenPartly ==
  /\ step = "write"
  /\ step' = "idle"
  /\ \/ UNCHANGED <<onDisk, dst>>
     \/ /\ onDisk' = "file"
        /\ \E n \in 0 .. Len(Result(made).data) - 1 : dst' = Cut(Result(made), n)
  /\ UNCHANGED <<src, made>>

\* The output becomes the next input.
OutputAsInput ==
  /\ step = "idle"
  /\ onDisk = "file"
  /\ src' = dst
  /\ UNCHANGED <<onDisk, dst, made, step>>

GgufNext == CreateTiedOff \/ Refuse \/ Written \/ WrittenPartly \/ OutputAsInput

GgufSpec == GgufInit /\ [][GgufNext]_ggufVars

--------------------------------------------------------------------------------
\* The types of the variables, and what the proof needs of a state: an output is a
\* prefix of the file made from an input that was accepted.
GgufInv ==
  /\ src \in GgufFile /\ dst \in GgufFile
  /\ Accepts(src) => WellFormed(src)
  /\ WellFormed(made)
  /\ step \in {"idle", "write"}
  /\ onDisk \in {"absent", "broken", "file"}
  /\ step = "write" => onDisk = "broken" /\ ~Refused(made)
  /\ onDisk = "file" =>
       /\ ~Refused(made)
       /\ \E n \in 0 .. Len(Result(made).data) : dst = Cut(Result(made), n)

\* What dump_gguf_tensors.py writes as tie_inference of a file it can open.
TieInference(f) == IF Has(f, Output) THEN "UNTIED" ELSE "TIED"

Readable == onDisk = "file" /\ Accepts(dst)

\* A file that opens and is reported UNTIED is whole, however the run that wrote
\* it ended: each tensor reads back as the input's, and output.weight as its
\* token_embd.weight.
UntiedIsWhole ==
  Readable /\ TieInference(dst) = "UNTIED" =>
    /\ \A i \in Infos(made) : Read(dst, made.infos[i]) = Read(made, made.infos[i])
    /\ ~Has(made, Output) =>
         Read(dst, dst.infos[Len(dst.infos)]) = Read(made, EmbdInfo(made))

\* An output that opens is a well-formed file: llama.cpp and a second run of the
\* script find every tensor aligned, in order and inside the file.
OutputWellFormed == Readable => WellFormed(dst)

================================================================================
