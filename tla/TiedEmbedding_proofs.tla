-------------------------- MODULE TiedEmbedding_proofs --------------------------
(***************************************************************************)
(* The tied-embedding experiment.  create_tied_off_gguf.py adds            *)
(* output.weight without disturbing a file, for every well-formed input of *)
(* any alignment, tensors and sizes; and what is parsed of the runs on the *)
(* device, for any quantisations, any number of conversions and runs,      *)
(* failing commands and interruptions.                                     *)
(***************************************************************************)
EXTENDS TiedOffGguf, TiedExperiment, SequenceTheorems, TLAPS

--------------------------------------------------------------------------------
(***************************************************************************)
(* Alignment.                                                              *)
(***************************************************************************)

\* AlignUp is the next multiple of the alignment.
LEMMA AlignUpBounds ==
  ASSUME NEW n \in Nat, NEW a \in Nat \ {0}
  PROVE  /\ AlignUp(n, a) \in Nat
         /\ n <= AlignUp(n, a) /\ AlignUp(n, a) < n + a
         /\ AlignUp(n, a) % a = 0
<1>. DEFINE quo == (n + a - 1) \div a
            r == (n + a - 1) % a
<1>1. quo \in Nat /\ r \in Nat /\ r < a /\ quo * a + r = n + a - 1
  OBVIOUS
<1>2. quo * a \in Nat /\ (quo * a) % a = 0
  BY <1>1
<1>. QED BY <1>1, <1>2 DEF AlignUp

\* It is the only multiple within one alignment above.
LEMMA AlignUpUnique ==
  ASSUME NEW n \in Nat, NEW a \in Nat \ {0}, NEW k \in Nat,
         n <= k * a, k * a < n + a
  PROVE  AlignUp(n, a) = k * a
<1>. DEFINE quo == (n + a - 1) \div a
            r == (n + a - 1) % a
<1>1. quo \in Nat /\ r \in Nat /\ r < a /\ quo * a + r = n + a - 1
  OBVIOUS
<1>2. quo * a <= k * a + a - 1 /\ k * a <= quo * a + r
  BY <1>1
<1>3. quo = k
  <2>1. ASSUME quo >= k + 1 PROVE FALSE
    <3>1. quo * a >= (k + 1) * a
      BY <1>1, <2>1
    <3>. QED BY <1>1, <1>2, <3>1
  <2>2. ASSUME k >= quo + 1 PROVE FALSE
    <3>1. k * a >= (quo + 1) * a
      BY <1>1, <2>2
    <3>. QED BY <1>1, <1>2, <3>1
  <2>. QED BY <1>1, <2>1, <2>2
<1>. QED BY <1>3 DEF AlignUp

\* The padding computed from a size fills it up to the next multiple.
LEMMA PaddingFills ==
  ASSUME NEW n \in Nat, NEW a \in Nat \ {0}
  PROVE  Padding(n, a) \in Nat /\ n + Padding(n, a) = AlignUp(n, a)
<1>. DEFINE quo == n \div a
            r == n % a
<1>1. quo \in Nat /\ r \in Nat /\ r < a /\ quo * a + r = n
  OBVIOUS
<1>2. CASE r = 0
  <2>1. Padding(n, a) = 0
    BY <1>2 DEF Padding
  <2>2. AlignUp(n, a) = quo * a
    BY <1>1, <1>2, AlignUpUnique
  <2>. QED BY <1>1, <1>2, <2>1, <2>2
<1>3. CASE r # 0
  <2>1. Padding(n, a) = a - r
    <3>1. a - r \in 0 .. a - 1
      BY <1>1, <1>3
    <3>. QED BY <3>1 DEF Padding
  <2>2. (quo + 1) * a = quo * a + a
    BY <1>1
  <2>3. AlignUp(n, a) = (quo + 1) * a
    <3>1. quo + 1 \in Nat /\ n <= (quo + 1) * a /\ (quo + 1) * a < n + a
      BY <1>1, <1>3, <2>2
    <3>. HIDE DEF quo
    <3>. QED BY <3>1, AlignUpUnique
  <2>. QED BY <1>1, <2>1, <2>2, <2>3
<1>. QED BY <1>2, <1>3

\* Sizes that end within the same padding are aligned to the same place.
LEMMA AlignUpSame ==
  ASSUME NEW n \in Nat, NEW m \in Nat, NEW a \in Nat \ {0},
         n <= m, m <= AlignUp(n, a)
  PROVE  AlignUp(m, a) = AlignUp(n, a)
<1>. DEFINE quo == (n + a - 1) \div a
<1>1. quo \in Nat /\ AlignUp(n, a) = quo * a
  BY DEF AlignUp
<1>2. m <= quo * a /\ quo * a < m + a
  BY <1>1, AlignUpBounds
<1>. QED BY <1>1, <1>2, AlignUpUnique

--------------------------------------------------------------------------------
(***************************************************************************)
(* A well-formed file.                                                     *)
(***************************************************************************)

\* What WellFormed says of the fields, as the steps below use it.
LEMMA Fields ==
  ASSUME NEW f, WellFormed(f)
  PROVE  /\ Alignment(f) \in Nat \ {0}
         /\ f.head \in Nat /\ f.pad \in Nat /\ f.nested \in BOOLEAN
         /\ f.align \in {NoKey} \cup (Nat \ {0})
         /\ f.infos \in Seq(Info)
         /\ f.data \in Seq(Cells \cup {Pad})
         /\ Len(f.infos) \in Nat \ {0} /\ Len(f.data) \in Nat
         /\ DataStart(f) = f.head + f.pad
         /\ \A i \in Infos(f) :
              /\ f.infos[i].name \in Names /\ f.infos[i].dims \in Nat
              /\ f.infos[i].size \in Nat \ {0} /\ f.infos[i].off \in Nat
              /\ End(f.infos[i]) \in Nat
              /\ End(f.infos[i]) = f.infos[i].off + f.infos[i].size
              /\ End(f.infos[i]) <= End(f.infos[Len(f.infos)])
              /\ End(f.infos[i]) <= Len(f.data)
<1>1. f \in GgufFile /\ f.infos # <<>>
  BY DEF WellFormed
<1>2. /\ f.head \in Nat /\ f.pad \in Nat /\ f.nested \in BOOLEAN
      /\ f.align \in {NoKey} \cup (Nat \ {0})
      /\ f.infos \in Seq(Info)
      /\ f.data \in Seq(Cells \cup {Pad})
  BY <1>1 DEF GgufFile
<1>3. Alignment(f) \in Nat \ {0}
  BY <1>2, SourcesAssumption DEF Alignment
<1>4. Len(f.infos) \in Nat \ {0} /\ Len(f.data) \in Nat
  BY <1>1, <1>2
<1>5. \A i \in Infos(f) : f.infos[i] \in Info
  BY <1>2 DEF Infos
<1>6. ASSUME NEW i \in Infos(f)
      PROVE  /\ f.infos[i].name \in Names /\ f.infos[i].dims \in Nat
             /\ f.infos[i].size \in Nat \ {0} /\ f.infos[i].off \in Nat
             /\ End(f.infos[i]) \in Nat
             /\ End(f.infos[i]) = f.infos[i].off + f.infos[i].size
  BY <1>5 DEF End, Info
<1>7. Len(f.infos) \in Infos(f)
  BY <1>4 DEF Infos
<1>8. ASSUME NEW i \in Infos(f)
      PROVE  End(f.infos[i]) <= End(f.infos[Len(f.infos)])
  <2>1. i = Len(f.infos) \/ i < Len(f.infos)
    BY <1>4 DEF Infos
  <2>2. i < Len(f.infos) => End(f.infos[i]) <= f.infos[Len(f.infos)].off
    BY <1>7 DEF WellFormed
  <2>. QED BY <1>6, <1>7, <2>1, <2>2
<1>9. End(f.infos[Len(f.infos)]) <= Len(f.data) /\ DataStart(f) = f.head + f.pad
  BY DEF WellFormed
<1>. QED BY <1>2, <1>3, <1>4, <1>6, <1>7, <1>8, <1>9

\* max_end is the end of the last tensor.
LEMMA LastEnd ==
  ASSUME NEW f, WellFormed(f)
  PROVE  ExistingDataEnd(f) = End(f.infos[Len(f.infos)])
<1>. DEFINE S == {End(f.infos[i]) : i \in Infos(f)}
            m == End(f.infos[Len(f.infos)])
<1>1. Len(f.infos) \in Infos(f)
  BY Fields DEF Infos
<1>2. m \in S /\ m \in Nat /\ \A x \in S : x \in Nat /\ m >= x
  BY <1>1, Fields
<1>. HIDE DEF S, m
<1>3. \A y \in S : (\A x \in S : y >= x) => y = m
  <2>. SUFFICES ASSUME NEW y \in S, \A x \in S : y >= x PROVE y = m
    OBVIOUS
  <2>1. y >= m /\ m >= y /\ y \in Nat /\ m \in Nat
    BY <1>2
  <2>. QED BY <2>1
<1>4. Max(S) = m
  BY <1>2, <1>3 DEF Max
<1>. QED BY <1>4 DEF ExistingDataEnd, S, m

\* The embedding is the one tensor of its name.
LEMMA EmbdIsInfo ==
  ASSUME NEW f, WellFormed(f), Has(f, Embd)
  PROVE  \E e \in Infos(f) : EmbdInfo(f) = f.infos[e]
  BY DEF Has, EmbdInfo

\* In a well-formed file a cell is found at its offset.
LEMMA ReadAtOffset ==
  ASSUME NEW f, WellFormed(f), NEW t, t.off \in Nat, t.size \in Nat
  PROVE  Read(f, t) = [k \in 0 .. t.size - 1 |-> f.data[t.off + k + 1]]
<1>1. \A k \in 0 .. t.size - 1 :
        DataStart(f) + t.off + k + 1 - (f.head + f.pad) = t.off + k + 1
  BY Fields
<1>. QED BY <1>1 DEF Read

--------------------------------------------------------------------------------
(***************************************************************************)
(* The rewritten file.                                                     *)
(***************************************************************************)

\* The recorded offset of output.weight is where its bytes are appended: both
\* are the old data section's size, aligned.
LEMMA OutputAtEnd ==
  ASSUME NEW f, WellFormed(f)
  PROVE  /\ OutputOffset(f) \in Nat
         /\ Padding(Len(f.data), Alignment(f)) \in Nat
         /\ OutputOffset(f) = Len(f.data) + Padding(Len(f.data), Alignment(f))
         /\ OutputOffset(f) % Alignment(f) = 0
         /\ OutputOffset(f) = AlignUp(OutputOffset(f), Alignment(f))
<1>. DEFINE a == Alignment(f)
            end == End(f.infos[Len(f.infos)])
<1>1. /\ a \in Nat \ {0} /\ Len(f.data) \in Nat /\ end \in Nat
      /\ end <= Len(f.data) /\ Len(f.data) <= AlignUp(end, a)
  <2>1. Len(f.infos) \in Infos(f)
    BY Fields DEF Infos
  <2>. QED BY <2>1, Fields DEF WellFormed
<1>2. OutputOffset(f) = AlignUp(end, a)
  BY LastEnd DEF OutputOffset
<1>3. OutputOffset(f) = AlignUp(Len(f.data), a)
  BY <1>1, <1>2, AlignUpSame
<1>4. AlignUp(Len(f.data), a) \in Nat /\ Len(f.data) <= AlignUp(Len(f.data), a)
      /\ AlignUp(Len(f.data), a) % a = 0
  BY <1>1, AlignUpBounds
<1>5. AlignUp(AlignUp(Len(f.data), a), a) = AlignUp(Len(f.data), a)
  BY <1>1, <1>4, AlignUpSame
<1>. QED BY <1>1, <1>3, <1>4, <1>5, PaddingFills

\* Its fields.
LEMMA UntiedFields ==
  ASSUME NEW f, WellFormed(f), Has(f, Embd)
  PROVE  LET g == Untied(f)
             embd == EmbdInfo(f)
             n == Len(f.infos)
         IN /\ g.head = f.head + OutputInfoSize(embd.dims) /\ g.head \in Nat
            /\ g.align = f.align /\ g.nested = f.nested /\ Alignment(g) = Alignment(f)
            /\ g.pad = Padding(g.head, Alignment(f))
            /\ g.infos \in Seq(Info) /\ Len(g.infos) = n + 1
            /\ \A i \in 1 .. n : g.infos[i] = f.infos[i]
            /\ g.infos[n + 1].name = Output
            /\ g.infos[n + 1].size = embd.size
            /\ g.infos[n + 1].off = OutputOffset(f)
<1>. DEFINE embd == EmbdInfo(f)
            g == Untied(f)
            new == [name |-> Output, dims |-> embd.dims, size |-> embd.size,
                    off |-> OutputOffset(f)]
<1>1. embd.dims \in Nat /\ embd.size \in Nat \ {0}
  BY EmbdIsInfo, Fields
<1>2. f.infos \in Seq(Info) /\ Len(f.infos) \in Nat
  BY Fields
<1>3. new \in Info
  BY <1>1, OutputAtEnd, SourcesAssumption DEF Info
<1>4. /\ g.head = f.head + OutputInfoSize(embd.dims)
      /\ g.align = f.align /\ g.nested = f.nested
      /\ g.pad = Padding(g.head, Alignment(f))
      /\ g.infos = Append(f.infos, new)
  BY DEF Untied
<1>5. f.head \in Nat /\ OutputInfoSize(embd.dims) \in Nat
  BY <1>1, Fields DEF OutputInfoSize
<1>6. Alignment(g) = Alignment(f)
  BY <1>4 DEF Alignment
<1>7. new.name = Output /\ new.size = embd.size /\ new.off = OutputOffset(f)
  OBVIOUS
<1>. HIDE DEF g, new, embd
<1>8. /\ g.infos \in Seq(Info) /\ Len(g.infos) = Len(f.infos) + 1
      /\ \A i \in 1 .. Len(f.infos) : g.infos[i] = f.infos[i]
      /\ g.infos[Len(f.infos) + 1] = new
  BY <1>2, <1>3, <1>4
<1>. QED BY <1>4, <1>5, <1>6, <1>7, <1>8 DEF g, embd

\* A concatenation, cell by cell.
LEMMA Appended ==
  ASSUME NEW T, NEW d \in Seq(T), NEW c \in Seq(T)
  PROVE  /\ d \o c \in Seq(T) /\ Len(d \o c) = Len(d) + Len(c)
         /\ \A p \in 1 .. Len(d) : (d \o c)[p] = d[p]
         /\ \A k \in 0 .. Len(c) - 1 : (d \o c)[Len(d) + k + 1] = c[k + 1]
<1>1. /\ d \o c \in Seq(T) /\ Len(d \o c) = Len(d) + Len(c)
      /\ \A i \in 1 .. Len(d) + Len(c) :
           (d \o c)[i] = IF i <= Len(d) THEN d[i] ELSE c[i - Len(d)]
  BY ConcatProperties
<1>2. Len(d) \in Nat /\ Len(c) \in Nat
  OBVIOUS
<1>3. \A k \in 0 .. Len(c) - 1 :
        /\ Len(d) + k + 1 \in 1 .. Len(d) + Len(c)
        /\ ~(Len(d) + k + 1 <= Len(d)) /\ Len(d) + k + 1 - Len(d) = k + 1
  BY <1>2
<1>4. \A p \in 1 .. Len(d) : p \in 1 .. Len(d) + Len(c) /\ p <= Len(d)
  BY <1>2
<1>. QED BY <1>1, <1>3, <1>4

\* Its cells: the old ones where they were, the embedding's at OutputOffset.
LEMMA UntiedCells ==
  ASSUME NEW f, WellFormed(f), Has(f, Embd)
  PROVE  LET g == Untied(f)
             embd == EmbdInfo(f)
         IN /\ g.data \in Seq(Cells \cup {Pad})
            /\ Len(g.data) = OutputOffset(f) + embd.size
            /\ \A p \in 1 .. Len(f.data) : g.data[p] = f.data[p]
            /\ \A k \in 0 .. embd.size - 1 :
                 g.data[OutputOffset(f) + k + 1] = f.data[embd.off + k + 1]
<1>. DEFINE embd == EmbdInfo(f)
            z == Zeros(Padding(Len(f.data), Alignment(f)))
            c == SubSeq(f.data, embd.off + 1, End(embd))
            T == Cells \cup {Pad}
<1>1. /\ embd.off \in Nat /\ embd.size \in Nat \ {0}
      /\ End(embd) = embd.off + embd.size /\ End(embd) <= Len(f.data)
  BY EmbdIsInfo, Fields
<1>2. f.data \in Seq(T) /\ Len(f.data) \in Nat
  BY Fields
<1>3. z \in Seq(T) /\ Len(f.data) + Len(z) = OutputOffset(f) /\ Len(z) \in Nat
  BY OutputAtEnd DEF Zeros
<1>4. /\ c \in Seq(T) /\ Len(c) = embd.size
      /\ \A k \in 0 .. embd.size - 1 : c[k + 1] = f.data[embd.off + k + 1]
  <2>. HIDE DEF embd, T
  <2>1. \A i \in embd.off + 1 .. End(embd) : f.data[i] \in T
    BY <1>1, <1>2
  <2>2. embd.off + 1 \in Int /\ End(embd) \in Int /\ embd.off + 1 <= End(embd)
        /\ End(embd) - (embd.off + 1) + 1 = embd.size
    BY <1>1
  <2>3. /\ c \in Seq(T) /\ Len(c) = embd.size
        /\ \A i \in 1 .. embd.size : c[i] = f.data[(embd.off + 1) + i - 1]
    BY <2>1, <2>2, SubSeqProperties
  <2>4. \A k \in 0 .. embd.size - 1 :
          k + 1 \in 1 .. embd.size /\ (embd.off + 1) + (k + 1) - 1 = embd.off + k + 1
    BY <1>1
  <2>. HIDE DEF c
  <2>5. ASSUME NEW k \in 0 .. embd.size - 1
        PROVE  c[k + 1] = f.data[embd.off + k + 1]
    <3>1. c[k + 1] = f.data[(embd.off + 1) + (k + 1) - 1]
      BY <2>3, <2>4
    <3>. QED BY <2>4, <3>1
  <2>. QED BY <2>3, <2>5
<1>. DEFINE d == f.data \o z
<1>5. Untied(f).data = d \o c
  BY DEF Untied
<1>. HIDE DEF z, c, T, embd
<1>6. /\ d \in Seq(T) /\ Len(d) = OutputOffset(f)
      /\ \A p \in 1 .. Len(f.data) : d[p] = f.data[p]
  BY <1>2, <1>3
<1>. HIDE DEF d
<1>7. /\ d \o c \in Seq(T) /\ Len(d \o c) = Len(d) + Len(c)
      /\ \A p \in 1 .. Len(d) : (d \o c)[p] = d[p]
      /\ \A k \in 0 .. Len(c) - 1 : (d \o c)[Len(d) + k + 1] = c[k + 1]
  <2>1. d \in Seq(T) /\ c \in Seq(T)
    BY <1>4, <1>6
  <2>2. d \o c \in Seq(T) /\ Len(d \o c) = Len(d) + Len(c)
    BY <2>1, Appended
  <2>3. \A p \in 1 .. Len(d) : (d \o c)[p] = d[p]
    BY <2>1, Appended
  <2>4. \A k \in 0 .. Len(c) - 1 : (d \o c)[Len(d) + k + 1] = c[k + 1]
    BY <2>1, Appended
  <2>. QED BY <2>2, <2>3, <2>4
<1>8. \A p \in 1 .. Len(f.data) : p \in 1 .. OutputOffset(f)
  BY <1>2, <1>3
<1>. QED BY <1>4, <1>5, <1>6, <1>7, <1>8 DEF embd, T

\* The rewritten file is well formed: output.weight is aligned, behind every
\* other tensor and inside the file.
THEOREM UntiedWellFormed ==
  ASSUME NEW f, WellFormed(f), Has(f, Embd), ~Has(f, Output)
  PROVE  WellFormed(Untied(f))
<1>. DEFINE g == Untied(f)
            a == Alignment(f)
            n == Len(f.infos)
            o == OutputOffset(f)
            embd == EmbdInfo(f)
<1>1. /\ g.head \in Nat /\ g.align = f.align /\ g.nested = f.nested
      /\ Alignment(g) = a /\ g.pad = Padding(g.head, a)
      /\ g.infos \in Seq(Info) /\ Len(g.infos) = n + 1
      /\ \A i \in 1 .. n : g.infos[i] = f.infos[i]
      /\ g.infos[n + 1].name = Output /\ g.infos[n + 1].size = embd.size
      /\ g.infos[n + 1].off = o
  BY UntiedFields
<1>2. g.data \in Seq(Cells \cup {Pad}) /\ Len(g.data) = o + embd.size
  BY UntiedCells
<1>3. /\ a \in Nat \ {0} /\ n \in Nat \ {0} /\ o \in Nat /\ o % a = 0
      /\ embd.size \in Nat \ {0} /\ Len(f.data) \in Nat /\ Len(f.data) <= o
  BY Fields, OutputAtEnd, EmbdIsInfo
<1>4. \A i \in 1 .. n : /\ End(f.infos[i]) \in Nat /\ End(f.infos[i]) <= o
                       /\ f.infos[i].name # Output /\ f.infos[i].off % a = 0
  <2>1. \A i \in 1 .. n : i \in Infos(f)
    BY DEF Infos
  <2>2. \A i \in Infos(f) : End(f.infos[i]) \in Nat /\ End(f.infos[i]) <= Len(f.data)
    BY Fields
  <2>3. \A i \in Infos(f) : f.infos[i].name # Output /\ f.infos[i].off % a = 0
    BY DEF Has, WellFormed
  <2>. QED BY <1>3, <2>1, <2>2, <2>3
<1>5. /\ \A i, j \in 1 .. n : f.infos[i].name = f.infos[j].name => i = j
      /\ \A i, j \in 1 .. n : i < j => End(f.infos[i]) <= f.infos[j].off
  BY DEF WellFormed, Infos
<1>6. g = [head |-> g.head, align |-> g.align, nested |-> g.nested, pad |-> g.pad,
           infos |-> g.infos, data |-> g.data]
  BY DEF Untied
<1>7. g.pad \in Nat /\ g.head + g.pad = DataStart(g)
  BY <1>1, <1>3, PaddingFills DEF DataStart
<1>8. g.align \in {NoKey} \cup (Nat \ {0}) /\ g.nested \in BOOLEAN
  BY <1>1, Fields
<1>9. Infos(g) = 1 .. n + 1
  BY <1>1 DEF Infos
<1>10. End(g.infos[n + 1]) = o + embd.size
  BY <1>1 DEF End
<1>. HIDE DEF g, a, n, o, embd
<1>11. g \in GgufFile
  BY <1>1, <1>2, <1>6, <1>7, <1>8 DEF GgufFile
<1>12. g.infos # <<>>
  BY <1>1, <1>3
<1>13. \A i, j \in Infos(g) : g.infos[i].name = g.infos[j].name => i = j
  <2>. SUFFICES ASSUME NEW i \in Infos(g), NEW j \in Infos(g),
                       g.infos[i].name = g.infos[j].name
                PROVE  i = j
    OBVIOUS
  <2>1. (i \in 1 .. n \/ i = n + 1) /\ (j \in 1 .. n \/ j = n + 1)
    BY <1>3, <1>9
  <2>. QED BY <1>1, <1>4, <1>5, <2>1
<1>14. \A i \in Infos(g) : g.infos[i].off % Alignment(g) = 0
  <2>. SUFFICES ASSUME NEW i \in Infos(g) PROVE g.infos[i].off % a = 0
    BY <1>1
  <2>1. i \in 1 .. n \/ i = n + 1
    BY <1>3, <1>9
  <2>. QED BY <1>1, <1>3, <1>4, <2>1
<1>15. \A i, j \in Infos(g) : i < j => End(g.infos[i]) <= g.infos[j].off
  <2>. SUFFICES ASSUME NEW i \in Infos(g), NEW j \in Infos(g), i < j
                PROVE  End(g.infos[i]) <= g.infos[j].off
    OBVIOUS
  <2>1. i \in 1 .. n /\ (j \in 1 .. n \/ j = n + 1)
    BY <1>3, <1>9
  <2>2. g.infos[i] = f.infos[i]
    BY <1>1, <2>1
  <2>3. CASE j = n + 1
    BY <1>1, <1>4, <2>1, <2>2, <2>3
  <2>4. CASE j \in 1 .. n
    BY <1>1, <1>5, <2>1, <2>2, <2>4
  <2>. QED BY <2>1, <2>3, <2>4
<1>16. o + embd.size <= AlignUp(o + embd.size, a)
  <2>1. o + embd.size \in Nat
    BY <1>3
  <2>. QED BY <1>3, <2>1, AlignUpBounds
<1>. QED
  BY <1>1, <1>2, <1>3, <1>7, <1>10, <1>11, <1>12, <1>13, <1>14, <1>15, <1>16
  DEF WellFormed, g

\* The rewritten file reads back: every tensor of the input unchanged, and
\* output.weight as token_embd.weight.
THEOREM UntiedReadsBack ==
  ASSUME NEW f, WellFormed(f), Has(f, Embd), ~Has(f, Output)
  PROVE  /\ \A i \in Infos(f) : Read(Untied(f), f.infos[i]) = Read(f, f.infos[i])
         /\ Read(Untied(f), Untied(f).infos[Len(Untied(f).infos)]) = Read(f, EmbdInfo(f))
<1>. DEFINE g == Untied(f)
            n == Len(f.infos)
            o == OutputOffset(f)
            embd == EmbdInfo(f)
<1>1. WellFormed(g)
  BY UntiedWellFormed
<1>2. ASSUME NEW i \in Infos(f)
      PROVE  Read(g, f.infos[i]) = Read(f, f.infos[i])
  <2>. DEFINE t == f.infos[i]
  <2>1. t.off \in Nat /\ t.size \in Nat /\ t.off + t.size <= Len(f.data)
        /\ Len(f.data) \in Nat
    BY Fields
  <2>. HIDE DEF g, t
  <2>2. /\ Read(g, t) = [k \in 0 .. t.size - 1 |-> g.data[t.off + k + 1]]
        /\ Read(f, t) = [k \in 0 .. t.size - 1 |-> f.data[t.off + k + 1]]
    BY <1>1, <2>1, ReadAtOffset
  <2>3. \A k \in 0 .. t.size - 1 : t.off + k + 1 \in 1 .. Len(f.data)
    BY <2>1
  <2>4. \A k \in 0 .. t.size - 1 : g.data[t.off + k + 1] = f.data[t.off + k + 1]
    BY <2>3, UntiedCells DEF g
  <2>. QED BY <2>2, <2>4 DEF t
<1>3. Read(g, g.infos[Len(g.infos)]) = Read(f, embd)
  <2>. DEFINE t == g.infos[Len(g.infos)]
  <2>1. t.off = o /\ t.size = embd.size
    BY UntiedFields
  <2>2. o \in Nat /\ embd.off \in Nat /\ embd.size \in Nat
    BY OutputAtEnd, EmbdIsInfo, Fields
  <2>. HIDE DEF g, t, o, embd
  <2>3. /\ Read(g, t) = [k \in 0 .. t.size - 1 |-> g.data[t.off + k + 1]]
        /\ Read(f, embd) = [k \in 0 .. embd.size - 1 |-> f.data[embd.off + k + 1]]
    BY <1>1, <2>1, <2>2, ReadAtOffset
  <2>4. \A k \in 0 .. embd.size - 1 : g.data[o + k + 1] = f.data[embd.off + k + 1]
    BY UntiedCells DEF g, o, embd
  <2>. QED BY <2>1, <2>3, <2>4 DEF t
<1>. QED BY <1>2, <1>3

--------------------------------------------------------------------------------
(***************************************************************************)
(* Interrupted writes.                                                     *)
(***************************************************************************)

\* Cutting a file short leaves its header and a prefix of its data.
LEMMA CutFields ==
  ASSUME NEW f \in GgufFile, NEW n \in 0 .. Len(f.data)
  PROVE  LET c == Cut(f, n)
         IN /\ c \in GgufFile
            /\ c.head = f.head /\ c.pad = f.pad /\ c.infos = f.infos
            /\ Alignment(c) = Alignment(f) /\ DataStart(c) = DataStart(f)
            /\ Infos(c) = Infos(f)
            /\ Len(c.data) = n /\ \A p \in 1 .. n : c.data[p] = f.data[p]
<1>. DEFINE c == Cut(f, n)
            T == Cells \cup {Pad}
<1>1. f.data \in Seq(T) /\ Len(f.data) \in Nat
  BY DEF GgufFile
<1>2. /\ SubSeq(f.data, 1, n) \in Seq(T) /\ Len(SubSeq(f.data, 1, n)) = n
      /\ \A p \in 1 .. n : SubSeq(f.data, 1, n)[p] = f.data[p]
  <2>1. \A i \in 1 .. n : f.data[i] \in T
    BY <1>1
  <2>. HIDE DEF T
  <2>. QED BY <1>1, <2>1, SubSeqProperties
<1>3. /\ c.head = f.head /\ c.pad = f.pad /\ c.infos = f.infos /\ c.align = f.align
      /\ c.data = SubSeq(f.data, 1, n)
  BY DEF Cut, GgufFile
<1>4. c \in GgufFile
  BY <1>2 DEF Cut, GgufFile
<1>. QED BY <1>2, <1>3, <1>4 DEF Alignment, DataStart, Infos

\* A file cut short that still opens has lost nothing but padding.
LEMMA CutAccepted ==
  ASSUME NEW f, WellFormed(f), NEW n \in 0 .. Len(f.data), Accepts(Cut(f, n))
  PROVE  /\ WellFormed(Cut(f, n))
         /\ \A i \in Infos(f) : Read(Cut(f, n), f.infos[i]) = Read(f, f.infos[i])
<1>. DEFINE c == Cut(f, n)
<1>1. f \in GgufFile
  BY DEF WellFormed
<1>2. /\ c \in GgufFile
      /\ c.head = f.head /\ c.pad = f.pad /\ c.infos = f.infos
      /\ Alignment(c) = Alignment(f) /\ DataStart(c) = DataStart(f)
      /\ Infos(c) = Infos(f)
      /\ Len(c.data) = n /\ \A p \in 1 .. n : c.data[p] = f.data[p]
  BY <1>1, CutFields
<1>3. n \in Nat /\ n <= Len(f.data) /\ Len(f.data) \in Nat
  BY Fields
<1>4. \A i \in Infos(f) : End(f.infos[i]) <= n
  <2>1. \A i \in Infos(f) : DataStart(c) + End(c.infos[i]) <= c.head + c.pad + Len(c.data)
    BY <1>2 DEF Accepts
  <2>2. \A i \in Infos(f) : End(f.infos[i]) \in Nat
    BY Fields
  <2>3. DataStart(c) = c.head + c.pad /\ c.head + c.pad \in Nat
    BY <1>2, Fields
  <2>. HIDE DEF c
  <2>. QED BY <1>2, <1>3, <2>1, <2>2, <2>3
<1>5. Len(f.infos) \in Infos(f) /\ Alignment(f) \in Nat \ {0}
  BY Fields DEF Infos
<1>. HIDE DEF c
<1>6. WellFormed(c)
  <2>1. End(c.infos[Len(c.infos)]) <= Len(c.data)
    BY <1>2, <1>4, <1>5
  <2>2. Len(c.data) <= AlignUp(End(c.infos[Len(c.infos)]), Alignment(c))
    <3>1. Len(f.data) <= AlignUp(End(f.infos[Len(f.infos)]), Alignment(f))
      BY DEF WellFormed
    <3>2. AlignUp(End(f.infos[Len(f.infos)]), Alignment(f)) \in Nat
      BY <1>5, Fields, AlignUpBounds
    <3>. QED BY <1>2, <1>3, <3>1, <3>2
  <2>3. /\ c.infos # <<>> /\ c.head + c.pad = DataStart(c)
        /\ \A i, j \in Infos(c) : c.infos[i].name = c.infos[j].name => i = j
    BY <1>2 DEF WellFormed
  <2>4. \A i \in Infos(c) : c.infos[i].off % Alignment(c) = 0
    BY <1>2 DEF WellFormed
  <2>5. \A i, j \in Infos(c) : i < j => End(c.infos[i]) <= c.infos[j].off
    BY <1>2 DEF WellFormed
  <2>6. Len(c.data) <= AlignUp(End(c.infos[Len(c.infos)]), Alignment(c))
    BY <1>2, <2>2
  <2>. QED BY <1>2, <2>1, <2>3, <2>4, <2>5, <2>6 DEF WellFormed
<1>7. ASSUME NEW i \in Infos(f)
      PROVE  Read(c, f.infos[i]) = Read(f, f.infos[i])
  <2>. DEFINE t == f.infos[i]
  <2>1. t.off \in Nat /\ t.size \in Nat /\ t.off + t.size <= n
    BY <1>4, Fields
  <2>. HIDE DEF t
  <2>2. Read(c, t) = [k \in 0 .. t.size - 1 |-> c.data[t.off + k + 1]]
    BY <1>6, <2>1, ReadAtOffset
  <2>3. Read(f, t) = [k \in 0 .. t.size - 1 |-> f.data[t.off + k + 1]]
    BY <2>1, ReadAtOffset
  <2>4. \A k \in 0 .. t.size - 1 : t.off + k + 1 \in 1 .. n
    BY <1>3, <2>1
  <2>. QED BY <1>2, <2>2, <2>3, <2>4 DEF t
<1>. QED BY <1>6, <1>7 DEF c

\* What the script makes of an accepted input is well formed.
LEMMA ResultWellFormed ==
  ASSUME NEW f, WellFormed(f), ~Refused(f)
  PROVE  WellFormed(Result(f))
  BY UntiedWellFormed DEF Result, Refused

\* A whole file is a prefix of itself.
LEMMA CutWhole ==
  ASSUME NEW f \in GgufFile
  PROVE  f = Cut(f, Len(f.data)) /\ Len(f.data) \in 0 .. Len(f.data)
<1>. DEFINE T == Cells \cup {Pad}
<1>1. f.data \in Seq(T) /\ Len(f.data) \in Nat
  BY DEF GgufFile
<1>2. SubSeq(f.data, 1, Len(f.data)) = f.data
  BY <1>1
<1>. QED BY <1>1, <1>2 DEF Cut, GgufFile

--------------------------------------------------------------------------------
(***************************************************************************)
(* The specification.                                                      *)
(***************************************************************************)

\* An output on disk is always a prefix of what a well-formed input gives.
THEOREM GgufInductive == GgufSpec => []GgufInv
<1>1. GgufInit => GgufInv
  BY SourcesAssumption DEF GgufInit, GgufInv, WellFormed
<1>2. GgufInv /\ [GgufNext]_ggufVars => GgufInv'
  <2>. SUFFICES ASSUME GgufInv, [GgufNext]_ggufVars PROVE GgufInv'
    OBVIOUS
  <2>1. CASE CreateTiedOff
    BY <2>1 DEF GgufInv, CreateTiedOff
  <2>2. CASE Refuse
    BY <2>2 DEF GgufInv, Refuse, ggufVars
  <2>3. CASE Written
    <3>1. WellFormed(Result(made)) /\ ~Refused(made)
      BY <2>3, ResultWellFormed DEF GgufInv, Written
    <3>2. Result(made) \in GgufFile
      BY <3>1 DEF WellFormed
    <3>3. \E n \in 0 .. Len(Result(made).data) : Result(made) = Cut(Result(made), n)
      BY <3>2, CutWhole
    <3>. QED BY <2>3, <3>1, <3>2, <3>3 DEF GgufInv, Written
  <2>4. CASE WrittenPartly
    <3>1. WellFormed(Result(made)) /\ ~Refused(made)
      BY <2>4, ResultWellFormed DEF GgufInv, WrittenPartly
    <3>2. Result(made) \in GgufFile /\ Len(Result(made).data) \in Nat
      BY <3>1, Fields DEF WellFormed
    <3>3. CASE UNCHANGED <<onDisk, dst>>
      BY <2>4, <3>3 DEF GgufInv, WrittenPartly
    <3>4. CASE /\ onDisk' = "file"
               /\ \E n \in 0 .. Len(Result(made).data) - 1 : dst' = Cut(Result(made), n)
      <4>1. PICK n \in 0 .. Len(Result(made).data) - 1 : dst' = Cut(Result(made), n)
        BY <3>4
      <4>2. n \in 0 .. Len(Result(made).data)
        BY <3>2
      <4>3. dst' \in GgufFile
        BY <3>2, <4>1, <4>2, CutFields
      <4>. QED BY <2>4, <3>1, <3>4, <4>1, <4>2, <4>3 DEF GgufInv, WrittenPartly
    <3>. QED BY <2>4, <3>3, <3>4 DEF WrittenPartly
  <2>5. CASE OutputAsInput
    <3>1. PICK n \in 0 .. Len(Result(made).data) : dst = Cut(Result(made), n)
      BY <2>5 DEF GgufInv, OutputAsInput
    <3>2. WellFormed(Result(made))
      BY <2>5, ResultWellFormed DEF GgufInv, OutputAsInput
    <3>3. Accepts(dst) => WellFormed(dst)
      BY <3>1, <3>2, CutAccepted
    <3>. QED BY <2>5, <3>3 DEF GgufInv, OutputAsInput
  <2>6. CASE UNCHANGED ggufVars
    BY <2>6 DEF GgufInv, ggufVars
  <2>. QED BY <2>1, <2>2, <2>3, <2>4, <2>5, <2>6 DEF GgufNext
<1>. QED BY <1>1, <1>2, PTL DEF GgufSpec

\* Whatever is readable at the output path is well formed.
THEOREM OutputSafe == GgufSpec => []OutputWellFormed
<1>1. GgufInv => OutputWellFormed
  <2>. SUFFICES ASSUME GgufInv, Readable PROVE WellFormed(dst)
    BY DEF OutputWellFormed
  <2>1. PICK n \in 0 .. Len(Result(made).data) : dst = Cut(Result(made), n)
    BY DEF GgufInv, Readable
  <2>2. WellFormed(Result(made)) /\ Accepts(dst)
    BY ResultWellFormed DEF GgufInv, Readable
  <2>. QED BY <2>1, <2>2, CutAccepted
<1>. QED BY <1>1, GgufInductive, PTL

\* Whatever is readable at the output path reads back as the input it was made
\* from, with the embedding as its output projection.
THEOREM WholeOrUnreadable == GgufSpec => []UntiedIsWhole
<1>1. GgufInv => UntiedIsWhole
  <2>. SUFFICES ASSUME GgufInv, Readable
                PROVE  /\ \A i \in Infos(made) :
                            Read(dst, made.infos[i]) = Read(made, made.infos[i])
                       /\ ~Has(made, Output) =>
                            Read(dst, dst.infos[Len(dst.infos)]) = Read(made, EmbdInfo(made))
    BY DEF UntiedIsWhole
  <2>1. PICK n \in 0 .. Len(Result(made).data) : dst = Cut(Result(made), n)
    BY DEF GgufInv, Readable
  <2>2. WellFormed(made) /\ ~Refused(made) /\ Accepts(dst)
    BY DEF GgufInv, Readable
  <2>3. WellFormed(Result(made))
    BY <2>2, ResultWellFormed
  <2>4. \A i \in Infos(Result(made)) :
          Read(dst, Result(made).infos[i]) = Read(Result(made), Result(made).infos[i])
    BY <2>1, <2>2, <2>3, CutAccepted
  <2>5. CASE Has(made, Output)
    BY <2>4, <2>5 DEF Result
  <2>6. CASE ~Has(made, Output)
    <3>. DEFINE g == Untied(made)
                m == Len(made.infos)
    <3>1. Result(made) = g /\ Has(made, Embd)
      BY <2>2, <2>6 DEF Result, Refused
    <3>2. /\ Len(g.infos) = m + 1 /\ m \in Nat
          /\ \A i \in 1 .. m : g.infos[i] = made.infos[i]
      BY <2>2, <3>1, UntiedFields, Fields
    <3>3. dst.infos = g.infos
      <4>1. g \in GgufFile
        BY <2>3, <3>1 DEF WellFormed
      <4>. HIDE DEF g
      <4>. QED BY <2>1, <3>1, <4>1, CutFields
    <3>4. /\ \A i \in Infos(made) : Read(g, made.infos[i]) = Read(made, made.infos[i])
          /\ Read(g, g.infos[Len(g.infos)]) = Read(made, EmbdInfo(made))
      BY <2>2, <2>6, <3>1, UntiedReadsBack
    <3>. HIDE DEF g
    <3>5. \A i \in 1 .. m + 1 : Read(dst, g.infos[i]) = Read(g, g.infos[i])
      BY <2>4, <3>1, <3>2 DEF Infos
    <3>6. \A i \in Infos(made) : Read(dst, made.infos[i]) = Read(made, made.infos[i])
      <4>. SUFFICES ASSUME NEW i \in Infos(made)
                    PROVE  Read(dst, made.infos[i]) = Read(made, made.infos[i])
        OBVIOUS
      <4>1. i \in 1 .. m /\ i \in 1 .. m + 1
        BY <3>2 DEF Infos
      <4>. QED BY <3>2, <3>4, <3>5, <4>1
    <3>7. Read(dst, dst.infos[Len(dst.infos)]) = Read(made, EmbdInfo(made))
      <4>1. m + 1 \in 1 .. m + 1
        BY <3>2
      <4>. QED BY <3>2, <3>3, <3>4, <3>5, <4>1
    <3>. QED BY <3>6, <3>7
  <2>. QED BY <2>5, <2>6
<1>. QED BY <1>1, GgufInductive, PTL

--------------------------------------------------------------------------------
(***************************************************************************)
(* Stamps.                                                                 *)
(***************************************************************************)

LEMMA Limits == MaxConverts \in Nat /\ MaxRuns \in Nat /\ MaxFailures \in Nat
BY ExperimentAssumption

\* A file that is there differs from a missing one and from one without JSON.
LEMMA StampThere ==
  ASSUME NEW s \in Stamp
  PROVE  /\ s # None /\ s # Bad
         /\ s.run \in 1 .. MaxRuns /\ s.v \in Variants /\ s.q \in Quants /\ s.upto \in Began .. Ended
BY ExperimentAssumption DEF Stamp

LEMMA Lists ==
  /\ Variants = {"tied_on", "tied_off"}
  /\ \A sel \in Selections : sel \in Seq(Variants)
  /\ \A s \in Seq(Variants) : s # <<>> => Head(s) \in Variants /\ Tail(s) \in Seq(Variants)
<1>1. <<"tied_on", "tied_off">> \in Seq(Variants) /\ <<"tied_on">> \in Seq(Variants)
  BY DEF Variants
<1>. QED BY <1>1 DEF Variants, Selections

\* What a command of the variant under way writes.
LEMMA Current ==
  ASSUME TypeOK, todo # <<>>, run > 0
  PROVE  /\ V \in Variants /\ Tail(todo) \in Seq(Variants)
         /\ <<q, V>> \in Quants \X Variants
         /\ This = Full(V) /\ This \in Stamp
         /\ This.run = run /\ This.v = V /\ This.q = q
         /\ \A n \in Began .. Ended : Came(n) \in Stamp /\ Came(n).v = V
<1>1. V \in Variants /\ Tail(todo) \in Seq(Variants)
  BY Lists DEF TypeOK, V
<1>2. run \in 1 .. MaxRuns
  BY ExperimentAssumption DEF TypeOK
<1>3. \A n \in Began .. Ended : Came(n) \in Stamp /\ Came(n).v = V
  BY <1>1, <1>2 DEF TypeOK, Came, Stamp
<1>4. Ended \in Began .. Ended
  BY DEF Began, Ended
<1>. QED BY <1>1, <1>2, <1>3, <1>4 DEF TypeOK, This, Came, Full

\* A flag that is kept, or set to a Boolean.
LEMMA Flag ==
  ASSUME NEW old \in BOOLEAN, NEW new, NEW b \in BOOLEAN, new = old \/ new = b
  PROVE  new \in BOOLEAN /\ (new => old \/ b)
<1>1. CASE new = old
  BY <1>1
<1>2. CASE new = b
  BY <1>2
<1>. QED BY <1>1, <1>2

LEMMA CleanKept ==
  ASSUME IInv, clean' = clean \/ clean' = FALSE
  PROVE  clean' \in BOOLEAN /\ (clean' => clean)
<1>1. clean \in BOOLEAN
  BY DEF IInv, TypeOK
<1>. QED BY <1>1, Flag

\* What is left of a file is of the same run, variant and model.
LEMMA CutOffFile ==
  ASSUME NEW s \in Stamp \cup {None}, NEW points \in SUBSET (Began .. Ended),
         NEW c \in CutOff(s, points)
  PROVE  /\ c \in Stamp \cup {None}
         /\ c = None \/ (s # None /\ c.v = s.v)
<1>1. CASE s = None
  BY <1>1 DEF CutOff
<1>2. CASE s \in Stamp
  <2>1. s # None /\ s.upto \in Began .. Ended
    BY <1>2, StampThere
  <2>2. PICK n \in {m \in points : m <= s.upto} : c = [run |-> s.run, v |-> s.v, q |-> s.q, upto |-> n]
    BY <2>1 DEF CutOff
  <2>3. n \in Began .. Ended
    BY <2>1, <2>2 DEF Began, Ended
  <2>. QED BY <1>2, <2>1, <2>2, <2>3, StampThere DEF Stamp
<1>. QED BY <1>1, <1>2

--------------------------------------------------------------------------------
(***************************************************************************)
(* The actions.                                                            *)
(***************************************************************************)
LEMMA InitInv == Init => IInv
<1>. SUFFICES ASSUME Init PROVE IInv
  OBVIOUS
<1>1. TypeOK
  <2>1. host \in [Quants \X Variants -> File] /\ device \in [Quants \X Variants -> File]
    BY DEF Init, File
  <2>2. /\ devLog \in [Variants -> Stamp \cup {None}] /\ devGraph \in Stamp \cup {None}
        /\ log \in [Variants -> Stamp \cup {None}] /\ graph \in [Variants -> Stamp \cup {None}]
        /\ sched \in [Variants -> Stamp \cup {None}]
        /\ bench \in [Variants -> Stamp \cup {None, Bad}]
    BY DEF Init
  <2>3. todo \in Seq(Variants)
    BY DEF Init
  <2>4. /\ run \in 0 .. MaxRuns /\ converts \in 0 .. MaxConverts /\ failures \in 0 .. MaxFailures
    BY Limits DEF Init
  <2>5. clean \in BOOLEAN /\ done \subseteq Variants /\ lost \in BOOLEAN
    BY DEF Init
  <2>. QED BY <2>1, <2>2, <2>3, <2>4, <2>5 DEF Init, TypeOK
<1>2. \A v \in Variants : graph[v] = None
  BY DEF Init
<1>. QED BY <1>1, <1>2 DEF Init, IInv, InRun, InVariant

\* The conversion only touches the models.
LEMMA ConversionKeeps ==
  IInv /\ ((\E t \in Quants : Convert(t)) \/ Untie \/ ConvertDone) => IInv'
<1>. SUFFICES ASSUME IInv, (\E t \in Quants : Convert(t)) \/ Untie \/ ConvertDone PROVE IInv'
  OBVIOUS
<1>1. host' \in [Quants \X Variants -> File]
  BY DEF IInv, TypeOK, Convert, Untie, ConvertDone, File, Variants
<1>2. pc' \in {"convert", "untie", "off"} /\ q' \in Quants
  BY DEF IInv, TypeOK, Convert, Untie, ConvertDone
<1>3. converts' \in 0 .. MaxConverts /\ run' = run /\ failures' = failures
  <2>1. ASSUME NEW t \in Quants, Convert(t)
        PROVE  converts' \in 0 .. MaxConverts /\ run' = run /\ failures' = failures
    BY <2>1, Limits DEF IInv, TypeOK, Convert
  <2>2. CASE Untie
    BY <2>2 DEF IInv, TypeOK, Untie, bounds
  <2>3. CASE ConvertDone
    BY <2>3 DEF IInv, TypeOK, ConvertDone, bounds
  <2>. QED BY <2>1, <2>2, <2>3
<1>4. UNCHANGED <<todo, device, devLog, devGraph, log, graph, sched, bench, clean, done, lost>>
  BY DEF Convert, Untie, ConvertDone, dev, results, history
<1>5. TypeOK'
  BY <1>1, <1>2, <1>3, <1>4 DEF IInv, TypeOK
<1>. QED BY <1>2, <1>4, <1>5 DEF IInv, InRun, InVariant

LEMMA StartKeeps ==
  ASSUME NEW t \in Quants, NEW sel \in Selections PROVE IInv /\ Start(t, sel) => IInv'
<1>. SUFFICES ASSUME IInv, Start(t, sel) PROVE IInv'
  OBVIOUS
<1>1. TypeOK'
  BY Lists, ExperimentAssumption DEF Start, IInv, TypeOK, models, dev, results
<1>2. run' > 0 /\ pc' = "next" /\ done' = {} /\ lost' = lost /\ graph' = graph
  BY ExperimentAssumption DEF Start, IInv, TypeOK, results
<1>3. Behind' = {} /\ ~InVariant'
  BY <1>2 DEF Behind, InVariant
<1>. QED BY <1>1, <1>2, <1>3 DEF IInv, VariantInv

LEMMA SkipKeeps == IInv /\ Skip => IInv'
<1>. SUFFICES ASSUME IInv, Skip PROVE IInv'
  OBVIOUS
<1>1. TypeOK'
  BY Lists DEF Skip, IInv, TypeOK, models, dev, results, history, bounds
<1>2. pc = "next" /\ pc' = "next" /\ q' = q
      /\ UNCHANGED <<models, dev, results, history, bounds>>
  BY DEF Skip
<1>3. Behind' = Behind /\ \A v \in Variants : Full(v)' = Full(v)
  BY <1>2 DEF Behind, InVariant, Full, history, bounds
<1>. QED BY <1>1, <1>2, <1>3
         DEF IInv, InRun, InVariant, VariantInv, TypeOK, Behind, results, history, bounds

LEMMA BeginKeeps == IInv /\ Begin => IInv'
<1>. SUFFICES ASSUME IInv, Begin PROVE IInv'
  OBVIOUS
<1>1. pc = "next" /\ pc' = "push" /\ todo # <<>> /\ run > 0 /\ done' = done \cup {V}
      /\ UNCHANGED <<q, todo, models, dev, results, clean, lost, bounds>>
  BY DEF Begin, IInv, InRun
<1>2. TypeOK'
  BY <1>1, Current DEF IInv, TypeOK, models, dev, results, bounds
<1>3. Behind' \subseteq Behind
  BY <1>1 DEF Behind, InVariant, V
<1>4. \A v \in Variants : Full(v)' = Full(v)
  BY <1>1 DEF Full, bounds
<1>. QED BY <1>1, <1>2, <1>3, <1>4
         DEF IInv, InRun, InVariant, VariantInv, TypeOK, Behind, results, bounds

\* A command inside run_variant: the other variants' files stay, and nothing is
\* said of this variant's benchmark before it is made.
LEMMA VariantStep ==
  ASSUME IInv, InVariant, InVariant', TypeOK',
         UNCHANGED <<q, todo, bench, done, run>>,
         \A v \in Variants : v # V => graph'[v] = graph[v] /\ sched'[v] = sched[v],
         ~lost' => /\ ~lost
                   /\ graph'[V] = None \/ graph'[V].v = V
                   /\ pc' = "pull" => devGraph' = None \/ devGraph'.v = V,
         clean' => clean /\ VariantInv'
  PROVE  IInv'
<1>1. InRun /\ InRun' /\ run > 0 /\ todo # <<>> /\ V' = V /\ V \in Variants
  BY Current DEF IInv, InRun, V
<1>2. Behind' = Behind /\ \A v \in Behind : v \in Variants /\ v # V
  BY <1>1 DEF Behind, IInv, TypeOK
<1>3. \A v \in Variants : Full(v)' = Full(v)
  BY DEF Full
<1>4. ~lost' => \A v \in Variants : graph'[v] = None \/ graph'[v].v = v
  BY <1>1 DEF IInv
<1>5. \A v \in Behind' : bench'[v] \in {None, Bad} \/ (bench'[v].run = run' /\ bench'[v].q = q')
  BY <1>1, <1>2 DEF IInv
<1>6. clean' => \A v \in Behind' : graph'[v] = Full(v)' /\ sched'[v] = Full(v)' /\ bench'[v] = Full(v)'
  BY <1>1, <1>2, <1>3 DEF IInv
<1>. QED BY <1>1, <1>4, <1>5, <1>6 DEF IInv

LEMMA PushKeeps == IInv /\ Push => IInv'
<1>. SUFFICES ASSUME IInv, Push PROVE IInv'
  OBVIOUS
<1>1. /\ pc = "push" /\ pc' = "run" /\ InVariant /\ InVariant' /\ todo # <<>> /\ run > 0
      /\ UNCHANGED <<q, todo, host, devLog, devGraph, log, graph, sched, bench, lost, done, run, converts>>
  BY DEF Push, InVariant, InRun, IInv, dev, results
<1>2. /\ failures' \in 0 .. MaxFailures
      /\ clean' \in BOOLEAN /\ (clean' => clean)
  <2>1. failures' \in 0 .. MaxFailures
    BY Limits DEF Push, Fail, IInv, TypeOK
  <2>2. clean' = clean \/ clean' = FALSE
    BY DEF Push, Fail
  <2>. QED BY <2>1, <2>2, CleanKept
<1>3. device' \in [Quants \X Variants -> File]
  <2>1. <<q, V>> \in Quants \X Variants
    BY <1>1, Current DEF IInv
  <2>2. PICK x \in File : device' = [device EXCEPT ![<<q, V>>] = x] \/ device' = device
    <3>1. host[<<q, V>>] \in File /\ "part" \in File
      BY <2>1 DEF IInv, TypeOK, File
    <3>. QED BY <3>1 DEF Push
  <2>3. device \in [Quants \X Variants -> File]
    BY DEF IInv, TypeOK
  <2>. QED BY <2>1, <2>2, <2>3
<1>4. TypeOK'
  BY <1>1, <1>2, <1>3 DEF IInv, TypeOK
<1>5. V \in Variants
  BY <1>1, Current DEF IInv
<1>6. ~lost' => ~lost /\ (graph'[V] = None \/ graph'[V].v = V)
  BY <1>1, <1>5 DEF IInv
<1>7. VariantInv'
  BY <1>1 DEF VariantInv
<1>. QED BY <1>1, <1>2, <1>4, <1>6, <1>7, VariantStep

\* What a program that ends early leaves.
LEMMA DiesLeaves ==
  ASSUME TypeOK, todo # <<>>, run > 0, Dies(None)
  PROVE  /\ devLog' \in [Variants -> Stamp \cup {None}]
         /\ devGraph' \in Stamp \cup {None}
         /\ devGraph' = None \/ devGraph'.v = V
<1>1. V \in Variants /\ This \in Stamp /\ This.v = V
      /\ \A n \in Began .. Ended : Came(n) \in Stamp /\ Came(n).v = V
  BY Current
<1>2. devLog' = devLog \/ \E n \in Began .. Ended : devLog' = [devLog EXCEPT ![V] = Came(n)]
  BY DEF Dies, Began, Traced, Ended
<1>3. devGraph' \in {None, Came(Began), This}
  BY DEF Dies
<1>4. Began \in Began .. Ended
  BY DEF Began, Ended
<1>. QED BY <1>1, <1>2, <1>3, <1>4 DEF TypeOK

LEMMA InferKeeps == IInv /\ Infer => IInv'
<1>. SUFFICES ASSUME IInv, Infer PROVE IInv'
  OBVIOUS
<1>1. /\ pc = "run" /\ pc' = "pull" /\ InVariant /\ InVariant' /\ todo # <<>> /\ run > 0
      /\ UNCHANGED <<q, todo, host, device, log, graph, sched, bench, done, run, converts>>
  BY DEF Infer, Inference, InVariant, InRun, IInv, models, results
<1>2. failures' \in 0 .. MaxFailures
  BY Limits DEF Infer, Inference, Fail, IInv, TypeOK
<1>3. V \in Variants /\ This \in Stamp /\ This = Full(V) /\ This.v = V
  BY <1>1, Current DEF IInv
<1>4. \/ clean' = clean /\ lost' = lost /\ devLog' = [devLog EXCEPT ![V] = This] /\ devGraph' = This
      \/ clean' = FALSE /\ lost' = lost /\ devLog' = [devLog EXCEPT ![V] = This] /\ devGraph' = None
      \/ clean' = FALSE /\ lost' = TRUE /\ devLog' = devLog /\ devGraph' = devGraph
      \/ clean' = FALSE /\ lost' = lost /\ Dies(None)
  BY DEF Infer, Inference, Fail, dev
<1>5. /\ devLog' \in [Variants -> Stamp \cup {None}] /\ devGraph' \in Stamp \cup {None}
      /\ lost' = TRUE \/ devGraph' = None \/ devGraph'.v = V
  <2>1. CASE Dies(None)
    BY <1>1, <2>1, DiesLeaves DEF IInv
  <2>2. CASE ~Dies(None)
    BY <1>3, <1>4, <2>2 DEF IInv, TypeOK
  <2>. QED BY <2>1, <2>2
<1>6. clean' \in BOOLEAN /\ lost' \in BOOLEAN /\ (clean' => clean) /\ (~lost' => ~lost)
  <2>1. lost \in BOOLEAN /\ (lost' = lost \/ lost' = TRUE)
    BY <1>4 DEF IInv, TypeOK
  <2>2. lost' \in BOOLEAN /\ (~lost' => ~lost)
    BY <2>1
  <2>3. clean' = clean \/ clean' = FALSE
    BY <1>4
  <2>. QED BY <2>2, <2>3, CleanKept
<1>7. TypeOK'
  BY <1>1, <1>2, <1>5, <1>6 DEF IInv, TypeOK
<1>8. ~lost' => /\ graph'[V] = None \/ graph'[V].v = V
                /\ devGraph' = None \/ devGraph'.v = V
  <2>1. ~lost' => devGraph' = None \/ devGraph'.v = V
    BY <1>5
  <2>2. ~lost' => graph'[V] = None \/ graph'[V].v = V
    BY <1>1, <1>3, <1>6 DEF IInv
  <2>. QED BY <2>1, <2>2
<1>9. clean' => VariantInv'
  <2>1. clean' => devLog'[V] = Full(V) /\ devGraph' = Full(V)
    BY <1>3, <1>4 DEF IInv, TypeOK
  <2>2. Full(V)' = Full(V) /\ V' = V
    BY <1>1 DEF Full, V
  <2>. QED BY <1>1, <2>1, <2>2 DEF VariantInv
<1>. QED BY <1>1, <1>6, <1>7, <1>8, <1>9, VariantStep

LEMMA PullKeeps == IInv /\ Pull => IInv'
<1>. SUFFICES ASSUME IInv, Pull PROVE IInv'
  OBVIOUS
<1>1. /\ pc = "pull" /\ pc' = "extract" /\ InVariant /\ InVariant' /\ InRun /\ todo # <<>> /\ run > 0
      /\ UNCHANGED <<q, todo, host, device, devLog, devGraph, sched, bench, lost, done, run, converts>>
  BY DEF Pull, InVariant, InRun, IInv, models, dev
<1>2. failures' \in 0 .. MaxFailures
  BY Limits DEF Pull, Fail, IInv, TypeOK
<1>3. clean' \in BOOLEAN /\ (clean' => clean)
  <2>1. clean' = clean \/ clean' = FALSE
    BY DEF Pull, Fail
  <2>. QED BY <2>1, CleanKept
<1>4. /\ V \in Variants /\ Full(V) \in Stamp /\ Full(V) # None
      /\ devLog[V] \in Stamp \cup {None} /\ devGraph \in Stamp \cup {None}
      /\ log \in [Variants -> Stamp \cup {None}] /\ graph \in [Variants -> Stamp \cup {None}]
  BY <1>1, Current, StampThere DEF IInv, TypeOK
<1>5. /\ log' \in {Pulled(log, devLog[V])} \cup Broken(log)
      /\ graph' \in {Pulled(graph, devGraph)} \cup Broken(graph)
      /\ clean' => log' = Pulled(log, devLog[V]) /\ graph' = Pulled(graph, devGraph)
  BY DEF Pull, Fail
<1>6. /\ log' \in [Variants -> Stamp \cup {None}]
      /\ graph' \in [Variants -> Stamp \cup {None}]
      /\ \A v \in Variants : v # V => graph'[v] = graph[v]
      /\ graph'[V] \in {graph[V], devGraph, None}
  BY <1>4, <1>5 DEF Pulled, Broken
<1>7. TypeOK'
  BY <1>1, <1>2, <1>3, <1>6 DEF IInv, TypeOK
<1>8. ~lost' => ~lost /\ (graph'[V] = None \/ graph'[V].v = V)
  BY <1>1, <1>4, <1>6 DEF IInv
<1>9. clean' => VariantInv'
  <2>. SUFFICES ASSUME clean' PROVE VariantInv'
    OBVIOUS
  <2>1. devLog[V] = Full(V) /\ devGraph = Full(V)
    BY <1>1, <1>3 DEF IInv, VariantInv
  <2>2. log'[V] = Full(V) /\ graph'[V] = Full(V)
    BY <1>4, <1>5, <2>1 DEF Pulled
  <2>3. Full(V)' = Full(V) /\ V' = V
    BY <1>1 DEF Full, V
  <2>. QED BY <1>1, <2>2, <2>3 DEF VariantInv
<1>. QED BY <1>1, <1>3, <1>6, <1>7, <1>8, <1>9, VariantStep

LEMMA ExtractKeeps == IInv /\ Extract => IInv'
<1>. SUFFICES ASSUME IInv, Extract PROVE IInv'
  OBVIOUS
<1>1. /\ pc = "extract" /\ pc' = "bench" /\ InVariant /\ InVariant' /\ InRun /\ todo # <<>> /\ run > 0
      /\ UNCHANGED <<q, todo, host, device, devLog, devGraph, log, graph, bench>>
      /\ UNCHANGED <<clean, done, lost, run, converts, failures>>
  BY DEF Extract, InVariant, InRun, IInv, models, dev, history, bounds
<1>2. /\ V \in Variants /\ Full(V) # None
      /\ log[V] \in Stamp \cup {None} /\ sched \in [Variants -> Stamp \cup {None}]
  BY <1>1, Current, StampThere DEF IInv, TypeOK
<1>3. sched' \in [Variants -> Stamp \cup {None}] /\ \A v \in Variants : v # V => sched'[v] = sched[v]
  BY <1>2 DEF Extract
<1>4. TypeOK'
  BY <1>1, <1>3 DEF IInv, TypeOK
<1>5. ~lost' => ~lost /\ (graph'[V] = None \/ graph'[V].v = V)
  BY <1>1, <1>2 DEF IInv
<1>6. clean' => VariantInv'
  <2>. SUFFICES ASSUME clean' PROVE VariantInv'
    OBVIOUS
  <2>1. log[V] = Full(V) /\ graph[V] = Full(V)
    BY <1>1 DEF IInv, VariantInv
  <2>2. sched'[V] = Full(V)
    BY <1>2, <2>1 DEF Extract
  <2>3. Full(V)' = Full(V) /\ V' = V
    BY <1>1 DEF Full, V
  <2>. QED BY <1>1, <2>1, <2>2, <2>3 DEF VariantInv
<1>. QED BY <1>1, <1>3, <1>4, <1>5, <1>6, VariantStep

LEMMA BenchKeeps == IInv /\ Bench => IInv'
<1>. SUFFICES ASSUME IInv, Bench PROVE IInv'
  OBVIOUS
<1>1. /\ pc = "bench" /\ pc' = "next" /\ todo' = Tail(todo) /\ todo # <<>> /\ run > 0
      /\ UNCHANGED <<q, host, device, devLog, devGraph, log, graph, sched, lost, done, run, converts>>
      /\ InVariant /\ InRun /\ ~InVariant' /\ InRun'
  BY DEF Bench, InVariant, InRun, IInv, models, dev
<1>2. failures' \in 0 .. MaxFailures
  BY Limits DEF Bench, Fail, IInv, TypeOK
<1>3. /\ V \in Variants /\ Tail(todo) \in Seq(Variants) /\ This \in Stamp /\ This = Full(V)
      /\ This.run = run /\ This.q = q
  BY <1>1, Current DEF IInv
<1>4. \/ clean' = clean /\ bench' = [bench EXCEPT ![V] = This]
      \/ clean' = FALSE /\ bench' = [bench EXCEPT ![V] = Bad]
  BY DEF Bench, Fail
<1>5. clean' \in BOOLEAN /\ (clean' => clean)
  <2>1. clean' = clean \/ clean' = FALSE
    BY <1>4
  <2>. QED BY <2>1, CleanKept
<1>6. /\ bench' \in [Variants -> Stamp \cup {None, Bad}]
      /\ \A v \in Variants : v # V => bench'[v] = bench[v]
      /\ bench'[V] = This \/ (bench'[V] = Bad /\ ~clean')
  BY <1>3, <1>4 DEF IInv, TypeOK
<1>7. TypeOK'
  BY <1>1, <1>2, <1>3, <1>5, <1>6 DEF IInv, TypeOK
<1>8. /\ \A v \in Behind' : v \in Variants /\ (v \in Behind \/ v = V)
      /\ \A v \in Variants : Full(v)' = Full(v)
  BY <1>1 DEF Behind, IInv, TypeOK, Full
<1>9. \A v \in Behind' : bench'[v] \in {None, Bad} \/ (bench'[v].run = run' /\ bench'[v].q = q')
  <2>. SUFFICES ASSUME NEW v \in Behind'
                PROVE  bench'[v] \in {None, Bad} \/ (bench'[v].run = run' /\ bench'[v].q = q')
    OBVIOUS
  <2>1. CASE v = V
    BY <1>1, <1>3, <1>6, <2>1
  <2>2. CASE v # V
    BY <1>1, <1>6, <1>8, <2>2 DEF IInv
  <2>. QED BY <2>1, <2>2
<1>10. clean' => \A v \in Behind' : graph'[v] = Full(v)' /\ sched'[v] = Full(v)' /\ bench'[v] = Full(v)'
  <2>. SUFFICES ASSUME clean', NEW v \in Behind'
                PROVE  graph[v] = Full(v) /\ sched[v] = Full(v) /\ bench'[v] = Full(v)
    BY <1>1, <1>8
  <2>1. CASE v = V
    BY <1>1, <1>3, <1>5, <1>6, <2>1 DEF IInv, VariantInv
  <2>2. CASE v # V
    BY <1>1, <1>5, <1>6, <1>8, <2>2 DEF IInv
  <2>. QED BY <2>1, <2>2
<1>. QED BY <1>1, <1>7, <1>9, <1>10 DEF IInv, VariantInv

LEMMA ParseKeeps == IInv /\ Parse => IInv'
<1>. SUFFICES ASSUME IInv, Parse PROVE IInv'
  OBVIOUS
<1>1. /\ pc = "next" /\ pc' = "parsed" /\ UNCHANGED <<q, todo, host, device, devLog, devGraph>>
      /\ UNCHANGED <<log, graph, sched, bench, clean, done, lost, run, converts, failures>>
  BY DEF Parse, models, dev, results, history, bounds
<1>2. TypeOK'
  BY <1>1 DEF IInv, TypeOK
<1>3. Behind' = Behind /\ InRun /\ ~InVariant' /\ \A v \in Variants : Full(v)' = Full(v)
  BY <1>1 DEF Behind, InRun, InVariant, Full
<1>. QED BY <1>1, <1>2, <1>3 DEF IInv, VariantInv, TypeOK, Behind

LEMMA InterruptKeeps == IInv /\ Interrupt => IInv'
<1>. SUFFICES ASSUME IInv, Interrupt PROVE IInv'
  OBVIOUS
<1>1. /\ pc' = "off" /\ todo' = <<>> /\ ~InVariant' /\ ~InRun'
      /\ UNCHANGED <<q, host, clean, done, lost, run, converts, failures>>
  BY DEF Interrupt, InVariant, InRun, history, bounds
<1>2. CASE ~InVariant
  <2>1. UNCHANGED <<device, devLog, devGraph, log, graph, sched, bench>>
    BY <1>2 DEF Interrupt, InVariant, dev, results
  <2>. QED BY <1>1, <2>1 DEF IInv, TypeOK
<1>3. CASE InVariant
  <2>1. /\ todo # <<>> /\ run > 0
    BY <1>3 DEF IInv, InRun
  <2>2. /\ V \in Variants /\ <<q, V>> \in Quants \X Variants
    BY <2>1, Current DEF IInv
  <2>3. /\ devLog[V] \in Stamp \cup {None} /\ devGraph \in Stamp \cup {None}
        /\ log[V] \in Stamp \cup {None}
        /\ log \in [Variants -> Stamp \cup {None}] /\ graph \in [Variants -> Stamp \cup {None}]
        /\ sched \in [Variants -> Stamp \cup {None}]
        /\ bench \in [Variants -> Stamp \cup {None, Bad}]
    BY <2>2 DEF IInv, TypeOK
  <2>4. device' \in [Quants \X Variants -> File]
    BY <2>2 DEF Interrupt, IInv, TypeOK, File
  <2>5. devLog' \in [Variants -> Stamp \cup {None}] /\ devGraph' \in Stamp \cup {None}
    <3>1. CASE Dies(None)
      BY <2>1, <3>1, DiesLeaves DEF IInv
    <3>2. CASE ~Dies(None)
      BY <3>2 DEF Interrupt, IInv, TypeOK, dev
    <3>. QED BY <3>1, <3>2
  <2>. DEFINE all == Began .. Ended
              logs == {log, Pulled(log, devLog[V])} \cup {Pulled(log, c) : c \in CutOff(devLog[V], all)}
              graphs == {graph} \cup {Pulled(graph, c) : c \in CutOff(devGraph, {Began, Ended})}
              scheds == {sched} \cup {[sched EXCEPT ![V] = c] : c \in CutOff(log[V], all)}
  <2>6. /\ log' \in logs
        /\ graph' = graph \/ (pc = "pull" /\ graph' \in graphs)
        /\ sched' \in scheds
        /\ bench' = bench \/ bench' = [bench EXCEPT ![V] = Bad]
    BY DEF Interrupt, results
  <2>7. /\ \A c \in CutOff(devLog[V], all) \cup CutOff(log[V], all) : c \in Stamp \cup {None}
        /\ \A c \in CutOff(devGraph, {Began, Ended}) :
             c \in Stamp \cup {None} /\ (c = None \/ (devGraph # None /\ c.v = devGraph.v))
    <3>1. {Began, Ended} \in SUBSET all /\ all \in SUBSET all
      BY DEF Began, Ended
    <3>. HIDE DEF all
    <3>. QED BY <2>3, <3>1, CutOffFile DEF all
  <2>8. log' \in [Variants -> Stamp \cup {None}]
    <3>1. \A c \in Stamp \cup {None} : Pulled(log, c) \in [Variants -> Stamp \cup {None}]
      BY <2>2, <2>3 DEF Pulled
    <3>2. \A f \in logs : f \in [Variants -> Stamp \cup {None}]
      <4>. SUFFICES ASSUME NEW f \in logs PROVE f \in [Variants -> Stamp \cup {None}]
        OBVIOUS
      <4>1. CASE f = log
        BY <2>3, <4>1
      <4>2. CASE f = Pulled(log, devLog[V])
        BY <2>3, <3>1, <4>2
      <4>3. CASE \E c \in CutOff(devLog[V], all) : f = Pulled(log, c)
        BY <2>7, <3>1, <4>3
      <4>. QED BY <4>1, <4>2, <4>3
    <3>. QED BY <2>6, <3>2
  <2>9. graph' \in [Variants -> Stamp \cup {None}]
    <3>1. \A c \in Stamp \cup {None} : Pulled(graph, c) \in [Variants -> Stamp \cup {None}]
      BY <2>2, <2>3 DEF Pulled
    <3>2. \A f \in graphs : f \in [Variants -> Stamp \cup {None}]
      <4>. SUFFICES ASSUME NEW f \in graphs PROVE f \in [Variants -> Stamp \cup {None}]
        OBVIOUS
      <4>1. CASE f = graph
        BY <2>3, <4>1
      <4>2. CASE \E c \in CutOff(devGraph, {Began, Ended}) : f = Pulled(graph, c)
        BY <2>7, <3>1, <4>2
      <4>. QED BY <4>1, <4>2
    <3>. QED BY <2>3, <2>6, <3>2
  <2>10. sched' \in [Variants -> Stamp \cup {None}]
    BY <2>2, <2>3, <2>6, <2>7
  <2>11. bench' \in [Variants -> Stamp \cup {None, Bad}]
    BY <2>2, <2>3, <2>6
  <2>12. TypeOK'
    BY <1>1, <2>4, <2>5, <2>8, <2>9, <2>10, <2>11 DEF IInv, TypeOK
  <2>13. ~lost' => \A v \in Variants : graph'[v] = None \/ graph'[v].v = v
    <3>. SUFFICES ASSUME ~lost', NEW v \in Variants PROVE graph'[v] = None \/ graph'[v].v = v
      OBVIOUS
    <3>1. graph[v] = None \/ graph[v].v = v
      BY <1>1 DEF IInv
    <3>2. CASE graph' = graph
      BY <3>1, <3>2
    <3>3. CASE pc = "pull" /\ graph' \in graphs
      <4>1. devGraph = None \/ devGraph.v = V
        BY <1>1, <3>3 DEF IInv
      <4>2. \A c \in CutOff(devGraph, {Began, Ended}) : c = None \/ c.v = V
        BY <2>7, <4>1
      <4>3. \A w \in Variants : graph'[w] = graph[w] \/ (w = V /\ (graph'[w] = None \/ graph'[w].v = V))
        BY <2>2, <2>3, <3>3, <4>2 DEF Pulled
      <4>. QED BY <3>1, <4>3
    <3>. QED BY <2>6, <3>2, <3>3
  <2>. QED BY <1>1, <2>12, <2>13 DEF IInv
<1>. QED BY <1>2, <1>3

--------------------------------------------------------------------------------
(***************************************************************************)
(* The theorems.                                                           *)
(***************************************************************************)

\* Which files a run has already replaced, variant by variant and command by
\* command, whatever earlier runs left and whatever failed.
THEOREM Inductive == Spec => []IInv
<1>1. IInv /\ [Next]_vars => IInv'
  <2>. SUFFICES ASSUME IInv, [Next]_vars PROVE IInv'
    OBVIOUS
  <2>1. CASE UNCHANGED vars
    <3>1. /\ UNCHANGED <<pc, q, todo, host, device, devLog, devGraph, log, graph, sched, bench>>
          /\ UNCHANGED <<clean, done, lost, run, converts, failures>>
      BY <2>1 DEF vars, models, dev, results, history, bounds
    <3>. QED BY <3>1 DEF IInv, TypeOK, InRun, InVariant, Behind, VariantInv, Full, V
  <2>. QED BY <2>1, ConversionKeeps, StartKeeps, SkipKeeps, BeginKeeps, PushKeeps, InferKeeps,
              PullKeeps, ExtractKeeps, BenchKeeps, ParseKeeps, InterruptKeeps
           DEF Next, Finished
<1>. QED BY InitInv, <1>1, PTL DEF Spec

\* After a run that met no failure parse_results.py reads, of every variant that ran,
\* this run's complete files; its conclusion follows the place of the embedding table,
\* and there are numbers if llama-bench prints the keys it looks for.
THEOREM Reported == Spec => []CleanRunIsReported
<1>1. IInv => CleanRunIsReported
  <2>. SUFFICES ASSUME IInv, pc = "parsed", clean, NEW v \in done
                PROVE  /\ graph[v] = Full(v) /\ sched[v] = graph[v]
                       /\ Performance(v) = IF BenchKeys THEN graph[v] ELSE None
                       /\ Conclusion(v) = IF Buft[q] = "other" THEN "uncertain" ELSE Buft[q]
    BY DEF CleanRunIsReported, Full
  <2>1. graph[v] = Full(v) /\ sched[v] = Full(v) /\ bench[v] = Full(v)
    BY DEF IInv, InRun, InVariant, Behind
  <2>2. Full(v) \in Stamp /\ Full(v).upto = Ended /\ Full(v).q = q
    BY ExperimentAssumption DEF IInv, InRun, TypeOK, Full, Stamp, Began, Ended
  <2>3. Full(v) # None /\ Full(v) # Bad
    BY <2>2, StampThere
  <2>4. Performance(v) = IF BenchKeys THEN graph[v] ELSE None
    BY <2>1, <2>3 DEF Performance
  <2>5. Embtrace(v) = Buft[q] /\ Optrace(v) = FirstGetRows(q)
    BY <2>1, <2>2, <2>3 DEF Embtrace, Optrace, Loaded, Traced, Ended
  <2>6. Buft[q] \in {"CPU", "HTP", "other"}
    BY ExperimentAssumption DEF IInv, TypeOK
  <2>7. Conclusion(v) = IF Buft[q] = "other" THEN "uncertain" ELSE Buft[q]
    BY <2>5, <2>6 DEF Conclusion, FirstGetRows
  <2>. QED BY <2>1, <2>4, <2>7
<1>. QED BY Inductive, <1>1, PTL

\* The benchmark of a variant that ran is this run's or missing, whatever failed.
THEOREM BenchIsFresh == Spec => []BenchOfThisRun
<1>1. IInv => BenchOfThisRun
  <2>. SUFFICES ASSUME IInv, pc = "parsed", NEW v \in done
                PROVE  Performance(v) = None \/ (Performance(v).run = run /\ Performance(v).q = q)
    BY DEF BenchOfThisRun
  <2>1. bench[v] \in {None, Bad} \/ (bench[v].run = run /\ bench[v].q = q)
    BY DEF IInv, InRun, InVariant, Behind
  <2>. QED BY <2>1 DEF Performance
<1>. QED BY Inductive, <1>1, PTL

\* The graph dumps of the two variants, which have one name on the device, are not
\* mixed up unless a shell was lost before it could remove the old one.
THEOREM OwnGraphs == Spec => []GraphOfOwnVariant
<1>1. IInv => GraphOfOwnVariant
  <2>. SUFFICES ASSUME IInv, ~lost PROVE GraphOfOwnVariant
    BY DEF GraphOfOwnVariant
  <2>1. \A v \in Variants : graph[v] = None \/ graph[v].v = v
    BY DEF IInv
  <2>2. graph["tied_on"] = None \/ graph["tied_on"].v = "tied_on"
    BY <2>1 DEF Variants
  <2>3. graph["tied_off"] = None \/ graph["tied_off"].v = "tied_off"
    BY <2>1 DEF Variants
  <2>. QED BY <2>2, <2>3 DEF GraphOfOwnVariant, LogitsSource
<1>. QED BY Inductive, <1>1, PTL
================================================================================
