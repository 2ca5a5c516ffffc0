----------------------------- MODULE MCTiedOffGguf -----------------------------
EXTENDS TiedOffGguf

TensorNames == {Embd, Output, "blk.0.attn_q.weight"}
TensorCells == TensorNames \X (0 .. 2)

\* Sizes of at most 3 cells under an alignment of 2 (recorded) or 4 (default):
\* a tensor may end before, at and after an alignment boundary.
Sizes == 1 .. 3

Orders == {s \in UNION {[1 .. n -> TensorNames] : n \in 1 .. 3} :
             \A i, j \in DOMAIN s : s[i] = s[j] => i = j}

\* The converter's layout: each tensor at the next aligned offset.
Layout(order, sizes, a) ==
  LET off[i \in DOMAIN order] ==
        IF i = 1 THEN 0 ELSE AlignUp(off[i - 1] + sizes[i - 1], a)
  IN [i \in DOMAIN order |->
        [name |-> order[i], dims |-> 2, size |-> sizes[i], off |-> off[i]]]

CellAt(infos, p) ==
  IF \E i \in DOMAIN infos : p \in infos[i].off .. End(infos[i]) - 1
  THEN LET t == infos[CHOOSE i \in DOMAIN infos : p \in infos[i].off .. End(infos[i]) - 1]
       IN <<t.name, p - t.off>>
  ELSE Pad

Made(order, sizes, key, head, padded, nested) ==
  LET a == IF key = NoKey THEN DefaultAlignment ELSE key
      infos == Layout(order, sizes, a)
      end == End(infos[Len(infos)])
  IN [head |-> head, align |-> key, nested |-> nested,
      pad |-> AlignUp(head, a) - head, infos |-> infos,
      data |-> [p \in 1 .. (IF padded THEN AlignUp(end, a) ELSE end) |->
                  CellAt(infos, p - 1)]]

SmallFiles ==
  UNION {{Made(o, s, k, h, p, n) :
            s \in [DOMAIN o -> Sizes], k \in {NoKey, 2}, h \in {61, 64},
            p \in BOOLEAN, n \in BOOLEAN} : o \in Orders}
================================================================================
