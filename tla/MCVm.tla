-------------------------------- MODULE MCVm --------------------------------
(* Two processes whose memories together need more pages than there are.   *)
(* Which pages a process has makes no difference: the view has the tree of *)
(* each page table with the bytes below it, and the number of free pages.  *)
EXTENDS Vm

Seg(v, n, f) == [vaddr |-> v, memsz |-> n, filesz |-> f]

MCIncr == {-3, 1, 3}
MCBuf == {<<1, 2>>}
MCImage == {<<Seg(0, 1, 1)>>, <<Seg(0, 1, 1), Seg(4, 2, 1)>>}

Valid(t) == {i \in 0 .. FANOUT - 1 : m.mem[t][i].flags # {}}
Below(t, i) == m.mem[t][i].pa
Byte(pa) == IF pa = Trampoline THEN <<>> ELSE m.mem[pa]
Tree(pt) ==
    [i \in Valid(pt) |->
        [j \in Valid(Below(pt, i)) |->
            LET leaf == Below(Below(pt, i), j) IN
            [k \in Valid(leaf) |-> <<m.mem[leaf][k].flags, Byte(Below(leaf, k))>>]]]

View ==
    <<Cardinality(m.free), state, sz, image, panicked,
      [p \in Proc |-> [r \in {<<pt = pagetable[p], Tree(pt)>> : pt \in Roots(p)} |-> 0]],
      [p \in Proc |-> [f \in DOMAIN call[p] \ {"pt"} |-> call[p][f]]]>>
=============================================================================
