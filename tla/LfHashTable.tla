---------------------------- MODULE LfHashTable ----------------------------
(***************************************************************************)
(* The bucket tables of src/rculfhash.c: which memory cell bucket_at()     *)
(* finds for an index under each of the three memory management plugins,   *)
(* which cells the plugins have allocated as the table grows and shrinks,  *)
(* how an order is divided among threads, and the bit arithmetic on word   *)
(* sizes and hashes all of it rests on.                                    *)
(***************************************************************************)
EXTENDS Integers, SequencesExt

CONSTANTS Width,          \* bits per word, a multiple of 8
          Inputs,         \* words on which the bit arithmetic is evaluated
          Args,           \* argument values of cds_lfht_new()
          MaxSize,        \* bound: buckets of a table that may grow for ever
          PageBuckets,    \* buckets per page, a power of two
          MaxChunkTable,  \* MAX_CHUNK_TABLE
          MinPartition,   \* MIN_PARTITION_PER_THREAD_ORDER
          Cpus            \* possible values of nr_cpus_mask

VARIABLES ht,    \* the table: plugin, sizes, allocated cells, order to be freed
          made   \* the buckets that have been populated
vars == <<ht, made>>

-----------------------------------------------------------------------------
(* Bit arithmetic *)

(* The byte that differs from v in the order of its bits: the entries of   *)
(* BitReverseTable256, whose macros R6, R4 and R2 take two bits at a time. *)
Pair == <<0, 2, 1, 3>>
BitReverseTable256 ==
  [v \in 0..255 |-> Pair[1 + (v \div 64)] + 4 * Pair[1 + ((v \div 16) % 4)]
                    + 16 * Pair[1 + ((v \div 4) % 4)] + 64 * Pair[1 + (v % 4)]]

Byte(v, i) == (v \div 2^(8 * i)) % 256
Bytes == 0..(Width \div 8 - 1)

(* bit_reverse_ulong() *)
BitReverse(v) ==
  FoldSet(LAMBDA i, r : r + 2^(Width - 8 - 8 * i) * BitReverseTable256[Byte(v, i)], 0, Bytes)

(* The generic fls: shift by halves, and count down the width. *)
Fls(v) ==
  LET step(s, w) == IF w[1] \div 2^(Width - s) = 0
                    THEN <<(w[1] * 2^s) % 2^Width, w[2] - s>> ELSE w
  IN IF v = 0 THEN 0
     ELSE FoldLeft(LAMBDA w, s : step(s, w), <<v, Width>>,
                   SelectSeq(<<32, 16, 8, 4, 2, 1>>, LAMBDA s : s < Width))[2]

CountOrder(v) == IF v = 0 THEN -1 ELSE Fls(v - 1)
PowerOf2(v) == \E i \in 0..(Width - 1) : v = 2^i

-----------------------------------------------------------------------------
(* The plugins: where bucket i is, and which cells an order adds *)

OrderAt(h, i) == IF i < h.min THEN <<0, i>> ELSE <<Fls(i), i % 2^(Fls(i) - 1)>>
ChunkAt(h, i) == <<i \div h.min, i % h.min>>

BucketAt(h, i) == CASE h.mm = "order" -> OrderAt(h, i)
                    [] h.mm = "chunk" -> ChunkAt(h, i)
                    [] h.mm = "mmap" -> <<0, i>>

FirstTable(h) == {0} \X (0..(h.min - 1))
OrderTable(h, o) == {o} \X (0..(2^(o - 1) - 1))
ChunkTable(h, o) == LET len == 2^(o - 1) \div h.min
                    IN (len..(2 * len - 1)) \X (0..(h.min - 1))
MmapTable(h, o) == {0} \X (2^(o - 1)..(2^o - 1))

(* The cells of order o: nothing for the ones the first allocation holds. *)
Table(h, o) == CASE o = 0 -> FirstTable(h)
                 [] 0 < o /\ o <= CountOrder(h.min) -> {}
                 [] OTHER -> CASE h.mm = "order" -> OrderTable(h, o)
                               [] h.mm = "chunk" -> ChunkTable(h, o)
                               [] h.mm = "mmap" -> MmapTable(h, o)

(* The plugins' alloc_cds_lfht(): the size of the first allocation. *)
ChunkMin(min, max) == Max({min, max \div MaxChunkTable})
MmapMin(min, max) == IF max <= PageBuckets THEN max ELSE Max({min, PageBuckets})
MinAlloc(mm, min, max) == CASE mm = "order" -> min
                            [] mm = "chunk" -> ChunkMin(min, max)
                            [] mm = "mmap" -> MmapMin(min, max)

Alloc(h, o) == [h EXCEPT !.mem = @ \cup Table(h, o), !.cells = @ + Cardinality(Table(h, o))]
Release(h, o) == [h EXCEPT !.mem = @ \ Table(h, o), !.cells = @ - Cardinality(Table(h, o))]
NoTable == [live |-> FALSE, mm |-> "order", min |-> 1, max |-> 1, size |-> 0,
            mem |-> {}, cells |-> 0, pending |-> 0]

-----------------------------------------------------------------------------
(* The buckets of an order, divided among threads *)

(* Variant: what is left after a failed pthread_create is not done.        *)
PiecesNoFallback(len, mask, fail) ==
  IF mask < 0 \/ len < 2 * 2^MinPartition THEN {<<0, len>>}
  ELSE LET n == IF mask > 0 THEN Min({mask + 1, len \div 2^MinPartition}) ELSE 1
           part == len \div 2^CountOrder(n)
       IN {<<t * part, part>> : t \in 0..(Min({n, fail}) - 1)}

(* partition_resize_helper(): the (start, length) of each call of fct, if  *)
(* the creation of thread number "fail" fails with EAGAIN.                 *)
Pieces(len, mask, fail) ==
  IF mask < 0 \/ len < 2 * 2^MinPartition THEN {<<0, len>>}
  ELSE LET n == IF mask > 0 THEN Min({mask + 1, len \div 2^MinPartition}) ELSE 1
           part == len \div 2^CountOrder(n)
           started == Min({n, fail})
           start == IF fail < n THEN fail * part ELSE 0
       IN {<<t * part, part>> : t \in 0..(started - 1)}
          \cup (IF start = 0 /\ started > 0 THEN {} ELSE {<<start, len - start>>})

Covered(pieces, len) == UNION {{len + i : i \in p[1]..(p[1] + p[2] - 1)} : p \in pieces}

-----------------------------------------------------------------------------
Init == ht = NoTable /\ made = {}

(* max_nr_buckets: 0 means infinite to the order plugin. *)
MaxBuckets(mm, max) == IF mm = "order" /\ max = 0 THEN 2^(Width - 1) ELSE max

(* _cds_lfht_new_with_alloc(): arguments that are not powers of two are    *)
(* refused; the buckets of the initial size are created.                   *)
New ==
  /\ ~ht.live
  /\ \E init \in Args, min \in Args, max \in Args, mm \in {"order", "chunk", "mmap"} :
       /\ PowerOf2(min) /\ PowerOf2(init) /\ PowerOf2(MaxBuckets(mm, max))
       /\ LET mx == Max({MaxBuckets(mm, max), min})
              h == [NoTable EXCEPT !.live = TRUE, !.mm = mm, !.max = mx,
                                   !.min = MinAlloc(mm, min, mx),
                                   !.size = Min({init, mx})]
          IN /\ ht' = FoldLeft(LAMBDA g, o : Alloc(g, o), h,
                               [i \in 1..(CountOrder(h.size) + 1) |-> i - 1])
             /\ made' = 0..(h.size - 1)

(* One turn of init_table() *)
Grow ==
  /\ ht.live /\ ht.size < Min({ht.max, MaxSize}) /\ ht.pending = 0
  /\ \E mask \in Cpus, fail \in 0..(Max(Cpus) + 2) :
       made' = made \cup Covered(Pieces(ht.size, mask, fail), ht.size)
  /\ ht' = [Alloc(ht, CountOrder(ht.size) + 1) EXCEPT !.size = 2 * @]

(* One turn of fini_table(): the order above is freed, for the grace       *)
(* period it waited for is over, and this one has to wait.                 *)
Shrink ==
  /\ ht.live /\ ht.size > 1
  /\ \E mask \in Cpus, fail \in 0..(Max(Cpus) + 2) :
       made' = made \ Covered(Pieces(ht.size \div 2, mask, fail), ht.size \div 2)
  /\ ht' = [(IF ht.pending # 0 THEN Release(ht, ht.pending) ELSE ht)
              EXCEPT !.size = @ \div 2, !.pending = CountOrder(ht.size)]

ShrinkEnd ==
  /\ ht.pending # 0
  /\ ht' = [Release(ht, ht.pending) EXCEPT !.pending = 0]
  /\ UNCHANGED made

(* cds_lfht_delete_bucket(): every order is freed, from the last to 0.     *)
DeleteBucket ==
  /\ ht.live /\ ht.pending = 0
  /\ LET n == CountOrder(ht.size) IN
     ht' = [FoldLeft(LAMBDA g, o : Release(g, o), ht, [i \in 1..(n + 1) |-> n + 1 - i])
              EXCEPT !.live = FALSE, !.size = 0, !.mm = "order", !.min = 1, !.max = 1]
  /\ made' = {}

Next == New \/ Grow \/ Shrink \/ ShrinkEnd \/ DeleteBucket
Spec == Init /\ [][Next]_vars

-----------------------------------------------------------------------------
(* Every bucket in use has a cell of its own in allocated memory; no cell  *)
(* is allocated or freed twice, and none stays behind when a table is      *)
(* deleted.  The chunk pointers fit the array behind the table.            *)
BucketsHaveCells ==
  /\ \A i \in 0..(ht.size - 1) : BucketAt(ht, i) \in ht.mem
  /\ \A i, j \in 0..(ht.size - 1) : BucketAt(ht, i) = BucketAt(ht, j) => i = j
  /\ ht.mm = "chunk" => \A c \in ht.mem : c[1] < ht.max \div ht.min

CellsBalanced == ht.cells = Cardinality(ht.mem) /\ (~ht.live => ht.mem = {})

(* However many threads there are and whichever of them cannot be created, *)
(* an order is populated, or removed, completely.                          *)
PartitionComplete == made = 0..(ht.size - 1)

(* BitReverse is the reversal of all the bits, Fls the number of bits a    *)
(* word takes, and CountOrder the least order whose power is not less.     *)
ReverseIsReverse ==
  \A x \in Inputs, i \in 0..(Width - 1) :
    (x \div 2^i) % 2 = (BitReverse(x) \div 2^(Width - 1 - i)) % 2
FlsIsWidth ==
  \A x \in Inputs :
  /\ x < 2^Fls(x) /\ (x > 0 => 2^(Fls(x) - 1) <= x)
  /\ x > 0 => x <= 2^CountOrder(x) /\ (x > 1 => 2^(CountOrder(x) - 1) < x)
=============================================================================
