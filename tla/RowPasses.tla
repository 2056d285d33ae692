----------------------------- MODULE RowPasses ------------------------------
(***************************************************************************)
(* The kernels that normalise, activate or quantise the rows of a tensor:  *)
(* csrc/layernorm.cpp, layernorm_quant.cpp, activation.cpp and             *)
(* quantization/.  Each is a few passes of a work-group over its row, or   *)
(* rows, between which the work-items reduce over the group or pass a      *)
(* statistic through local memory.  This module has the passes, what a     *)
(* kernel is made of; RowKernels the kernels, what launches them and how   *)
(* they run.                                                               *)
(*                                                                         *)
(* A number is known by where it comes from: the elements added up in it,  *)
(* and in order what was done to it, with the numbers that went into each  *)
(* statistic (a bag, in which one counted twice is there twice).           *)
(***************************************************************************)
EXTENDS Integers, Sequences, FiniteSets, Bags, SequencesExt

CONSTANTS
  MaxItems,     (* work-items of the largest work-group: 1024 or 256       *)
  SubGroup,     (* lanes of a sub-group, 32                                *)
  VecWidth,     (* elements of a vector, 8 or 4                            *)
  RowsPerWG,    (* ROWS_PER_WG, 16                                         *)
  RowCalls      (* bound of the inputs: [op, shape, strides, len, skew,    *)
                (* add, weight, bias, group, transposed, scaleShape,       *)
                (* scaleRank]                                              *)

ASSUME RowPassAssumption ==
  /\ {MaxItems, SubGroup, VecWidth, RowsPerWG} \subseteq Nat \ {0}
  /\ MaxItems % SubGroup = 0

VARIABLES
  rowCall,    (* the call                                                  *)
  rowQueue,   (* its kernels, the first of which runs                      *)
  rowGroup,   (* the work-group that runs: they share no more than an      *)
              (* atomic maximum                                            *)
  rowAt,      (* the pass each work-item is at                             *)
  rowAcc,     (* what it has accumulated                                   *)
  rowLocal,   (* local memory                                              *)
  rowMem      (* global memory: the tensors written                        *)

-----------------------------------------------------------------------------
Val(addresses) == [x |-> addresses, by |-> <<>>]
By(v, what, of) == [v EXCEPT !.by = Append(@, [what |-> what, of |-> of])]
One(v) == SetToBag({v})
(* What is read where nobody has written, or at a misaligned address. *)
Lost == [x |-> {}, by |-> <<>>]
BagOfValues(f) == [v \in {f[c] : c \in DOMAIN f} |-> Cardinality({c \in DOMAIN f : f[c] = v})]
Distinct(bag) == SetToBag(BagToSet(bag))

-----------------------------------------------------------------------------
Pass(do, from, chain, into) == [do |-> do, from |-> from, chain |-> chain, into |-> into]

(* Each work-item goes over its elements: it accumulates them, adds the    *)
(* residual to them and puts the sum in its place, or stores what has been *)
(* made of them; it converts what may start between vectors.               *)
Collect(from, chain) == Pass("collect", from, chain, {})
CollectKeep == Pass("collect", "in", <<>>, {"row"})
AddResidual == Pass("collect", "both", <<>>, {"res"})
AddResidualKeep == Pass("collect", "both", <<>>, {"res", "row"})
StoreOut(from, chain) == Pass("store", from, chain, {})
Convert(chain) == Pass("convert", "in", chain, {})
(* One sum, or maximum, of all of the group, of a row's work-items in a    *)
(* tree, or of a sub-group.                                                *)
SumOver == Pass("sum", "", <<>>, {})
MaxOver == Pass("max", "", <<>>, {})
TreeOver == Pass("tree", "", <<>>, {})
SubMaxOver == Pass("submax", "", <<>>, {})
(* The first work-item puts a statistic in local memory; a barrier.        *)
Publish(stat) == Pass("publish", stat, <<>>, {})
Barrier == Pass("barrier", "", <<>>, {})
(* Vectors whose lanes find the maximum of their group by shuffles, store  *)
(* its scale and what they have scaled.                                    *)
Segments(from, chain) == Pass("segments", from, chain, {})
(* The tree over local memory, one halving of it, and the atomic maximum.  *)
Cached == Pass("cache", "", <<>>, {})
Halve(offset) == Pass("halve", "", <<offset>>, {})
AtomicMax == Pass("atomic", "", <<>>, {})

Kernel(program, width, rows, items, groups, len) ==
  [program |-> program, width |-> width, rows |-> rows, items |-> items, groups |-> groups,
   len |-> len]

Least(a, b) == IF a < b THEN a ELSE b
RoundUp(n, m) == ((n + m - 1) \div m) * m
(* n / 2, n / 4, ..., 1 *)
Halvings(n) == [j \in 1 .. Cardinality({i \in 1 .. n : 2 ^ i <= n}) |-> n \div (2 ^ j)]
(* The size of the blocks of lanes that exchanges with offsets 1, 2, 4,    *)
(* ... below n reach.                                                      *)
Reach(n) == IF n <= 1 THEN 1 ELSE 2 ^ Cardinality({i \in 0 .. n : 2 ^ i < n})
=============================================================================
