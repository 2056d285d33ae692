--------------------------- MODULE MCPagedDecode ----------------------------
(* An instance of PagedDecode for TLC: tiles of two tokens, so that        *)
(* lengths 0 to 9 make 0 to 5 of them; four tiles over three splits is the *)
(* smallest case where equal shares leave a split empty and a plan does    *)
(* not.  And one of VarlenAttention, with sub-groups of two work-items,    *)
(* pages of two to eight tokens and surfaces of sixteen rows.              *)
EXTENDS PagedDecode, VarlenAttention
MCWindows == {-1, 3}

(* Calls of mha_varlen_fwd: prefix sums of lengths, a dense batch, a     *)
(* paged one.                                                              *)
Sums(f) == [b \in 1 .. Len(f) + 1 |-> MapThenSumSet(LAMBDA d : f[d], 1 .. b - 1)]
Dense(q, kv) == [cuq |-> Sums(q), kv |-> kv, cuk |-> Sums(kv), paged |-> FALSE, page |-> 2, stride |-> 2,
  blocks |-> 0, table |-> <<>>, causal |-> TRUE, left |-> -1, right |-> -1, mix |-> FALSE, sink |-> FALSE,
  lse |-> FALSE, heads |-> 2, kvheads |-> 1, rows |-> 2, vblocks |-> 1]
(* Pages are handed out backwards, and a table is as wide as its longest   *)
(* sequence, with block 0 for the rest.                                    *)
Paged(q, kv, page, spread) ==
  LET pages == [b \in DOMAIN kv |-> CeilDiv(kv[b], page)]
      total == Sums(pages)[Len(kv) + 1]
      width == Max({pages[b] : b \in DOMAIN kv})
      entry(b, i) == IF i <= pages[b] THEN total - Sums(pages)[b] - i + 1 ELSE 0
  IN [Dense(q, kv) EXCEPT !.paged = TRUE, !.page = page, !.stride = page * spread, !.blocks = total + 1,
        !.table = [b \in DOMAIN kv |-> [i \in 1 .. width |-> entry(b, i)]]]
(* A causal mask, none, and windows of every shape.                        *)
Masks(c) == {[c EXCEPT !.causal = m[1], !.left = m[2], !.right = m[3]] :
               m \in {<<TRUE, -1, -1>>, <<FALSE, -1, -1>>, <<TRUE, 2, -1>>, <<FALSE, 3, 1>>, <<FALSE, -1, 0>>}}
Outputs(c) == {[c EXCEPT !.sink = x[1], !.lse = x[2]] : x \in {<<FALSE, TRUE>>, <<TRUE, FALSE>>}}
(* Prefill of several work-groups, with empty sequences; paged, with pages *)
(* of one to four tiles, dense or apart, on one surface or several; mixed  *)
(* with decode; decode of packed heads on one to four sub-groups; sinks    *)
(* and log-sum-exps, granted and refused.                                  *)
MCCalls ==
  UNION {Masks(Dense(x[1], x[2])) : x \in {<<<<5, 1>>, <<9, 3>>>>, <<<<0, 3>>, <<0, 4>>>>}}
  \cup UNION {Masks(Paged(<<5, 1>>, <<9, 4>>, page, spread)) : page \in {2, 4, 6, 8}, spread \in {1, 2}}
  \cup UNION {Masks([Paged(<<1, 3, 0>>, <<7, 5, 0>>, page, 1) EXCEPT !.mix = TRUE, !.rows = 1]) : page \in {2, 4, 8}}
  \cup UNION {Masks([Paged(<<1, 1>>, <<11, 3>>, page, spread) EXCEPT !.heads = h[1], !.kvheads = h[2]]) :
                page \in {2, 4, 6, 8}, spread \in {1, 2}, h \in {<<5, 1>>}}
  \cup UNION {Outputs(c) : c \in {[Dense(<<3, 2>>, <<4, 2>>) EXCEPT !.vblocks = 2, !.kvheads = 2],
                                  [Paged(<<2, 1>>, <<3, 4>>, 4, 1) EXCEPT !.mix = TRUE],
                                  [Paged(<<2, 1>>, <<3, 4>>, 4, 1) EXCEPT !.left = 1],
                                  [Paged(<<1, 1>>, <<3, 4>>, 4, 2) EXCEPT !.left = 1, !.vblocks = 2, !.kvheads = 2]}}

-----------------------------------------------------------------------------
(* A behaviour is that of a split-K launch or that of a varlen call.       *)
SplitIdle ==
  /\ job \in {j \in Jobs : j.cap = 1 /\ j.window = -1 /\ \A b \in Seqs : j.kv[b] = 0 /\ ~j.prefill[b]}
  /\ todo = {}
  /\ slot = [r \in Row |-> [s \in {0} |-> {}]]
  /\ phase = [r \in Row |-> [l \in Lane |-> 0]]
  /\ slm = [r \in Row |-> [l \in Lane |-> "junk"]]
  /\ out = [r \in Row |-> [l \in Lane |-> NoOutput]]

MCInit == (Init /\ VarlenIdle) \/ (SplitIdle /\ VarlenInit)
MCNext ==
  \/ Next /\ UNCHANGED varlenVars
  \/ VarlenNext /\ UNCHANGED vars
MCSpec ==
  MCInit /\ [][MCNext]_<<vars, varlenVars>> /\ WF_<<vars, varlenVars>>(MCNext)
=============================================================================
