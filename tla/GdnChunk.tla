------------------------------ MODULE GdnChunk ------------------------------
(***************************************************************************)
(* The gated delta rule of one value head, twice: token by token           *)
(* (gated_delta_rule_kernel), and by chunks (chunk_gated_delta_rule_xe2):  *)
(* the decays of a chunk are summed up, the triangular matrix that couples *)
(* its tokens is computed and inverted in place, W and U are formed, and a *)
(* work-group of two sub-groups goes from chunk to chunk with the state,   *)
(* through local and global memory ordered by barriers.                    *)
(*                                                                         *)
(* Numbers are residues of a prime, exp a power of a primitive root: what  *)
(* the two compute is the same in every field, rounding apart.  q and k    *)
(* are given normalised, b and a activated, as the convolution leaves them.*)
(***************************************************************************)
EXTENDS Integers, Sequences, SequencesExt

CONSTANTS
  P, Root,    (* the field, and a primitive root                           *)
  Block,      (* rows of the blocks the inverse is made of, 16             *)
  DimK,       (* head_k_dim, a tile wide                                   *)
  Tile,       (* columns of a tile of head_v_dim                           *)
  Tiles,      (* head_v_dim / chunk_size                                   *)
  Lens,       (* bound: lengths of the sequences of a batch                *)
  Seeds       (* bound: samples of the values                              *)

ASSUME ChunkAssumption ==
  /\ {P, Root, Block, DimK, Tile, Tiles} \subseteq Nat \ {0}
  /\ Tile % 2 = 0 /\ DimK % 2 = 0 /\ \A l \in Lens : l # <<>> /\ \A i \in DOMAIN l : l[i] \in Nat \ {0}

Size == 4 * Block     (* chunk_size, 64                                    *)
Rows == 0 .. Size - 1
ColK == 0 .. DimK - 1
ColV == 0 .. Tile * Tiles - 1
SubGroups == 0 .. 1
Garbage == P             (* not a residue                                     *)

Sum(n, f(_)) == FoldLeft(LAMBDA s, i : (s + f(i - 1)) % P, 0, [i \in 1 .. n |-> i])

power[n \in 0 .. P - 2] == IF n = 0 THEN 1 ELSE (power[n - 1] * Root) % P
Exp(x) == power[x % (P - 1)]

VARIABLES
  given,      (* the call: lens, init, whether the device is a BMG, the    *)
              (* sample, the entry this work-group is for, and what the    *)
              (* two sub-groups have halves of                             *)
  tok,        (* tokens of the entry the sequential rule has absorbed      *)
  stateN,     (* its state                                                 *)
  outN,       (* its answers                                               *)
  stage,      (* the kernel of the chunked rule that is next               *)
  block,      (* the next of the steps of the inverse by blocks            *)
  gCum,       (* a, by chunk: the running sum of the decays                *)
  bufA,       (* A, by chunk                                               *)
  bufW, bufU, (* w and u                                                   *)
  gSlm, gMultiSlm, gExpSlm,   (* local memory of the work-group            *)
  regs,       (* registers of a sub-group: its rows of O                   *)
  chunkState, (* ssm_state of the entry                                    *)
  answer,     (* core_attn_out of the entry                                *)
  pos         (* steps of its program a sub-group has taken                *)

nativeVars == <<tok, stateN, outN>>
fwdVars == <<gSlm, gMultiSlm, gExpSlm, regs, chunkState, answer, pos>>
chunkVars == <<given, nativeVars, stage, block, gCum, bufA, bufW, bufU, fwdVars>>

-----------------------------------------------------------------------------
(* The inputs: token t of entry e.                                         *)
Value(e, t, i) == (given.seed * (t + 3) * (i + 2) + (t + e) * (t + i) + given.seed * i * i + e + 1) % P
tokQ(e, t, i) == Value(e, t, i)
tokK(e, t, i) == Value(e, t, i + 5)
tokV(e, t, j) == Value(e, t, j + 11)
tokB(e, t)    == Value(e, t, 17)
tokDecay(e, t) == Value(e, t, 19)      (* softplus(a + dt_bias) * -exp(A_log) *)
PadDecay   == 1                     (* of a row of zeros                   *)
Held(j, i) == (given.seed + 2 * j + 3 * i + 1) % P     (* the cached state    *)

Batch == DOMAIN given.lens
Me == given.me
Len0 == given.lens[Me]
HasInit == given.init[Me]

ChunksOf(e) == (given.lens[e] + Size - 1) \div Size
Before(e) == FoldLeft(LAMBDA n, i : n + ChunksOf(i), 0, [i \in 1 .. e - 1 |-> i])
AllChunks == 0 .. Before(Len(given.lens)) + ChunksOf(Len(given.lens)) - 1
EntryOf(c) == CHOOSE e \in Batch : Before(e) <= c /\ c < Before(e) + ChunksOf(e)
TokenAt(c, r) == (c - Before(EntryOf(c))) * Size + r
Real(c, r) == TokenAt(c, r) < given.lens[EntryOf(c)]

(* Rows of the padded buffers.                                             *)
Q(c, r, i) == IF Real(c, r) THEN tokQ(EntryOf(c), TokenAt(c, r), i) ELSE 0
K(c, r, i) == IF Real(c, r) THEN tokK(EntryOf(c), TokenAt(c, r), i) ELSE 0
V(c, r, j) == IF Real(c, r) THEN tokV(EntryOf(c), TokenAt(c, r), j) ELSE 0
Beta(c, r) == IF Real(c, r) THEN tokB(EntryOf(c), TokenAt(c, r)) ELSE 0
Decay(c, r) == IF Real(c, r) THEN tokDecay(EntryOf(c), TokenAt(c, r)) ELSE PadDecay

(* An entry's first chunk has no state before it unless it continues.      *)
HasPrev(c) == c # Before(EntryOf(c)) \/ given.init[EntryOf(c)]

-----------------------------------------------------------------------------
(* Token by token: the state decays, the rule corrects what it remembers   *)
(* for k, and q reads it.                                                  *)
NativeToken ==
  /\ stage = "prepare" /\ tok < Len0
  /\ LET e == Me
         faded(j, i) == (Exp(tokDecay(e, tok)) * stateN[j][i]) % P
         delta(j) == ((tokV(e, tok, j) - Sum(DimK, LAMBDA i : faded(j, i) * tokK(e, tok, i))) * tokB(e, tok)) % P
         S == [j \in ColV |-> [i \in ColK |-> (faded(j, i) + tokK(e, tok, i) * delta(j)) % P]]
     IN /\ stateN' = S
        /\ outN' = Append(outN, [j \in ColV |-> Sum(DimK, LAMBDA i : S[j][i] * tokQ(e, tok, i))])
  /\ tok' = tok + 1
  /\ UNCHANGED <<given, stage, block, gCum, bufA, bufW, bufU, fwdVars>>

-----------------------------------------------------------------------------
(* The kernels before the last; their work-groups share nothing, and take  *)
(* every chunk once.                                                       *)
At(s) == stage = s /\ tok = Len0

ChunkPrepare ==
  /\ At("prepare")
  /\ gCum' = [c \in AllChunks |-> [r \in Rows |->
             FoldLeft(LAMBDA s, i : s + Decay(c, i - 1), 0, [i \in 1 .. r + 1 |-> i])]]
  /\ stage' = "A"
  /\ UNCHANGED <<given, nativeVars, block, bufA, bufW, bufU, fwdVars>>

ChunkComputeA ==
  /\ At("A")
  /\ bufA' = [c \in AllChunks |-> [m \in Rows |-> [n \in Rows |->
             CASE m = n -> 1
               [] m < n -> 0
               [] OTHER -> (Sum(DimK, LAMBDA i : K(c, m, i) * K(c, n, i))
                            * Exp(gCum[c][m] - gCum[c][n]) * Beta(c, m)) % P]]]
  /\ stage' = IF given.bmg THEN "diagonal" ELSE "inverse"
  /\ UNCHANGED <<given, nativeVars, block, gCum, bufW, bufU, fwdVars>>

(* Forward substitution, a column to a work-item.                          *)
ChunkInverse ==
  /\ At("inverse")
  /\ bufA' = [c \in AllChunks |->
            LET column(n) ==
                  LET col[m \in n .. Size - 1] ==
                        IF m = n THEN 1
                        ELSE (0 - bufA[c][m][n]
                              - Sum(m - n - 1, LAMBDA l : col[n + 1 + l] * bufA[c][m][n + 1 + l])) % P
                  IN col
            IN [m \in Rows |-> [n \in Rows |-> IF n > m THEN bufA[c][m][n] ELSE column(n)[m]]]]
  /\ stage' = "wu"
  /\ UNCHANGED <<given, nativeVars, block, gCum, bufW, bufU, fwdVars>>

(* chunk_inverse_opt_kernel: the blocks of the diagonal by substitution... *)
Diagonal ==
  /\ At("diagonal")
  /\ bufA' = [c \in AllChunks |->
            LET base(m) == (m \div Block) * Block
                column(n) ==
                  LET col[m \in n + 1 .. base(n) + Block - 1] ==
                        (0 - bufA[c][m][n]
                         - Sum(m - n - 1, LAMBDA l : col[n + 1 + l] * bufA[c][m][n + 1 + l])) % P
                  IN col
            IN [m \in Rows |-> [n \in Rows |->
                  IF n < m /\ base(n) = base(m) THEN column(n)[m] ELSE bufA[c][m][n]]]]
  /\ stage' = "blocks"
  /\ UNCHANGED <<given, nativeVars, block, gCum, bufW, bufU, fwdVars>>

(* ... and those below it one after the other, in place: a step writes a   *)
(* block as the sum of the products of pairs of blocks, or minus one.  A   *)
(* product the code keeps in registers is left in the block it is for.     *)
BlockSteps ==
  LET B(m, n) == <<m, n>>
      S(to, sign, terms) == [to |-> to, sign |-> sign, terms |-> terms]
  IN << S(B(2,1),  1, << <<B(2,2), B(2,1)>> >>),
        S(B(2,1), -1, << <<B(2,1), B(1,1)>> >>),
        S(B(3,1),  1, << <<B(3,1), B(1,1)>>, <<B(3,2), B(2,1)>> >>),
        S(B(3,1), -1, << <<B(3,3), B(3,1)>> >>),
        S(B(4,1),  1, << <<B(4,1), B(1,1)>>, <<B(4,2), B(2,1)>>, <<B(4,3), B(3,1)>> >>),
        S(B(4,1), -1, << <<B(4,4), B(4,1)>> >>),
        S(B(3,2),  1, << <<B(3,3), B(3,2)>> >>),
        S(B(3,2), -1, << <<B(3,2), B(2,2)>> >>),
        S(B(4,2),  1, << <<B(4,2), B(2,2)>>, <<B(4,3), B(3,2)>> >>),
        S(B(4,2), -1, << <<B(4,4), B(4,2)>> >>),
        S(B(4,3),  1, << <<B(4,4), B(4,3)>> >>),
        S(B(4,3), -1, << <<B(4,3), B(3,3)>> >>) >>

Written(M, s) ==
  LET low(x) == (s.to[x] - 1) * Block
      within(x, i) == low(x) <= i /\ i < low(x) + Block
      cell(blk, m, n) == M[(blk[1] - 1) * Block + m][(blk[2] - 1) * Block + n]
      product(t, m, n) == Sum(Block, LAMBDA l : cell(t[1], m, l) * cell(t[2], l, n))
  IN [m \in Rows |-> [n \in Rows |->
        IF ~(within(1, m) /\ within(2, n)) THEN M[m][n]
        ELSE (s.sign * Sum(Len(s.terms), LAMBDA i : product(s.terms[i + 1], m - low(1), n - low(2)))) % P]]

Blocks ==
  /\ At("blocks")
  /\ bufA' = [c \in AllChunks |-> Written(bufA[c], BlockSteps[block])]
  /\ block' = (block % Len(BlockSteps)) + 1
  /\ stage' = IF block = Len(BlockSteps) THEN "wu" ELSE "blocks"
  /\ UNCHANGED <<given, nativeVars, gCum, bufW, bufU, fwdVars>>

ChunkComputeWU ==
  /\ At("wu")
  /\ bufU' = [c \in AllChunks |-> [m \in Rows |-> [j \in ColV |->
             Sum(Size, LAMBDA n : bufA[c][m][n] * V(c, n, j) * Beta(c, n))]]]
  /\ bufW' = [c \in AllChunks |-> [m \in Rows |-> [i \in ColK |->
             IF HasPrev(c) THEN Sum(Size, LAMBDA n : bufA[c][m][n] * K(c, n, i) * Exp(gCum[c][n]) * Beta(c, n))
             ELSE bufW[c][m][i]]]]
  /\ stage' = "fwd"
  /\ UNCHANGED <<given, nativeVars, block, gCum, bufA, fwdVars>>

-----------------------------------------------------------------------------
(* A mutant of Program: no barrier between a U and its use. *)
ProgramUnordered(c) ==
  LET op(o, d) == [op |-> o, chunk |-> c, tile |-> d]
      wait == op("barrier", 0)
      tiles(o) == [d \in 1 .. Tiles |-> op(o, d - 1)]
  IN <<wait, op("fill", 0), wait, op("O2", 0)>>
     \o (IF HasPrev(c)
         THEN FlattenSeq([d \in 1 .. Tiles |-> <<op("WSQS", d - 1), op("O2U", d - 1)>>])
         ELSE <<>>)
     \o tiles("S")
     \o (IF HasPrev(c) THEN <<>> ELSE <<wait>> \o tiles("O"))

(* chunk_fwd_o_kernel: the work-group of entry Me.  The program of a       *)
(* sub-group for chunk c; at a "barrier" it waits for the other.           *)
Program(c) ==
  LET op(o, d) == [op |-> o, chunk |-> c, tile |-> d]
      wait == op("barrier", 0)
      tiles(o) == [d \in 1 .. Tiles |-> op(o, d - 1)]
  IN <<wait, op("fill", 0), wait, op("O2", 0)>>
     \o (IF HasPrev(c)
         THEN FlattenSeq([d \in 1 .. Tiles |-> <<op("WSQS", d - 1), wait, op("O2U", d - 1)>>])
         ELSE <<>>)
     \o tiles("S")
     \o (IF HasPrev(c) THEN <<>> ELSE <<wait>> \o tiles("O"))

Whole == FlattenSeq([c \in 1 .. ChunksOf(Me) |-> Program(Before(Me) + c - 1)])

(* A race is between two sub-groups: two that hold the halves of the rows  *)
(* of a tile, or two that hold the halves of its columns.                  *)
Owns(s, r, rows, c, cols) ==
  IF given.cut = "rows" THEN r \div (rows \div 2) = s ELSE c \div (cols \div 2) = s
ColOf(d) == {j \in ColV : j \div Tile = d}

Current(c) == IF TokenAt(c, Size) > Len0 THEN Len0 - TokenAt(c, 0) ELSE Size
GLast(c) == gCum[c][Current(c) - 1]

(* Local memory; past the last token of the chunk it is zero.              *)
Fill(s, c) ==
  LET mine(r) == r % 2 = s
      set(f, val(_)) == [r \in Rows |-> IF ~mine(r) THEN f[r] ELSE IF r < Current(c) THEN val(r) ELSE 0]
  IN /\ gSlm' = set(gSlm, LAMBDA r : gCum[c][r])
     /\ gMultiSlm' = set(gMultiSlm, LAMBDA r : Exp(GLast(c) - gCum[c][r]))
     /\ gExpSlm' = set(gExpSlm, LAMBDA r : Exp(gCum[c][r]))
     /\ UNCHANGED <<bufA, bufU, regs, chunkState, answer>>

(* The buffer of A takes O2, the masked product of q and k; a row past the *)
(* last token is neither written nor, when it is read, anything but zero.  *)
O2(s, c) ==
  /\ bufA' = [bufA EXCEPT ![c] = [m \in Rows |-> [n \in Rows |->
             IF ~Owns(s, m, Size, n, Size) \/ m >= Current(c) THEN @[m][n]
             ELSE IF m < n THEN 0
             ELSE (Sum(DimK, LAMBDA i : Q(c, m, i) * K(c, n, i)) * Exp(gSlm[m] - gSlm[n])) % P]]]
  /\ UNCHANGED <<gSlm, gMultiSlm, gExpSlm, bufU, regs, chunkState, answer>>

(* U - W S^T into U, and Q S^T with the decay into registers.              *)
WSQS(s, c, d) ==
  /\ bufU' = [bufU EXCEPT ![c] = [m \in Rows |-> [j \in ColV |->
             IF ~(j \in ColOf(d) /\ Owns(s, m, Size, j % Tile, Tile)) THEN @[m][j]
             ELSE (@[m][j] - Sum(DimK, LAMBDA i : bufW[c][m][i] * chunkState[j][i])) % P]]]
  /\ regs' = [regs EXCEPT ![s] = [m \in Rows |-> [j \in ColOf(d) |->
               (Sum(DimK, LAMBDA i : Q(c, m, i) * chunkState[j][i]) * gExpSlm[m]) % P]]]
  /\ UNCHANGED <<gSlm, gMultiSlm, gExpSlm, bufA, chunkState, answer>>

Stored(s, c, d, first) ==
  answer' = [t \in DOMAIN answer |-> [j \in ColV |->
            LET m == t - TokenAt(c, 0)
            IN IF m \in Rows /\ j \in ColOf(d) /\ Owns(s, m, Size, j % Tile, Tile)
               THEN (first[m][j] + Sum(Size, LAMBDA n : bufA[c][m][n] * bufU[c][n][j])) % P
               ELSE answer[t][j]]]

O2U(s, c, d) ==
  /\ Stored(s, c, d, regs[s])
  /\ UNCHANGED <<gSlm, gMultiSlm, gExpSlm, bufA, bufU, regs, chunkState>>

FreshO(s, c, d) ==
  /\ Stored(s, c, d, [m \in Rows |-> [j \in ColV |-> 0]])
  /\ UNCHANGED <<gSlm, gMultiSlm, gExpSlm, bufA, bufU, regs, chunkState>>

StateUpdate(s, c, d) ==
  /\ chunkState' = [j \in ColV |-> [i \in ColK |->
                 IF ~(j \in ColOf(d) /\ Owns(s, j % Tile, Tile, i, DimK)) THEN chunkState[j][i]
                 ELSE ((IF HasPrev(c) THEN chunkState[j][i] * Exp(GLast(c)) ELSE 0)
                       + Sum(Size, LAMBDA n : bufU[c][n][j] * K(c, n, i) * gMultiSlm[n])) % P]]
  /\ UNCHANGED <<gSlm, gMultiSlm, gExpSlm, bufA, bufU, regs, answer>>

SubGroupStep(s) ==
  /\ At("fwd") /\ pos[s] < Len(Whole)
  /\ LET o == Whole[pos[s] + 1]
     IN CASE o.op = "barrier" -> /\ \A r \in SubGroups : pos[r] >= pos[s]
                                 /\ UNCHANGED <<bufA, bufU, gSlm, gMultiSlm, gExpSlm, regs, chunkState, answer>>
          [] o.op = "fill" -> Fill(s, o.chunk)
          [] o.op = "O2"   -> O2(s, o.chunk)
          [] o.op = "WSQS" -> WSQS(s, o.chunk, o.tile)
          [] o.op = "O2U"  -> O2U(s, o.chunk, o.tile)
          [] o.op = "S"    -> StateUpdate(s, o.chunk, o.tile)
          [] o.op = "O"    -> FreshO(s, o.chunk, o.tile)
  /\ pos' = [pos EXCEPT ![s] = @ + 1]
  /\ UNCHANGED <<given, nativeVars, stage, block, gCum, bufW>>

-----------------------------------------------------------------------------
Inputs == UNION {[lens : {l}, init : [DOMAIN l -> BOOLEAN], bmg : BOOLEAN, seed : Seeds, me : DOMAIN l,
                  cut : {"rows", "columns"}]
                 : l \in Lens}

Zeros(cols) == [c \in AllChunks |-> [r \in Rows |-> [j \in cols |-> 0]]]

ChunkInit ==
  /\ given \in Inputs
  /\ tok = 0 /\ outN = <<>> /\ stage = "prepare" /\ block = 1
  /\ stateN = [j \in ColV |-> [i \in ColK |-> IF HasInit THEN Held(j, i) ELSE 0]]
  /\ chunkState = [j \in ColV |-> [i \in ColK |-> Held(j, i)]]
  /\ answer = [t \in 0 .. Len0 - 1 |-> [j \in ColV |-> Garbage]]
  /\ gCum = <<>> /\ bufA = Zeros(Rows) /\ bufW = Zeros(ColK) /\ bufU = Zeros(ColV)
  /\ gSlm = [r \in Rows |-> Garbage] /\ gMultiSlm = gSlm /\ gExpSlm = gSlm
  /\ regs = [s \in SubGroups |-> <<>>] /\ pos = [s \in SubGroups |-> 0]

ChunkNext ==
  \/ NativeToken \/ ChunkPrepare \/ ChunkComputeA \/ ChunkInverse \/ Diagonal \/ Blocks \/ ChunkComputeWU
  \/ \E s \in SubGroups : SubGroupStep(s)

ChunkSpec == ChunkInit /\ [][ChunkNext]_chunkVars

Done == At("fwd") /\ \A s \in SubGroups : pos[s] = Len(Whole)

-----------------------------------------------------------------------------
(* However the sub-groups interleave, the chunked rule leaves the answers  *)
(* and the state that the sequential rule does: over partial chunks and    *)
(* several, with a state before them or none, and with either inverse.     *)
ChunkRight ==
  Done => /\ chunkState = stateN
          /\ \A t \in DOMAIN answer : answer[t] = outN[t + 1]
=============================================================================
