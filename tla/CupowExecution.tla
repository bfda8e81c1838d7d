--------------------------- MODULE CupowExecution ---------------------------
(***************************************************************************)
(* The arithmetic of cuPOW over a prime field (crates/pocomp-protocol      *)
(* cupow.rs), the execution of one operation by the runner's reference     *)
(* (crates/pocomp-cupow-runner main.rs), and the products of the CUDA      *)
(* executor (ops/cupow_cuda_executor.py).                                  *)
(*                                                                         *)
(* A matrix is a sequence of rows.  What the extendable hash puts out for  *)
(* a seed and a retry is unforeseeable: any factors.  A step draws four    *)
(* factors, adds one stripe, or decodes.                                   *)
(*                                                                         *)
(* A definition X_Y is X with a bug a programmer could make (Y).           *)
(***************************************************************************)
EXTENDS Integers, Sequences, FiniteSetsExt

CONSTANTS
  Modulus,      \* a prime, 251
  Size, Tile,   \* of the square matrices and of a stripe
  NoiseRank,    \* of the noise
  MaxRetry,     \* the last retry, u16::MAX
  Operations,   \* the pairs of matrices to multiply
  Factors       \* what may be drawn, as noise with these factors

Residues == 0 .. Modulus - 1

Matrix(rows, columns) == [1 .. rows -> [1 .. columns -> Residues]]

\* The dimensions of the factors e_left, e_right, f_left and f_right.
Noise ==
  [eLeft : Matrix(Size, NoiseRank), eRight : Matrix(NoiseRank, Size),
   fLeft : Matrix(Size, NoiseRank), fRight : Matrix(NoiseRank, Size)]

ASSUME ExecutionAssumption ==
  /\ {Size, Tile, MaxRetry} \subseteq Nat /\ Tile > 0 /\ Size % Tile = 0
  /\ NoiseRank \in 1 .. Size - 1
  /\ Factors \subseteq Noise
  /\ Operations \subseteq Matrix(Size, Size) \X Matrix(Size, Size)
  /\ Modulus \in Nat \ {0, 1} /\ \A m, n \in 2 .. Modulus - 1 : m * n # Modulus

-----------------------------------------------------------------------------
(* The field.                                                              *)

Columns(m) == 1 .. Len(m[1])

Add(a, b) == [i \in DOMAIN a |-> [j \in Columns(a) |-> (a[i][j] + b[i][j]) % Modulus]]

Subtract(a, b) ==
  [i \in DOMAIN a |-> [j \in Columns(a) |-> (a[i][j] + Modulus - b[i][j]) % Modulus]]

\* The product of the columns of a with the rows of b, those of an interval.
Product(a, b, interval) ==
  [i \in DOMAIN a |-> [j \in Columns(b) |->
     SumFunctionOnSet([k \in interval |-> a[i][k] * b[k][j]], interval) % Modulus]]

MatMul(a, b) == Product(a, b, Columns(a))

StripeProduct_Short(a, b, start) == Product(a, b, start + 1 .. start + Tile - 1)
StripeProduct(a, b, start) == Product(a, b, start + 1 .. start + Tile)

\* The CUDA executor: signed bytes around zero, and the remainder of their products.
Centered(v) == IF v > Modulus \div 2 THEN v - Modulus ELSE v

CudaMatMul(a, b) ==
  [i \in DOMAIN a |-> [j \in Columns(b) |->
     SumFunctionOnSet([k \in Columns(a) |-> Centered(a[i][k]) * Centered(b[k][j])], Columns(a))
       % Modulus]]

\* Fermat: by squaring, along the bits of the exponent.
Reciprocal(v) ==
  LET power[e \in 0 .. Modulus - 2] ==
        IF e = 0 THEN 1
        ELSE LET half == power[e \div 2]
             IN (half * half * (IF e % 2 = 1 THEN v ELSE 1)) % Modulus
  IN power[Modulus - 2]

-----------------------------------------------------------------------------
(* The rank: Gauss and Jordan, column by column.                           *)

\* Row r gets a one in column c, and the column is cleared elsewhere.
Cleared(m, r, c) ==
  LET row == [j \in Columns(m) |-> (m[r][j] * Reciprocal(m[r][c])) % Modulus]
      times(i) == [j \in Columns(m) |-> (m[i][c] * row[j]) % Modulus]
  IN [i \in DOMAIN m |->
        IF i = r THEN row ELSE [j \in Columns(m) |-> (m[i][j] + Modulus - times(i)[j]) % Modulus]]

\* The row of the pivot is exchanged with row r.
Reduced_NoSwap(m, pivot, r, c) == Cleared(m, r, c)
Reduced(m, pivot, r, c) == Cleared([m EXCEPT ![pivot] = m[r], ![r] = m[pivot]], r, c)

MatrixRank(m) ==
  LET after[c \in 0 .. Len(m[1])] ==
        IF c = 0 THEN [values |-> m, rank |-> 0]
        ELSE LET before == after[c - 1]
                 pivots == {i \in before.rank + 1 .. Len(m) : before.values[i][c] # 0}
             IN IF pivots = {} THEN before
                ELSE [values |-> Reduced(before.values, Min(pivots), before.rank + 1, c),
                      rank |-> before.rank + 1]
  IN after[Len(m[1])].rank

-----------------------------------------------------------------------------
(* One operation.                                                          *)

VARIABLE execution

E == MatMul(execution.noise.eLeft, execution.noise.eRight)
F == MatMul(execution.noise.fLeft, execution.noise.fRight)
NoisyLeft == Add(execution.left, E)
NoisyRight == Add(execution.right, F)

Zero == [i \in 1 .. Size |-> [j \in 1 .. Size |-> 0]]

ExecutionIdle ==
  [pc |-> "idle", left |-> Zero, right |-> Zero, retry |-> 0, noise |-> <<>>,
   transcript |-> <<>>, output |-> Zero]

ExecutionInit == execution = ExecutionIdle

StartOperation ==
  /\ execution.pc = "idle"
  /\ \E operation \in Operations :
       execution' = [execution EXCEPT !.pc = "drawing", !.left = operation[1],
                                      !.right = operation[2]]

FullRank(noise) == \A f \in DOMAIN noise : MatrixRank(noise[f]) = NoiseRank

\* Factors that are not all of full rank are drawn again, until the counter ends.
Draw(noise) ==
  /\ execution.pc = "drawing"
  /\ execution' =
       IF FullRank(noise) THEN [execution EXCEPT !.pc = "striping", !.noise = noise]
       ELSE IF execution.retry < MaxRetry
       THEN [execution EXCEPT !.retry = @ + 1, !.noise = noise]
       ELSE [execution EXCEPT !.pc = "exhausted", !.noise = noise]

Partial == IF execution.transcript = <<>> THEN Zero
           ELSE execution.transcript[Len(execution.transcript)]

AddStripe ==
  /\ execution.pc = "striping" /\ Len(execution.transcript) < Size \div Tile
  /\ execution' = [execution EXCEPT !.transcript = Append(@,
       Add(Partial, StripeProduct(NoisyLeft, NoisyRight, Len(@) * Tile)))]

\* AB = A'B' - (A F + E B').
Decoded ==
  Subtract(Partial,
    Add(MatMul(MatMul(execution.left, execution.noise.fLeft), execution.noise.fRight),
        MatMul(execution.noise.eLeft, MatMul(execution.noise.eRight, NoisyRight))))

Decode ==
  /\ execution.pc = "striping" /\ Len(execution.transcript) = Size \div Tile
  /\ execution' = [execution EXCEPT !.pc = "done", !.output = Decoded]

-----------------------------------------------------------------------------
(* Properties.                                                             *)

\* A factor that takes a vector to zero loses a dimension, whichever side is the short one.
Degenerate(m) ==
  LET vectors == [1 .. NoiseRank -> Residues] \ {[k \in 1 .. NoiseRank |-> 0]}
  IN \E x \in vectors :
       IF Len(m) = Size
       THEN \A i \in DOMAIN m :
              SumFunctionOnSet([k \in 1 .. NoiseRank |-> m[i][k] * x[k]], 1 .. NoiseRank)
                % Modulus = 0
       ELSE \A j \in Columns(m) :
              SumFunctionOnSet([k \in 1 .. NoiseRank |-> x[k] * m[k][j]], 1 .. NoiseRank)
                % Modulus = 0

\* Elimination with its pivots, swaps and inverses judges rightly: the noise that is used
\* hides in all of its dimensions, and none that does is drawn again.
DrawIsJudged ==
  execution.noise # <<>> =>
    (execution.pc \in {"striping", "done"}
       <=> \A f \in DOMAIN execution.noise : ~Degenerate(execution.noise[f]))

\* Whatever the noise, the decoded output is the useful product, the last entry of the
\* transcript is the noisy one, each entry is the product of a prefix, and the
\* CUDA executor's products agree.
ExecutionIsExact ==
  /\ execution.pc = "done" =>
       /\ execution.output = MatMul(execution.left, execution.right)
       /\ Partial = CudaMatMul(NoisyLeft, NoisyRight)
  /\ \A k \in DOMAIN execution.transcript :
       execution.transcript[k] = Product(NoisyLeft, NoisyRight, 1 .. k * Tile)
=============================================================================
