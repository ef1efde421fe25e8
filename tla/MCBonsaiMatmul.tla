--------------------------- MODULE MCBonsaiMatmul ---------------------------
(* Matrix products for TLC. *)
EXTENDS BonsaiMatmul

CONSTANTS h1, h2

\* A product of n_rows x k weights and k x n_cols activations, with b2 batches
\* of activations for the one of weights.
Job(w, acts, b2) ==
  [n_rows |-> Len(w), n_cols |-> Len(acts), n_b2 |-> b2, n_b3 |-> 1, k |-> Len(w[1]),
   src0_b2 |-> b2, src0_b3 |-> 1,
   w      |-> [i \in {<<0, 0, r>> : r \in 0 .. Len(w) - 1} |->
                 [k \in 0 .. Len(w[1]) - 1 |-> w[i[3] + 1][k + 1]]],
   q      |-> [i \in {<<0, b, c>> : b \in 0 .. b2 - 1, c \in 0 .. Len(acts) - 1} |->
                 [k \in 0 .. Len(w[1]) - 1 |-> IF i[2] = 0 THEN acts[i[3] + 1].q[k + 1]
                                                           ELSE -acts[i[3] + 1].q[k + 1]]],
   scales |-> [i \in {<<0, b, c>> : b \in 0 .. b2 - 1, c \in 0 .. Len(acts) - 1} |->
                 [b \in 0 .. Len(acts[i[3] + 1].scales) - 1 |-> acts[i[3] + 1].scales[b + 1]]]]

\* The elements of a row or a column repeat a pattern.
Cycled(n, pattern) == [i \in 1 .. n |-> pattern[((i - 1) % Len(pattern)) + 1]]

\* The blocking is the code's.  33 elements: a full block of 16 tiles, and a block of one
\* element whose tile has a padding lane; columns at the extremes of an int8, or with a
\* block of zeros first or last.
ShortActs == {[q |-> Cycled(33, <<127, -127, 1, -127>>), scales |-> <<1, 4>>],
              [q |-> Cycled(33, <<-127, 100>>),          scales |-> <<3, 0>>],
              [q |-> Cycled(33, <<77>>),                 scales |-> <<0, 2>>]}

\* An odd number of rows, the last pair having one; a row of zeros in a pair, or in both.
OddProducts ==
  {Job(<<a, Cycled(33, <<-5>>), Cycled(33, <<5, 5, -5>>)>>, <<x>>, 1) :
     a \in {Cycled(33, <<2, -2, -2>>), Cycled(33, <<0>>)}, x \in ShortActs}
  \cup {Job(<<Cycled(33, <<0>>), Cycled(33, <<0>>), Cycled(33, <<1>>)>>, <<x>>, 1) : x \in ShortActs}

\* No columns: nothing to compute.
NoColumns == Job(<<<<2>>>>, <<>>, 1)

\* Three rows against two batches of activations, four elements each.
Batch(a) == Job(<<a, <<-2, -2, 2, 2>>, <<1, -1, 1, 1>>>>,
                <<[q |-> <<127, -127, 1, -127>>, scales |-> <<3>>]>>, 2)

\* 160 elements in groups of 128 and 32: every block at an extreme of its sum,
\* and a row whose first group is zero.
LongRow(s, t) == [i \in 1 .. 160 |-> IF i <= 128 THEN s ELSE t]
LongProducts ==
  {Job(<<LongRow(3, -2), Cycled(160, <<-7, 7>>)>>,
       <<[q |-> Cycled(160, <<a>>), scales |-> <<1, 2, 3, 4, 5>>]>>, 1) : a \in {127, -127}}
  \cup {Job(<<LongRow(0, 4), LongRow(0, 0)>>,
            <<[q |-> Cycled(160, <<-127>>), scales |-> <<1, 2, 3, 4, 5>>]>>, 1)}

\* One thread has a product and the other nothing to do, or both have a batch.
MatmulJobs ==
  {[h \in Host |-> IF h = h1 THEN j ELSE NoColumns] : j \in OddProducts \cup LongProducts}
  \cup {[h \in Host |-> Batch(IF h = h1 THEN <<2, -2, 2, -2>> ELSE <<5, 5, -5, 5>>)]}
=============================================================================
