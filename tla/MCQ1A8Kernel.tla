---------------------------- MODULE MCQ1A8Kernel ----------------------------
EXTENDS Q1A8Kernel

\* A rowblock of one Q1 block, two of them, and a ragged matrix that fills the RAM.
KernelShapes == {<<8, 1>>, <<16, 1>>, <<9, 2>>}
=============================================================================
