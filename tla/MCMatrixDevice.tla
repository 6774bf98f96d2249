--------------------------- MODULE MCMatrixDevice ---------------------------
(* MatrixDevice for TLC, with small values for its constants.              *)
EXTENDS MatrixDevice

MCDims == {0, 2, 3}       \* with MAX_N = 2: too small, valid, too large
=============================================================================
