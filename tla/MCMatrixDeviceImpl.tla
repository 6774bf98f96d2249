------------------------- MODULE MCMatrixDeviceImpl -------------------------
(* MatrixDeviceImpl for TLC, with two addresses per pointer half.          *)
EXTENDS MatrixDeviceImpl

MCDims == {0, 2, 3}       \* with MAX_N = 2: too small, valid, too large
=============================================================================
