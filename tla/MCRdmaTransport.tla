--------------------------- MODULE MCRdmaTransport ---------------------------
(* Values of the constants of RdmaTransport for TLC. *)
EXTENDS RdmaTransport

\* Two steps whose tensors are of one size, or whose second tensor is larger.
MCTensorSizes == {<<1, 1>>, <<1, 2>>}
=============================================================================
