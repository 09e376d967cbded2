----------------------------- MODULE MCReceipts -----------------------------
(* Small instances of Receipts for TLC. *)
EXTENDS Receipts, TLC

Symmetric == Permutations(Ops)

\* One write and undos of every operation.
WriteAndUndo == {Write(k, 1) : k \in Tasks} \union {Undo(s) : s \in Ops}

AnyRequest == Requests
=============================================================================
