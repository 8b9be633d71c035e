-------------------------- MODULE MCAttachmentStore --------------------------
(* Small instances of AttachmentStore: message "here" belongs to the       *)
(* conversation that owns the files, "below" to one that inherits them.    *)
EXTENDS AttachmentStore, TLC

CONSTANTS t1, t2, file, here, below

AllAreFile == [u \in Uploads |-> file]
Symmetry == Permutations(Threads)
=============================================================================
