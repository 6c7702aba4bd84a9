---------------------------- MODULE Checkpointer ----------------------------
(***************************************************************************)
(* FileCheckpointer (pkg/checkpoint/checkpointer.go): the checkpoint file  *)
(* of a transfer, what a Save leaves on disk at each of its steps, and     *)
(* what Load and UpdateChunk make of it.                                   *)
(*                                                                         *)
(* Save writes in place: the file is truncated when it is opened and holds *)
(* no complete JSON document until the write ends, so a process that dies  *)
(* or fails in between leaves a torn file, which Load rejects.             *)
(***************************************************************************)
EXTENDS Naturals

VARIABLE disk       \* the checkpoint file: its kind and its list of chunks

NoChunks == [id \in {} |-> 0]
Missing == [kind |-> "missing", chunks |-> NoChunks]
Torn == [kind |-> "torn", chunks |-> NoChunks]
Saved(chunks) == [kind |-> "saved", chunks |-> chunks]

\* Load: a missing file is ErrCheckpointNotFound, and json.Unmarshal accepts
\* only a complete document.
Loadable == disk.kind = "saved"

\* Slip: the saved list holds the updated entry only.
UpdatedOnly(chunks, id, chunk) == [i \in {id} |-> chunk]

\* UpdateChunk replaces the entry with the chunk's ID, or appends one.
Updated(chunks, id, chunk) ==
  [i \in DOMAIN chunks \cup {id} |-> IF i = id THEN chunk ELSE chunks[i]]

----------------------------------------------------------------------------
(* The steps of Save.  MkdirAll, the open, the write and the close may fail *)
(* (permissions, a full disk).                                              *)

\* The open succeeds, and O_TRUNC empties the file.
SaveOpen == disk' = Torn

SaveOpenError == UNCHANGED disk

SaveWrite(chunks) == disk' = Saved(chunks)

\* The write fails, or only the close after it.
SaveWriteError(chunks) == disk' \in {disk, Saved(chunks)}

=============================================================================
