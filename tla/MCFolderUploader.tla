-------------------------- MODULE MCFolderUploader --------------------------
(* Model-checking instance of FolderUploader.  Folder A has two names that  *)
(* parse to the same key ("1" and "01") and a valid timing.json; B has a    *)
(* malformed timing.json; C has none.                                      *)
EXTENDS FolderUploader

MCFolderFiles(f) ==
    CASE f = "A" -> {<<0>>, <<1>>, <<0, 1>>}
      [] f = "B" -> {<<0>>, <<2>>}
      [] f = "C" -> {<<1>>}

MCFolderTiming(f) ==
    CASE f = "A" -> "valid"
      [] f = "B" -> "malformed"
      [] f = "C" -> "none"

MCFiles == [f \in {"A", "B", "C"} |-> MCFolderFiles(f)]
MCTiming == [f \in {"A", "B", "C"} |-> MCFolderTiming(f)]
=============================================================================
