--------------------------- MODULE MCFileService ---------------------------
(* An instance of FileService for TLC. *)
EXTENDS FileService, TLC

CONSTANTS j1, j2, j3, f

(* One job that reads, with the forms a resource may take, one that meets  *)
(* it at the file it reads, and one that meets both.                       *)
MCAsks ==
  (j1 :> {<<>>, <<"/">>, <<"/", "delete", "/">>, <<"/", "download", "/", f>>}
   @@ j2 :> {<<"/", "delete", "/", f>>, f}
   @@ j3 :> {f})
=============================================================================
