----------------------------- MODULE MCUploader -----------------------------
(* Instances of Uploader for TLC: two titles that differ in a blank and an   *)
(* underscore and so share a folder, and the empty title.                    *)
EXTENDS Uploader

CONSTANTS Blank, Underscore, Quoted, Empty, SharedFolder, QuotedFolder

MCFolderOf == [t \in Title |-> CASE t = Empty  -> TopFolder
                                 [] t = Quoted -> QuotedFolder
                                 [] OTHER      -> SharedFolder]
=============================================================================
