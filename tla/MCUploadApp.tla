---------------------------- MODULE MCUploadApp ----------------------------
(* Two files and three runs of the health effect.                        *)
EXTENDS UploadApp
=============================================================================
