------------------------- MODULE MCFileTransmission -------------------------
(* Instances of FileTransmission for TLC: see the file_*.cfg.              *)
EXTENDS FileTransmission
=============================================================================
