---------------------------- MODULE MCImgStorage ----------------------------
(* The image storage with two resolutions for TLC.  Nothing tells raster   *)
(* images or goroutines apart.                                             *)
EXTENDS ImgStorage, TLC

CONSTANTS small, large

TwoResolutions == <<small, large>>
Symmetry == Permutations(Rasters) \cup Permutations(Stores)
=============================================================================
