--------------------------- MODULE MCGallerySync ---------------------------
(***************************************************************************)
(* Small instances of GallerySync for TLC.                                 *)
(***************************************************************************)
EXTENDS GallerySync

\* No Retry-After, or one longer than the exponential delay.
MCHeaders == {NoHeader, [kind |-> "seconds", value |-> 3]}
=============================================================================
