--------------------------- MODULE MCFileExchange ---------------------------
(* Sizes and earlier copies for the runs of FileExchange.                   *)
EXTENDS FileExchange

LongAndShort == <<2, 1>>
FourChunks   == <<4>>

NoCopy     == {}
OtherFile  == {<<0>>}
SomeCopies == {<<0>>, <<1>>}      \* of another file; the shared one's beginning
=============================================================================
