--------------------------- MODULE MCTokenChunking ---------------------------
(* TokenChunking over all small documents and settings.                    *)
EXTENDS TokenChunking

CONSTANTS MaxLen, MaxSize, MaxOverlap

MCLengths == 0 .. MaxLen
MCChunkSizes == 1 .. MaxSize
MCOverlaps == 0 .. MaxOverlap
=============================================================================
