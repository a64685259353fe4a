--------------------------- MODULE MCChunkDownload ---------------------------
\* The fetch of the chunks of a release, for TLC.
EXTENDS ChunkDownload
=============================================================================
