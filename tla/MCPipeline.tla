----------------------------- MODULE MCPipeline -----------------------------
\* Four worker threads, three blocks, and a broadcast channel that two of them
\* fill, so that a receiver can fall behind.
EXTENDS Pipeline

=============================================================================
