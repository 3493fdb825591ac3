----------------------------- MODULE MCShimHeap -----------------------------
EXTENDS ShimHeap

\* One place for a huge block, beyond the region.
MCElsewhere == {RegionSize + 1}
=============================================================================
