-------------------------- MODULE MCPageAllocator --------------------------
EXTENDS PageAllocator
=============================================================================
