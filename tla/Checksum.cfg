\* Words of two bits: every packet, every sequence of rewrites.
SPECIFICATION Spec
CONSTANT M = 4
INVARIANT ChecksumInv
PROPERTY UpdatesAreCanonical
