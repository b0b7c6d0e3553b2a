SPECIFICATION Spec
CONSTANT Catalogue <- AllTypes
INVARIANT RoundTrip
INVARIANT SelfDelimiting
INVARIANT TruncationIsNoticed
INVARIANT FitsInCell
INVARIANT LoadedIsCanonical
