SPECIFICATION Spec
CONSTANT Catalogue <- FeesInExtraCurrencies
INVARIANT RoundTrip
