SPECIFICATION Spec
INVARIANT CleanupOnlyWhenCertain
