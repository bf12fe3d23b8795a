CONSTANT MaxPieces = 5
SPECIFICATION Spec
INVARIANTS PortIsCut IdentityIsStable CookieIsStored OwnPageMatches OtherPagesDoNotMatch IdentitiesAreApart
CHECK_DEADLOCK FALSE
