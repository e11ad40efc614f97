SPECIFICATION AccessSpec
CONSTANT NoPath = NoPath
INVARIANT NoTestOpensLive
