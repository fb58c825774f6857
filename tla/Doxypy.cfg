SPECIFICATION FileSpec
CONSTANT MaxLines = 7
INVARIANT NothingLostOrRepeated
INVARIANT OnlyHeadersMove
INVARIANT DocstringsPrecedeTheirHeaders
INVARIANT PlainFilesAreKept
CHECK_DEADLOCK FALSE
