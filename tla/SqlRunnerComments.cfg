\* Every text of up to six characters.
CONSTANT MaxLength = 6
SPECIFICATION Spec
INVARIANT CommentBlocksFiltered
\* A text of MaxLength characters is not written on.
CHECK_DEADLOCK FALSE
