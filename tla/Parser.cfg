\* Every viable text over each alphabet, and every text over each set of characters.
SPECIFICATION FSpec
CONSTANTS
    Alphabets <- MCAlphabets
    CharSets <- MCCharSets
INVARIANTS ReadsByShape LinesSplit DeclsSplit BracesAreBody LongestLexemes LinesTrue
CHECK_DEADLOCK FALSE
