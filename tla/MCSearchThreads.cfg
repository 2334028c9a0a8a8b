CONSTANTS
    a = a
    b = b
    Letters = {a, b}
    Words <- MCWords
    Queries <- MCQueries
    MaxIds = 3
    T = 3
    MaxCommands = 4
    Nul = Nul
    MaxSpurious = 1
SPECIFICATION FairSpec
INVARIANTS
    TrieHoldsWords
    AnswersComplete
    SearchersQuiet
PROPERTIES
    Terminates
