\* Two records and a store with room for two; two options to choose for the next
\* boot, and a prompt that two wrong passwords end.
SPECIFICATION StagesSpec
CONSTANTS
    Record = {r1, r2}
    Capacity = 182
    HeaderSize = 8
    EntrySize = 54
    Option = {o1, o2}
    NoOption = NoOption
    MaxAttempts = 2
INVARIANTS PolicyWhole EnforcedOutsidePage FullMenuIsAuthorised EntryShowsItsForm ChoiceIsBootedOnce AskedPageComesNext
PROPERTY ImplementsRecordLog
