SPECIFICATION Spec
CONSTANTS
    FullBp = 3
    NoWeight = NoWeight
    Blank = Blank
    FirstGroups <- OneOrTwo
    Entries = {1, 2}
    MaxItems = 2
    MaxWrites = 2
    MaxTyping = 2
    Values <- Held
    Done = 2
    FirstForms <- FormsFollowed
    FirstRows <- NewRow
INVARIANT
    ListSound
PROPERTIES
    TypingIsRespected
    OwnWritesShow
