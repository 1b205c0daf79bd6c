SPECIFICATION Spec
CONSTANTS
    Blank = Blank
    Underscore = Underscore
    Quoted = Quoted
    Empty = Empty
    SharedFolder = SharedFolder
    QuotedFolder = QuotedFolder
    TopFolder = TopFolder
    NoTitle = NoTitle
    NoType = NoType
    Tutorial = {full, fix}
    Title = {Blank, Underscore, Quoted, Empty}
    Folder = {SharedFolder, QuotedFolder, TopFolder}
    FolderOf <- MCFolderOf
    BadQuotes = {Quoted}
    MaxRuns = 2
INVARIANTS
    TypeOK
    PostsHaveOwnMedia
    PreparedAtPrompt
