SPECIFICATION Spec
CONSTANTS
    Absent = Absent
    chat = chat
    author = author
    landed = landed
    other = other
    draft = draft
    inbox = inbox
    archive = archive
    Chats = {chat}
    Authors = {author}
    Servers = {landed, other}
    Drafts = {draft}
    Boxes = {inbox, archive}
    RowOf <- RowOfDraft
    BoxOf <- BoxOfDraft
    ChatOf <- OneChat
    AuthorOf <- OneAuthor
    At <- Times
    Says <- ServerChats
    MaxCommits = 4
INVARIANTS
    CountFollowsRows
    SwapIsFollowed
    ToldIsKept
    SeatsFollowRows
PROPERTY
    NoOrphans
CHECK_DEADLOCK FALSE
