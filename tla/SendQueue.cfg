SPECIFICATION Spec
CONSTANTS
    Reqs = {photo, react}
    Attachments = {photo}
    Reactions = {react}
    Votes = {}
    AttachmentAttempts = 2
    TextAttempts = 2
    MaxUpdates = 1
    MaxCommands = 1
    MaxFailures = 2
    None = None
INVARIANTS TypeOK NobodyStranded
PROPERTIES OnlyUserReleases RoomComesBack
